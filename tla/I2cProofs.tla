----------------------------- MODULE I2cProofs -----------------------------
(***************************************************************************)
(* The I2C driver, for every queue of transfers, however long they are,    *)
(* however short the command list and however small the FIFOs.             *)
(*                                                                         *)
(* First fillCmdQueue by itself (I2cRefill): it never writes past the      *)
(* registers and never puts START before END, every list ends in END or    *)
(* STOP and moves the transaction on, and what crosses the bus is the      *)
(* queue, each byte once and in order, up to its STOP.  The argument is    *)
(* about positions in Stream(dq).  A list is laid out from the position    *)
(* where the controller stands to the one the entries' flags tell (Laid,   *)
(* Reached); the controller only ever executes its head.                   *)
(*                                                                         *)
(* Then the whole driver (I2cDriver), interrupt by interrupt: the handler's*)
(* counters, both FIFOs and the buffers have their places in the same      *)
(* stream (Works), from which follows what the driver reports (DriverInv). *)
(***************************************************************************)
EXTENDS I2cRefill, I2cDriver, SequenceTheorems, FiniteSetTheorems, WellFoundedInduction, TLAPS

Kinds == {"start", "addr", "write", "read", "nak", "stop"}
Tokens == [kind : Kinds, q : Nat, k : Int]

Entries ==
  [mode : {0, 1}, addrReq : Nat \ {0}, length : Nat, stop : BOOLEAN,
   startCmdSent : BOOLEAN, addrCmdSent : BOOLEAN, stopCmdSent : BOOLEAN,
   cmdBytesNeeded : Nat, addrSent : Nat, position : Nat, data : Seq(Tokens)]

Cmds == [op : {"RSTART", "READ", "WRITE", "STOP", "END"}, n : Nat, nak : BOOLEAN, q : Nat]

(* Queues as i2cProcQueue finds them: STOP is sent by the last transfer *)
Queued == {K \in Seq(Entries) : K # <<>> /\ \A q \in 1 .. Len(K) : K[q].stop <=> q = Len(K)}

--------------------
(* Induction.                                                              *)

(* A set of numbers has a least one *)
LEMMA Least ==
  ASSUME NEW S, S \subseteq Nat, S # {}
  PROVE  \E m \in S : \A n \in S : m <= n
<1> DEFINE R == OpToRel(<, Nat)
<1>1. IsWellFoundedOn(R, Nat)
  BY NatLessThanWellFounded
<1>2. \A x, y \in Nat : y < x => <<y, x>> \in R
  BY DEF OpToRel
<1> HIDE DEF R
<1>3. \E x \in S : \A y \in S : ~(<<y, x>> \in R)
  BY <1>1, WFMin
<1>4. PICK m \in S : \A y \in S : ~(<<y, m>> \in R)
  BY <1>3
<1>5. \A n \in S : ~(n < m)
  BY <1>2, <1>4
<1>6. QED BY <1>4, <1>5

(* A set that holds 0, and n + 1 with every n below N, holds 0 .. N *)
LEMMA Induct ==
  ASSUME NEW N \in Nat, NEW T, 0 \in T,
         \A n \in Nat : n < N /\ n \in T => n + 1 \in T
  PROVE  \A n \in 0 .. N : n \in T
<1> SUFFICES ASSUME (0 .. N) \ T # {} PROVE FALSE
  OBVIOUS
<1>1. PICK m \in (0 .. N) \ T : \A n \in (0 .. N) \ T : m <= n
  <2>1. (0 .. N) \ T \subseteq Nat
    OBVIOUS
  <2>2. QED BY <2>1, Least
<1>2. m # 0 /\ m - 1 \in Nat /\ m - 1 < N /\ m - 1 \in T
  BY <1>1
<1>3. m \in T
  <2>1. m - 1 + 1 \in T
    BY <1>2
  <2>2. QED BY <1>1, <2>1
<1>4. QED BY <1>1, <1>3

--------------------
(* The stream of a queue, by positions.                                    *)
Upto(K) ==
  LET upto[q \in 0 .. Len(K)] ==
        IF q = 0 THEN <<>> ELSE upto[q - 1] \o EntryStream(K[q], q)
  IN upto

(* Where the q-th entry ends *)
Off(K, q) == Len(Upto(K)[q])

(* The d-th byte of an entry on the bus *)
ByteOf(e, q, d) ==
  IF d <= e.addrReq THEN Token("addr", q, d)
  ELSE Token(IF e.mode = 0 THEN "write" ELSE IF d - e.addrReq = e.length THEN "nak" ELSE "read",
             q, d - e.addrReq)

Joined(u, s, t) ==
  /\ u \in Seq(Tokens) /\ Len(u) = Len(s) + Len(t)
  /\ \A i \in 1 .. Len(s) : u[i] = s[i]
  /\ \A i \in 1 .. Len(t) : u[Len(s) + i] = t[i]

LEMMA TokensJoin ==
  ASSUME NEW s \in Seq(Tokens), NEW t \in Seq(Tokens)
  PROVE  Joined(s \o t, s, t)
BY ConcatProperties DEF Joined

LEMMA EntryStreamIs ==
  ASSUME NEW e \in Entries, NEW q \in Nat
  PROVE  /\ EntryStream(e, q) \in Seq(Tokens)
         /\ Len(EntryStream(e, q)) = 1 + queueLength(e) + (IF e.stop THEN 1 ELSE 0)
         /\ EntryStream(e, q)[1] = Token("start", q, 0)
         /\ \A d \in 1 .. queueLength(e) : EntryStream(e, q)[1 + d] = ByteOf(e, q, d)
         /\ e.stop => EntryStream(e, q)[2 + queueLength(e)] = Token("stop", q, 0)
<1> DEFINE r == e.addrReq
           n == e.length
           kind(k) == IF e.mode = 0 THEN "write" ELSE IF k = n THEN "nak" ELSE "read"
           A == <<Token("start", q, 0)>>
           B == [k \in 1 .. r |-> Token("addr", q, k)]
           C == [k \in 1 .. n |-> Token(kind(k), q, k)]
           D == IF e.stop THEN <<Token("stop", q, 0)>> ELSE <<>>
<1>1. r \in Nat /\ n \in Nat /\ e.stop \in BOOLEAN
  BY DEF Entries
<1>2. \A kd \in Kinds, k \in Int : Token(kd, q, k) \in Tokens
  BY DEF Token, Tokens
<1> /\ "start" \in Kinds /\ "addr" \in Kinds /\ "stop" \in Kinds
    /\ \A k : kind(k) \in Kinds
  BY DEF Kinds
<1>3. A \in Seq(Tokens) /\ Len(A) = 1 /\ A[1] = Token("start", q, 0)
  BY <1>2
<1>4. B \in Seq(Tokens) /\ Len(B) = r /\ \A k \in 1 .. r : B[k] = Token("addr", q, k)
  <2>1. B \in [1 .. r -> Tokens]
    BY <1>2
  <2>2. QED BY <1>1, <2>1, SeqDef
<1>5. C \in Seq(Tokens) /\ Len(C) = n /\ \A k \in 1 .. n : C[k] = Token(kind(k), q, k)
  <2>1. C \in [1 .. n -> Tokens] /\ \A k \in 1 .. n : C[k] = Token(kind(k), q, k)
    <3> HIDE DEF kind
    <3>1. QED BY <1>2
  <2>2. C \in Seq(Tokens) /\ DOMAIN C = 1 .. n
    BY <1>1, <2>1, SeqDef
  <2>3. Len(C) = n
    BY <1>1, <2>2
  <2>4. QED BY <2>1, <2>2, <2>3
<1>6. /\ D \in Seq(Tokens) /\ Len(D) = (IF e.stop THEN 1 ELSE 0)
      /\ e.stop => D[1] = Token("stop", q, 0)
  BY <1>1, <1>2
<1>7. EntryStream(e, q) = A \o B \o C \o D
  BY DEF EntryStream
<1>8. queueLength(e) = n + r
  BY DEF queueLength
<1>9. \A d \in 1 .. n + r : ByteOf(e, q, d) = IF d <= r THEN B[d] ELSE C[d - r]
  <2> SUFFICES ASSUME NEW d \in 1 .. n + r
               PROVE  ByteOf(e, q, d) = IF d <= r THEN B[d] ELSE C[d - r]
    OBVIOUS
  <2>1. CASE d <= r
    BY <1>1, <1>4, <2>1 DEF ByteOf
  <2>2. CASE ~(d <= r)
    <3>1. d - r \in 1 .. n
      BY <1>1, <2>2
    <3>2. C[d - r] = Token(kind(d - r), q, d - r)
      BY <1>5, <3>1
    <3>3. QED BY <2>2, <3>2 DEF ByteOf
  <2>3. QED BY <2>1, <2>2
<1> HIDE DEF A, B, C, D, r, n
<1>10. PICK AB : AB = A \o B
  OBVIOUS
<1>11. PICK ABC : ABC = AB \o C
  OBVIOUS
<1>12. PICK ABCD : ABCD = ABC \o D
  OBVIOUS
<1>13. /\ AB \in Seq(Tokens) /\ Len(AB) = 1 + r /\ AB[1] = A[1]
       /\ \A d \in 1 .. r : AB[1 + d] = B[d]
  <2>1. Joined(AB, A, B)
    BY <1>3, <1>4, <1>10, TokensJoin
  <2>2. QED BY <1>1, <1>3, <1>4, <2>1 DEF Joined
<1>14. /\ ABC \in Seq(Tokens) /\ Len(ABC) = 1 + n + r /\ ABC[1] = A[1]
       /\ \A d \in 1 .. n + r : ABC[1 + d] = IF d <= r THEN B[d] ELSE C[d - r]
  <2>1. Joined(ABC, AB, C)
    BY <1>5, <1>11, <1>13, TokensJoin
  <2>2. ASSUME NEW d \in 1 .. n + r, ~(d <= r)
        PROVE  ABC[1 + d] = C[d - r]
    <3>1. d - r \in 1 .. n /\ 1 + r + (d - r) = 1 + d
      BY <1>1, <2>2
    <3>2. QED BY <1>5, <1>13, <2>1, <3>1 DEF Joined
  <2>3. QED BY <1>1, <1>5, <1>13, <2>1, <2>2 DEF Joined
<1>15. /\ ABCD \in Seq(Tokens) /\ Len(ABCD) = 1 + (n + r) + Len(D)
       /\ ABCD[1] = A[1]
       /\ \A d \in 1 .. n + r : ABCD[1 + d] = ABC[1 + d]
       /\ e.stop => ABCD[2 + (n + r)] = D[1]
  <2>1. Joined(ABCD, ABC, D)
    BY <1>6, <1>12, <1>14, TokensJoin
  <2>2. e.stop => 1 \in 1 .. Len(D) /\ 1 + n + r + 1 = 2 + (n + r)
    BY <1>1, <1>6
  <2>3. QED BY <1>1, <1>6, <1>14, <2>1, <2>2 DEF Joined
<1>16. EntryStream(e, q) = ABCD
  BY <1>7, <1>10, <1>11, <1>12
<1>17. QED BY <1>3, <1>6, <1>8, <1>9, <1>14, <1>15, <1>16

(* The recursion has a solution, and only one *)
LEMMA UptoIs ==
  ASSUME NEW K \in Seq(Entries)
  PROVE  /\ Upto(K)[0] = <<>>
         /\ \A q \in 1 .. Len(K) : Upto(K)[q] = Upto(K)[q - 1] \o EntryStream(K[q], q)
         /\ \A q \in 0 .. Len(K) : Upto(K)[q] \in Seq(Tokens)
<1> DEFINE Good(n, g) == g = [q \in 0 .. n |->
                                IF q = 0 THEN <<>> ELSE g[q - 1] \o EntryStream(K[q], q)]
           T == {n \in Nat : \E g : Good(n, g)}
<1>1. Len(K) \in Nat /\ \A q \in 1 .. Len(K) : K[q] \in Entries
  OBVIOUS
<1>2. 0 \in T
  <2>1. Good(0, [q \in 0 .. 0 |-> <<>>])
    OBVIOUS
  <2>2. QED BY <2>1
<1>3. ASSUME NEW n \in Nat, n \in T PROVE n + 1 \in T
  <2>1. PICK g : Good(n, g)
    BY <1>3
  <2> DEFINE h == [q \in 0 .. n + 1 |->
                     IF q = n + 1 THEN g[n] \o EntryStream(K[n + 1], n + 1) ELSE g[q]]
  <2>2. ASSUME NEW q \in 0 .. n + 1
        PROVE  h[q] = IF q = 0 THEN <<>> ELSE h[q - 1] \o EntryStream(K[q], q)
    BY <2>1
  <2>3. Good(n + 1, h)
    BY <2>2
  <2> HIDE DEF Good
  <2>4. QED BY <2>3
<1>4. Len(K) \in T
  <2> HIDE DEF T
  <2>1. \A n \in 0 .. Len(K) : n \in T
    BY <1>1, <1>2, <1>3, Induct
  <2>2. QED BY <1>1, <2>1
<1>5. PICK g : Good(Len(K), g)
  BY <1>4
<1>6. /\ Upto(K)[0] = <<>>
      /\ \A q \in 1 .. Len(K) : Upto(K)[q] = Upto(K)[q - 1] \o EntryStream(K[q], q)
  <2> DEFINE u == Upto(K)
  <2>1. u = [q \in 0 .. Len(K) |-> IF q = 0 THEN <<>> ELSE u[q - 1] \o EntryStream(K[q], q)]
    BY <1>5, Zenon DEF Upto
  <2> HIDE DEF u
  <2>2. u[0] = <<>> /\ \A q \in 1 .. Len(K) : u[q] = u[q - 1] \o EntryStream(K[q], q)
    BY <1>1, <2>1
  <2>3. QED BY <2>2, Zenon DEF u
<1>7. \A q \in 0 .. Len(K) : Upto(K)[q] \in Seq(Tokens)
  <2> DEFINE V == {q \in Nat : Upto(K)[q] \in Seq(Tokens)}
  <2>1. 0 \in V
    <3>1. <<>> \in Seq(Tokens)
      BY EmptySeq
    <3>2. QED BY <1>6, <3>1
  <2>2. ASSUME NEW q \in Nat, q < Len(K), q \in V PROVE q + 1 \in V
    <3>1. K[q + 1] \in Entries
      BY <1>1, <2>2
    <3>2. EntryStream(K[q + 1], q + 1) \in Seq(Tokens)
      BY <3>1, EntryStreamIs
    <3>3. Upto(K)[q + 1] = Upto(K)[q] \o EntryStream(K[q + 1], q + 1)
      <4>1. q + 1 \in 1 .. Len(K) /\ (q + 1) - 1 = q
        BY <1>1, <2>2
      <4>2. QED BY <1>6, <4>1
    <3>4. Upto(K)[q] \in Seq(Tokens)
      BY <2>2
    <3>5. Joined(Upto(K)[q + 1], Upto(K)[q], EntryStream(K[q + 1], q + 1))
      BY <3>2, <3>3, <3>4, TokensJoin
    <3>6. QED BY <3>5 DEF Joined
  <2> HIDE DEF V
  <2>3. \A q \in 0 .. Len(K) : q \in V
    BY <1>1, <2>1, <2>2, Induct
  <2>4. QED BY <2>3 DEF V
<1>8. QED BY <1>6, <1>7

(* Entries follow on: each has START, its bytes and perhaps STOP *)
LEMMA OffIs ==
  ASSUME NEW K \in Seq(Entries)
  PROVE  /\ Off(K, 0) = 0
         /\ \A q \in 0 .. Len(K) : Off(K, q) \in Nat
         /\ \A q \in 1 .. Len(K) :
              /\ queueLength(K[q]) \in Nat
              /\ Off(K, q) = Off(K, q - 1) + 1 + queueLength(K[q]) + (IF K[q].stop THEN 1 ELSE 0)
<1>1. Len(K) \in Nat /\ \A q \in 1 .. Len(K) : K[q] \in Entries
  OBVIOUS
<1>2. Off(K, 0) = 0
  <2>1. Upto(K)[0] = <<>>
    BY UptoIs
  <2>2. QED BY <2>1 DEF Off
<1>3. \A q \in 0 .. Len(K) : Off(K, q) \in Nat
  BY UptoIs DEF Off
<1>4. ASSUME NEW q \in 1 .. Len(K)
      PROVE  /\ queueLength(K[q]) \in Nat
             /\ Off(K, q) = Off(K, q - 1) + 1 + queueLength(K[q]) + (IF K[q].stop THEN 1 ELSE 0)
  <2> DEFINE u == Upto(K)[q - 1]
             v == EntryStream(K[q], q)
  <2>1. queueLength(K[q]) \in Nat
    <3>1. K[q] \in Entries
      BY <1>1
    <3>2. K[q].length \in Nat /\ K[q].addrReq \in Nat
      BY <3>1 DEF Entries
    <3>3. QED BY <3>2 DEF queueLength
  <2>2. /\ v \in Seq(Tokens)
        /\ Len(v) = 1 + queueLength(K[q]) + (IF K[q].stop THEN 1 ELSE 0)
    BY <1>1, EntryStreamIs
  <2>3. q - 1 \in 0 .. Len(K) /\ q \in 0 .. Len(K) /\ q # 0
    OBVIOUS
  <2>4. u \in Seq(Tokens) /\ Upto(K)[q] = u \o v
    BY <2>3, UptoIs
  <2> HIDE DEF u, v
  <2>5. Joined(u \o v, u, v)
    BY <2>2, <2>4, TokensJoin
  <2>6. Len(Upto(K)[q]) = Len(u) + Len(v) /\ Len(u) \in Nat
    BY <2>4, <2>5 DEF Joined
  <2>7. Off(K, q) = Len(Upto(K)[q]) /\ Off(K, q - 1) = Len(u)
    BY DEF Off, u
  <2>8. Off(K, q) = Len(u) + (1 + queueLength(K[q]) + (IF K[q].stop THEN 1 ELSE 0))
    BY <2>2, <2>6, <2>7
  <2>9. CASE K[q].stop
    BY <2>1, <2>6, <2>7, <2>8, <2>9
  <2>10. CASE ~K[q].stop
    BY <2>1, <2>6, <2>7, <2>8, <2>10
  <2>11. QED BY <2>9, <2>10
<1>5. QED BY <1>2, <1>3, <1>4

LEMMA OffGrows ==
  ASSUME NEW K \in Seq(Entries), NEW b \in 0 .. Len(K), NEW a \in 0 .. b
  PROVE  Off(K, a) <= Off(K, b)
<1> DEFINE V == {n \in Nat : n <= Len(K) => \A i \in 0 .. n : Off(K, i) <= Off(K, n)}
<1>1. Len(K) \in Nat
  OBVIOUS
<1>2. 0 \in V
  BY OffIs, <1>1
<1>3. ASSUME NEW n \in Nat, n < Len(K), n \in V PROVE n + 1 \in V
  <2>1. \A i \in 0 .. n : Off(K, i) <= Off(K, n)
    <3>1. n <= Len(K)
      BY <1>1, <1>3
    <3>2. QED BY <1>3, <3>1
  <2>2. n + 1 \in 1 .. Len(K) /\ n \in 0 .. Len(K) /\ n + 1 \in 0 .. Len(K) /\ (n + 1) - 1 = n
    BY <1>1, <1>3
  <2>3. Off(K, n) \in Nat /\ Off(K, n + 1) \in Nat /\ Off(K, n) <= Off(K, n + 1)
    <3>1. /\ Off(K, n) \in Nat /\ Off(K, n + 1) \in Nat /\ queueLength(K[n + 1]) \in Nat
          /\ Off(K, n + 1) = Off(K, n) + 1 + queueLength(K[n + 1]) + (IF K[n + 1].stop THEN 1 ELSE 0)
      BY <2>2, OffIs
    <3>2. QED BY <3>1
  <2>4. \A i \in 0 .. n : Off(K, i) \in Nat
    BY <1>1, <1>3, OffIs
  <2>5. \A i \in 0 .. n + 1 : i \in 0 .. n \/ i = n + 1
    OBVIOUS
  <2>6. \A i \in 0 .. n + 1 : Off(K, i) <= Off(K, n + 1)
    BY <2>1, <2>3, <2>4, <2>5
  <2>7. QED BY <2>6
<1> HIDE DEF V
<1>4. \A n \in 0 .. Len(K) : n \in V
  BY <1>1, <1>2, <1>3, Induct
<1>5. QED BY <1>1, <1>4 DEF V

LEMMA StreamAt ==
  ASSUME NEW K \in Seq(Entries)
  PROVE  /\ Stream(K) \in Seq(Tokens) /\ Len(Stream(K)) = Off(K, Len(K))
         /\ \A q \in 1 .. Len(K) : \A j \in 1 .. Len(EntryStream(K[q], q)) :
              Stream(K)[Off(K, q - 1) + j] = EntryStream(K[q], q)[j]
<1> DEFINE At(n) == \A q \in 1 .. n : \A j \in 1 .. Len(EntryStream(K[q], q)) :
                      Upto(K)[n][Off(K, q - 1) + j] = EntryStream(K[q], q)[j]
           V == {n \in Nat : At(n)}
<1>1. Len(K) \in Nat /\ \A q \in 1 .. Len(K) : K[q] \in Entries
  OBVIOUS
<1>2. Stream(K) = Upto(K)[Len(K)]
  BY DEF Stream, Upto
<1>3. 0 \in V
  OBVIOUS
<1>4. ASSUME NEW n \in Nat, n < Len(K), n \in V PROVE n + 1 \in V
  <2> DEFINE u == Upto(K)[n]
             v == EntryStream(K[n + 1], n + 1)
             w == Upto(K)[n + 1]
  <2>1. n + 1 \in 1 .. Len(K) /\ n \in 0 .. Len(K) /\ n + 1 \in 0 .. Len(K) /\ (n + 1) - 1 = n
    BY <1>1, <1>4
  <2>2. v \in Seq(Tokens)
    BY <1>1, <2>1, EntryStreamIs
  <2>3. u \in Seq(Tokens) /\ w = u \o v
    <3>1. u \in Seq(Tokens)
      BY <2>1, UptoIs
    <3>2. w = Upto(K)[(n + 1) - 1] \o v
      BY <2>1, UptoIs
    <3>3. QED BY <2>1, <3>1, <3>2
  <2>4. Joined(w, u, v)
    BY <2>2, <2>3, TokensJoin
  <2>5. SUFFICES ASSUME NEW q \in 1 .. n + 1, NEW j \in 1 .. Len(EntryStream(K[q], q))
                 PROVE  w[Off(K, q - 1) + j] = EntryStream(K[q], q)[j]
    BY <2>1
  <2>6. CASE q = n + 1
    BY <2>1, <2>4, <2>6 DEF Joined, Off
  <2>7. CASE q # n + 1
    <3>1. q \in 1 .. n /\ q \in 1 .. Len(K)
      BY <1>1, <1>4, <2>7
    <3>2. u[Off(K, q - 1) + j] = EntryStream(K[q], q)[j]
      BY <1>4, <3>1
    <3>3. /\ Len(EntryStream(K[q], q)) = 1 + queueLength(K[q]) + (IF K[q].stop THEN 1 ELSE 0)
          /\ j \in Nat
      BY <1>1, <3>1, EntryStreamIs
    <3>4. /\ Off(K, q) = Off(K, q - 1) + 1 + queueLength(K[q]) + (IF K[q].stop THEN 1 ELSE 0)
          /\ queueLength(K[q]) \in Nat /\ Off(K, q - 1) \in Nat
      <4>1. q - 1 \in 0 .. Len(K)
        BY <3>1
      <4>2. QED BY <3>1, <4>1, OffIs
    <3>5. Off(K, q) <= Off(K, n) /\ Off(K, n) \in Nat
      <4>1. q \in 0 .. n
        BY <3>1
      <4>2. QED BY <2>1, <4>1, OffGrows, OffIs
    <3>6. Off(K, q - 1) + j \in 1 .. Len(u)
      <4>1. Off(K, q - 1) + j <= Off(K, q - 1) + Len(EntryStream(K[q], q))
        BY <3>3, <3>4
      <4>2. Len(EntryStream(K[q], q)) = Off(K, q) - Off(K, q - 1)
        BY <3>3, <3>4
      <4>3. Len(u) = Off(K, n)
        BY DEF Off
      <4>4. Off(K, q - 1) + j <= Len(u) /\ j > 0
        BY <3>3, <3>4, <3>5, <4>1, <4>2, <4>3, SMTT(30)
      <4>5. QED BY <3>3, <3>4, <3>5, <4>3, <4>4, SMTT(30)
    <3>7. QED BY <2>4, <3>2, <3>6 DEF Joined
  <2>8. QED BY <2>6, <2>7
<1>5. At(Len(K))
  <2> HIDE DEF V
  <2>1. \A n \in 0 .. Len(K) : n \in V
    BY <1>1, <1>3, <1>4, Induct
  <2>2. Len(K) \in V
    BY <1>1, <2>1
  <2>3. QED BY <2>2 DEF V
<1>6. Upto(K)[Len(K)] \in Seq(Tokens)
  <2>1. Len(K) \in 0 .. Len(K)
    BY <1>1
  <2>2. QED BY <2>1, UptoIs
<1>7. QED BY <1>2, <1>5, <1>6 DEF Off

(* Where START, the bytes and STOP of an entry are *)
LEMMA Positions ==
  ASSUME NEW K \in Seq(Entries), NEW q \in 1 .. Len(K)
  PROVE  /\ Stream(K)[Off(K, q - 1) + 1] = Token("start", q, 0)
         /\ \A d \in 1 .. queueLength(K[q]) :
              Stream(K)[Off(K, q - 1) + 1 + d] = ByteOf(K[q], q, d)
         /\ K[q].stop =>
              Stream(K)[Off(K, q - 1) + 2 + queueLength(K[q])] = Token("stop", q, 0)
<1> DEFINE e == K[q]
           u == EntryStream(e, q)
           o == Off(K, q - 1)
<1>1. e \in Entries /\ q - 1 \in 0 .. Len(K)
  OBVIOUS
<1>2. queueLength(e) \in Nat /\ o \in Nat
  BY <1>1, OffIs
<1>3. /\ Len(u) = 1 + queueLength(e) + (IF e.stop THEN 1 ELSE 0)
      /\ u[1] = Token("start", q, 0)
      /\ \A d \in 1 .. queueLength(e) : u[1 + d] = ByteOf(e, q, d)
      /\ e.stop => u[2 + queueLength(e)] = Token("stop", q, 0)
  BY <1>1, EntryStreamIs
<1>4. \A j \in 1 .. Len(u) : Stream(K)[o + j] = u[j]
  BY StreamAt
<1> HIDE DEF e, u, o
<1>5. /\ 1 \in 1 .. Len(u) /\ \A d \in 1 .. queueLength(e) : 1 + d \in 1 .. Len(u)
      /\ e.stop => 2 + queueLength(e) \in 1 .. Len(u)
  BY <1>2, <1>3
<1>6. /\ \A d \in 1 .. queueLength(e) : o + 1 + d = o + (1 + d)
      /\ o + 2 + queueLength(e) = o + (2 + queueLength(e))
  BY <1>2
<1>7. QED BY <1>3, <1>4, <1>5, <1>6 DEF e, u, o

(* The flags and the bytes read do not matter to it *)
SameTransfer(e, f) ==
  e.mode = f.mode /\ e.addrReq = f.addrReq /\ e.length = f.length /\ e.stop = f.stop

Likewise(K, d) ==
  d \in Seq(Entries) /\ Len(d) = Len(K) /\ \A q \in 1 .. Len(K) : SameTransfer(K[q], d[q])

LEMMA LikewiseStream ==
  ASSUME NEW K \in Seq(Entries), NEW d, Likewise(K, d)
  PROVE  /\ Stream(d) = Stream(K)
         /\ \A q \in 0 .. Len(K) : Off(d, q) = Off(K, q)
         /\ \A q \in 1 .. Len(K) : queueLength(d[q]) = queueLength(K[q])
<1> DEFINE V == {n \in Nat : Upto(d)[n] = Upto(K)[n]}
<1>1. Len(K) \in Nat /\ Len(d) = Len(K) /\ d \in Seq(Entries)
  BY SMTT(30) DEF Likewise
<1>2. \A q \in 1 .. Len(K) : EntryStream(d[q], q) = EntryStream(K[q], q)
  BY DEF Likewise, SameTransfer, EntryStream
<1>3. 0 \in V
  BY <1>1, UptoIs
<1>4. ASSUME NEW n \in Nat, n < Len(K), n \in V PROVE n + 1 \in V
  <2>1. n + 1 \in 1 .. Len(K) /\ (n + 1) - 1 = n
    BY <1>1, <1>4
  <2>2. Upto(d)[n + 1] = Upto(d)[(n + 1) - 1] \o EntryStream(d[n + 1], n + 1)
    BY <1>1, <2>1, UptoIs
  <2>3. Upto(K)[n + 1] = Upto(K)[(n + 1) - 1] \o EntryStream(K[n + 1], n + 1)
    BY <2>1, UptoIs
  <2>4. Upto(d)[n] = Upto(K)[n]
    BY <1>4
  <2>5. EntryStream(d[n + 1], n + 1) = EntryStream(K[n + 1], n + 1)
    BY <1>2, <2>1
  <2>6. Upto(d)[n + 1] = Upto(K)[n + 1]
    BY <2>1, <2>2, <2>3, <2>4, <2>5
  <2>7. QED BY <2>6
<1>5. \A n \in 0 .. Len(K) : Upto(d)[n] = Upto(K)[n]
  <2> HIDE DEF V
  <2>1. \A n \in 0 .. Len(K) : n \in V
    BY <1>1, <1>3, <1>4, Induct
  <2>2. QED BY <2>1 DEF V
<1>6. Stream(d) = Stream(K)
  <2>1. Len(K) \in 0 .. Len(K)
    BY <1>1
  <2>2. Stream(d) = Upto(d)[Len(d)] /\ Stream(K) = Upto(K)[Len(K)]
    BY DEF Stream, Upto
  <2>3. QED BY <1>1, <1>5, <2>1, <2>2
<1>7. \A q \in 1 .. Len(K) : queueLength(d[q]) = queueLength(K[q])
  BY DEF Likewise, SameTransfer, queueLength
<1>8. QED BY <1>5, <1>6, <1>7 DEF Off

(* Nor do the flags of fillCmdQueue to anything else of an entry *)
SameEntry(e, f) ==
  /\ e.mode = f.mode /\ e.addrReq = f.addrReq /\ e.length = f.length /\ e.stop = f.stop
  /\ e.addrSent = f.addrSent /\ e.position = f.position /\ e.data = f.data

Alike(K, d) ==
  d \in Seq(Entries) /\ Len(d) = Len(K) /\ \A q \in 1 .. Len(K) : SameEntry(K[q], d[q])

LEMMA AlikeStream ==
  ASSUME NEW K \in Seq(Entries), NEW d, Alike(K, d)
  PROVE  /\ Stream(d) = Stream(K)
         /\ \A q \in 0 .. Len(K) : Off(d, q) = Off(K, q)
         /\ \A q \in 1 .. Len(K) : queueLength(d[q]) = queueLength(K[q])
<1>1. Likewise(K, d)
  BY DEF Alike, Likewise, SameEntry, SameTransfer
<1>2. QED BY <1>1, LikewiseStream

--------------------
(* Command lists, and where they go.                                       *)
Moves == {"READ", "WRITE"}

(* Bytes of the stream that a command stands for *)
Size(c) == IF c.op \in Moves THEN c.n ELSE IF c.op = "END" THEN 0 ELSE 1

(* What the driver sends of an entry; and a command that may stand for the *)
(* n bytes after the first i of it: a WRITE for those, a READ for others   *)
OutLen(e) == e.addrReq + (IF e.mode = 0 THEN e.length ELSE 0)

Carries(e, op, i, n) ==
  (op = "WRITE" => i + n <= OutLen(e)) /\ (op = "READ" => e.mode = 1 /\ e.addrReq <= i)

(* The command is right for the byte after p *)
Place(K, c, p) ==
  /\ c.q \in 1 .. Len(K)
  /\ c.op = "RSTART" => p = Off(K, c.q - 1)
  /\ c.op = "STOP" => K[c.q].stop /\ p = Off(K, c.q - 1) + 1 + queueLength(K[c.q])
  /\ c.op \in Moves =>
       /\ Off(K, c.q - 1) + 1 <= p
       /\ p + c.n <= Off(K, c.q - 1) + 1 + queueLength(K[c.q])
       /\ Carries(K[c.q], c.op, p - Off(K, c.q - 1) - 1, c.n)
       /\ \A k \in 1 .. c.n :
            Stream(K)[p + k] = ByteToken(K[c.q], c.q, p + k - Off(K, c.q - 1) - 1, c.nak)

(* The commands, one after the other, are right from p up to pEnd *)
Along(K, cmds, l) ==
  \A i \in 1 .. Len(cmds) : l[i] = l[i - 1] + Size(cmds[i]) /\ Place(K, cmds[i], l[i - 1])

Laid(K, p, cmds, pEnd) ==
  \E l \in [0 .. Len(cmds) -> Nat] :
    l[0] = p /\ l[Len(cmds)] = pEnd /\ Along(K, cmds, l)

LEMMA SizeType == \A c \in Cmds : Size(c) \in Nat
BY DEF Cmds, Size

LEMMA LaidEmpty ==
  ASSUME NEW K, NEW p \in Nat PROVE Laid(K, p, <<>>, p)
<1> DEFINE l == [i \in 0 .. Len(<<>>) |-> p]
<1>1. l \in [0 .. Len(<<>>) -> Nat] /\ l[0] = p /\ l[Len(<<>>)] = p
  OBVIOUS
<1>2. Along(K, <<>>, l)
  BY DEF Along
<1> HIDE DEF l
<1>3. QED BY <1>1, <1>2 DEF Laid

LEMMA LaidMore ==
  ASSUME NEW K, NEW cmds \in Seq(Cmds), NEW c \in Cmds, NEW p, NEW pEnd,
         Laid(K, p, cmds, pEnd), Place(K, c, pEnd)
  PROVE  pEnd \in Nat /\ Laid(K, p, Append(cmds, c), pEnd + Size(c))
<1>1. PICK l \in [0 .. Len(cmds) -> Nat] :
        l[0] = p /\ l[Len(cmds)] = pEnd /\ Along(K, cmds, l)
  BY DEF Laid
<1> DEFINE n == Len(cmds)
           more == Append(cmds, c)
           m == [i \in 0 .. n + 1 |-> IF i = n + 1 THEN pEnd + Size(c) ELSE l[i]]
<1>2. n \in Nat /\ pEnd \in Nat /\ Size(c) \in Nat
  <2>1. Len(cmds) \in 0 .. Len(cmds)
    OBVIOUS
  <2>2. QED BY <1>1, <2>1, SizeType
<1>3. Len(more) = n + 1 /\ more[n + 1] = c /\ \A i \in 1 .. n : more[i] = cmds[i]
  OBVIOUS
<1> HIDE DEF n, more
<1>4. m \in [0 .. n + 1 -> Nat]
  BY <1>1, <1>2 DEF n
<1>5. m[0] = p /\ m[n + 1] = pEnd + Size(c) /\ \A i \in 0 .. n : m[i] = l[i]
  BY <1>1, <1>2
<1> HIDE DEF m
<1>6. ASSUME NEW i \in 1 .. n + 1
      PROVE  m[i] = m[i - 1] + Size(more[i]) /\ Place(K, more[i], m[i - 1])
  <2>1. CASE i = n + 1
    <3>1. m[i - 1] = pEnd
      BY <1>1, <1>2, <1>5, <2>1 DEF n
    <3>2. QED BY <1>2, <1>3, <1>5, <2>1, <3>1
  <2>2. CASE i # n + 1
    <3>1. i \in 1 .. n /\ i \in 0 .. n /\ i - 1 \in 0 .. n
      BY <1>2, <2>2
    <3>2. l[i] = l[i - 1] + Size(cmds[i]) /\ Place(K, cmds[i], l[i - 1])
      BY <1>1, <3>1 DEF Along, n
    <3>3. QED BY <1>3, <1>5, <3>1, <3>2
  <2>3. QED BY <2>1, <2>2
<1>7. Along(K, more, m)
  BY <1>3, <1>6 DEF Along
<1>8. QED BY <1>2, <1>3, <1>4, <1>5, <1>7 DEF Laid, more

LEMMA LaidHead ==
  ASSUME NEW K, NEW cmds \in Seq(Cmds), cmds # <<>>, NEW p, NEW pEnd,
         Laid(K, p, cmds, pEnd)
  PROVE  /\ Place(K, Head(cmds), p)
         /\ Laid(K, p + Size(Head(cmds)), Tail(cmds), pEnd)
<1>1. PICK l \in [0 .. Len(cmds) -> Nat] :
        l[0] = p /\ l[Len(cmds)] = pEnd /\ Along(K, cmds, l)
  BY DEF Laid
<1> DEFINE n == Len(cmds)
           rest == Tail(cmds)
           m == [i \in 0 .. n - 1 |-> l[i + 1]]
<1>2. n \in Nat \ {0}
  OBVIOUS
<1>3. Head(cmds) = cmds[1] /\ Len(rest) = n - 1 /\ \A i \in 1 .. n - 1 : rest[i] = cmds[i + 1]
  OBVIOUS
<1> HIDE DEF n, rest
<1>4. m \in [0 .. n - 1 -> Nat]
  BY <1>1, <1>2 DEF n
<1>5. \A i \in 0 .. n - 1 : m[i] = l[i + 1]
  OBVIOUS
<1> HIDE DEF m
<1>6. \A i \in 1 .. n : l[i] = l[i - 1] + Size(cmds[i]) /\ Place(K, cmds[i], l[i - 1])
  BY <1>1 DEF Along, n
<1>7. l[1] = p + Size(cmds[1]) /\ Place(K, cmds[1], p)
  BY <1>1, <1>2, <1>6
<1>8. m[0] = p + Size(cmds[1]) /\ m[n - 1] = pEnd
  BY <1>1, <1>2, <1>5, <1>7 DEF n
<1>9. ASSUME NEW i \in 1 .. n - 1
      PROVE  m[i] = m[i - 1] + Size(rest[i]) /\ Place(K, rest[i], m[i - 1])
  <2>1. /\ i + 1 \in 1 .. n /\ i \in 0 .. n - 1 /\ i - 1 \in 0 .. n - 1
        /\ (i - 1) + 1 = i /\ (i + 1) - 1 = i
    BY <1>2
  <2>2. m[i] = l[i + 1] /\ m[i - 1] = l[i]
    BY <1>5, <2>1
  <2>3. l[i + 1] = l[i] + Size(cmds[i + 1]) /\ Place(K, cmds[i + 1], l[i])
    BY <1>6, <2>1
  <2>4. QED BY <1>3, <2>2, <2>3
<1>10. Along(K, rest, m)
  BY <1>3, <1>9 DEF Along
<1>11. QED BY <1>3, <1>4, <1>7, <1>8, <1>10 DEF Laid, rest

(* A command that moves nothing goes anywhere *)
Inserted(cmds, k, c) == SubSeq(cmds, 1, k - 1) \o <<c>> \o SubSeq(cmds, k, Len(cmds))

LEMMA InsertedIs ==
  ASSUME NEW cmds \in Seq(Cmds), NEW k \in 1 .. Len(cmds), NEW c \in Cmds
  PROVE  /\ Inserted(cmds, k, c) \in Seq(Cmds)
         /\ Len(Inserted(cmds, k, c)) = Len(cmds) + 1
         /\ \A i \in 1 .. Len(cmds) + 1 :
              Inserted(cmds, k, c)[i] = IF i < k THEN cmds[i] ELSE IF i = k THEN c ELSE cmds[i - 1]
<1> DEFINE n == Len(cmds)
           A == SubSeq(cmds, 1, k - 1)
           B == SubSeq(cmds, k, n)
<1>1. n \in Nat /\ k \in 1 .. n
  OBVIOUS
<1>2. A \in Seq(Cmds) /\ Len(A) = k - 1 /\ \A i \in 1 .. k - 1 : A[i] = cmds[i]
  BY <1>1
<1>3. B \in Seq(Cmds) /\ Len(B) = n - k + 1 /\ \A i \in 1 .. n - k + 1 : B[i] = cmds[k + i - 1]
  BY <1>1
<1> HIDE DEF A, B
<1>4. /\ A \o <<c>> \in Seq(Cmds) /\ Len(A \o <<c>>) = k /\ (A \o <<c>>)[k] = c
      /\ \A i \in 1 .. k - 1 : (A \o <<c>>)[i] = cmds[i]
  BY <1>1, <1>2
<1>5. PICK ac : ac = A \o <<c>>
  OBVIOUS
<1>6. /\ ac \o B \in Seq(Cmds) /\ Len(ac \o B) = n + 1
      /\ \A i \in 1 .. k : (ac \o B)[i] = ac[i]
      /\ \A i \in 1 .. n + 1 : i > k => (ac \o B)[i] = B[i - k]
  <2>1. ac \in Seq(Cmds) /\ Len(ac) = k
    BY <1>4, <1>5
  <2>2. /\ ac \o B \in Seq(Cmds) /\ Len(ac \o B) = Len(ac) + Len(B)
        /\ \A i \in 1 .. Len(ac) + Len(B) :
             (ac \o B)[i] = IF i <= Len(ac) THEN ac[i] ELSE B[i - Len(ac)]
    BY <1>3, <2>1, ConcatProperties
  <2>3. Len(ac) + Len(B) = n + 1
    BY <1>1, <1>3, <2>1
  <2>4. QED BY <1>1, <2>1, <2>2, <2>3
<1>7. ASSUME NEW i \in 1 .. n + 1, i > k PROVE (ac \o B)[i] = cmds[i - 1]
  <2>1. i - k \in 1 .. n - k + 1 /\ k + (i - k) - 1 = i - 1
    BY <1>1, <1>7
  <2>2. QED BY <1>3, <1>6, <1>7, <2>1
<1>8. Inserted(cmds, k, c) = ac \o B
  BY <1>5 DEF Inserted, A, B
<1>9. ASSUME NEW i \in 1 .. n + 1
      PROVE  (ac \o B)[i] = IF i < k THEN cmds[i] ELSE IF i = k THEN c ELSE cmds[i - 1]
  <2>1. CASE i < k
    BY <1>1, <1>4, <1>5, <1>6, <2>1, SMTT(30)
  <2>2. CASE i = k
    BY <1>1, <1>4, <1>5, <1>6, <2>2
  <2>3. CASE i > k
    <3>1. i # k /\ ~(i < k)
      BY <1>1, <2>3
    <3>2. (ac \o B)[i] = cmds[i - 1]
      BY <1>7, <2>3
    <3>3. QED BY <3>1, <3>2
  <2>4. i < k \/ i = k \/ i > k
    BY <1>1
  <2>5. QED BY <2>1, <2>2, <2>3, <2>4
<1>10. QED BY <1>6, <1>8, <1>9

LEMMA LaidInserted ==
  ASSUME NEW K, NEW cmds \in Seq(Cmds), NEW k \in 1 .. Len(cmds), NEW c \in Cmds,
         Size(c) = 0, \A p \in Nat : Place(K, cmds[k], p) => Place(K, c, p),
         NEW p0, NEW pEnd, Laid(K, p0, cmds, pEnd)
  PROVE  Laid(K, p0, Inserted(cmds, k, c), pEnd)
<1>1. PICK l \in [0 .. Len(cmds) -> Nat] :
        l[0] = p0 /\ l[Len(cmds)] = pEnd /\ Along(K, cmds, l)
  BY DEF Laid
<1> DEFINE n == Len(cmds)
           new == Inserted(cmds, k, c)
           m == [i \in 0 .. n + 1 |-> IF i < k THEN l[i] ELSE l[i - 1]]
<1>2. n \in Nat /\ k \in 1 .. n
  OBVIOUS
<1>3. /\ Len(new) = n + 1
      /\ \A i \in 1 .. n + 1 :
           new[i] = IF i < k THEN cmds[i] ELSE IF i = k THEN c ELSE cmds[i - 1]
  BY InsertedIs, ZenonT(60)
<1>4. \A i \in 1 .. n : l[i] = l[i - 1] + Size(cmds[i]) /\ Place(K, cmds[i], l[i - 1])
  BY <1>1 DEF Along
<1>5. \A i \in 0 .. n : l[i] \in Nat
  BY <1>1
<1> HIDE DEF n, new
<1>6. m \in [0 .. n + 1 -> Nat]
  BY <1>2, <1>5
<1>7. \A i \in 0 .. n + 1 : m[i] = IF i < k THEN l[i] ELSE l[i - 1]
  OBVIOUS
<1> HIDE DEF m
<1>8. m[0] = p0 /\ m[n + 1] = pEnd
  BY <1>1, <1>2, <1>7 DEF n
<1>9. ASSUME NEW i \in 1 .. n + 1
      PROVE  m[i] = m[i - 1] + Size(new[i]) /\ Place(K, new[i], m[i - 1])
  <2>1. i \in 0 .. n + 1 /\ i - 1 \in 0 .. n + 1
    BY <1>2
  <2>2. CASE i < k
    <3>1. i \in 1 .. n /\ i - 1 < k
      BY <1>2, <2>2
    <3>2. m[i] = l[i] /\ m[i - 1] = l[i - 1]
      BY <1>7, <2>1, <2>2, <3>1
    <3>3. QED BY <1>3, <1>4, <2>2, <3>1, <3>2
  <2>3. CASE i = k
    <3>1. k \in 1 .. n /\ k - 1 < k /\ ~(k < k)
      BY <1>2
    <3>2. m[i] = l[k - 1] /\ m[i - 1] = l[k - 1]
      BY <1>7, <2>1, <2>3, <3>1
    <3>3. l[k - 1] \in Nat /\ Place(K, cmds[k], l[k - 1])
      BY <1>2, <1>4, <1>5
    <3>4. new[i] = c
      BY <1>3, <2>3, <3>1
    <3>5. QED BY <3>2, <3>3, <3>4
  <2>4. CASE i > k
    <3>1. i - 1 \in 1 .. n /\ ~(i < k) /\ ~(i - 1 < k) /\ i # k
      BY <1>2, <2>4
    <3>2. m[i] = l[i - 1] /\ m[i - 1] = l[(i - 1) - 1]
      BY <1>7, <2>1, <3>1
    <3>3. QED BY <1>3, <1>4, <3>1, <3>2
  <2>5. QED BY <1>2, <2>2, <2>3, <2>4
<1>10. Along(K, new, m)
  BY <1>3, <1>9 DEF Along
<1>11. QED BY <1>3, <1>6, <1>8, <1>10 DEF Laid, new

--------------------
(* One iteration of fillCmdQueue.                                          *)
State(d, q, c, b) == [dq |-> d, qp |-> q, cmd |-> c, done |-> b]

Yes == TRUE
No == FALSE

LEMMA FieldsOf ==
  ASSUME NEW d, NEW q, NEW c, NEW b
  PROVE  LET s == State(d, q, c, b)
         IN  /\ s.dq = d /\ s.qp = q /\ s.cmd = c /\ s.done = b /\ Entry(s) = d[q]
             /\ (Full(s) <=> Len(c) >= LAST) /\ (StartFits(s) <=> Len(c) < LAST - 1)
BY DEF State, Entry, Full, StartFits

LEMMA PutIs ==
  ASSUME NEW d, NEW q, NEW c, NEW b, NEW op, NEW n, NEW nak
  PROVE  Put(State(d, q, c, b), op, n, nak) = State(d, q, Append(c, Cmd(op, n, nak, q)), b)
<1> DEFINE w == Append(c, Cmd(op, n, nak, q))
           s == State(d, q, c, b)
<1>1. s.qp = q /\ s.cmd = c
  BY DEF State
<1>2. Put(s, op, n, nak) = [s EXCEPT !.cmd = w]
  <2> HIDE DEF s
  <2>1. QED BY <1>1 DEF Put
<1> HIDE DEF w
<1>3. [s EXCEPT !.cmd = w] = State(d, q, w, b)
  BY SMT DEF State
<1>4. QED BY <1>2, <1>3 DEF w

LEMMA StartIs ==
  ASSUME NEW d, NEW q, NEW c, NEW b
  PROVE  AddStart(State(d, q, c, b)) =
           IF ~d[q].startCmdSent /\ Len(c) < LAST - 1
           THEN State([d EXCEPT ![q] = [d[q] EXCEPT !.startCmdSent = Yes]], q,
                      Append(c, Cmd("RSTART", 0, No, q)), b)
           ELSE State(d, q, c, b)
<1> DEFINE s == State(d, q, c, b)
           v == Append(c, Cmd("RSTART", 0, No, q))
           u == Put(s, "RSTART", 0, No)
<1>1. AddStart(s) = IF ~Entry(s).startCmdSent /\ StartFits(s)
                  THEN [u EXCEPT !.dq[s.qp].startCmdSent = Yes] ELSE s
  BY Zenon DEF AddStart, Yes, No
<1>2. /\ s.qp = q /\ Entry(s) = d[q]
      /\ (Full(s) <=> Len(c) >= LAST) /\ (StartFits(s) <=> Len(c) < LAST - 1)
  BY FieldsOf
<1>3. u = State(d, q, v, b)
  BY <1>2, PutIs
<1> HIDE DEF s, u, v
<1>4. [u EXCEPT !.dq[q].startCmdSent = Yes]
        = State([d EXCEPT ![q] = [d[q] EXCEPT !.startCmdSent = Yes]], q, v, b)
  BY <1>3, SMT DEF State
<1>5. QED BY <1>1, <1>2, <1>4 DEF s, v

LEMMA AddressIs ==
  ASSUME NEW d, NEW q, NEW c, NEW b
  PROVE  AddAddress(State(d, q, c, b)) =
           IF ~(Len(c) >= LAST) /\ d[q].startCmdSent /\ ~d[q].addrCmdSent
           THEN State([d EXCEPT ![q] = [d[q] EXCEPT !.addrCmdSent = Yes]], q,
                      Append(c, Cmd("WRITE", d[q].addrReq, No, q)), b)
           ELSE State(d, q, c, b)
<1> DEFINE s == State(d, q, c, b)
           v == Append(c, Cmd("WRITE", d[q].addrReq, No, q))
           u == Put(s, "WRITE", Entry(s).addrReq, No)
<1>1. AddAddress(s) = IF ~Full(s) /\ Entry(s).startCmdSent /\ ~Entry(s).addrCmdSent
                    THEN [u EXCEPT !.dq[s.qp].addrCmdSent = Yes] ELSE s
  BY Zenon DEF AddAddress, Yes, No
<1>2. /\ s.qp = q /\ Entry(s) = d[q]
      /\ (Full(s) <=> Len(c) >= LAST) /\ (StartFits(s) <=> Len(c) < LAST - 1)
  BY FieldsOf
<1>3. u = State(d, q, v, b)
  BY <1>2, PutIs
<1> HIDE DEF s, u, v
<1>4. [u EXCEPT !.dq[q].addrCmdSent = Yes]
        = State([d EXCEPT ![q] = [d[q] EXCEPT !.addrCmdSent = Yes]], q, v, b)
  BY <1>3, SMT DEF State
<1>5. QED BY <1>1, <1>2, <1>4 DEF s, v

LEMMA BlockIs ==
  ASSUME NEW d, NEW q, NEW c, NEW b
  PROVE  LET e == d[q]
             op == IF e.mode = 1 THEN "READ" ELSE "WRITE"
             left == e.cmdBytesNeeded - BlockSize(e)
         IN  AddBlock(State(d, q, c, b)) =
               IF ~(Len(c) >= LAST) /\ e.addrCmdSent /\ e.cmdBytesNeeded > e.mode
               THEN State([d EXCEPT ![q] = [e EXCEPT !.cmdBytesNeeded = left]], q,
                          Append(c, Cmd(op, BlockSize(e), No, q)), b)
               ELSE State(d, q, c, b)
<1> DEFINE s == State(d, q, c, b)
           e == d[q]
           op == IF e.mode = 1 THEN "READ" ELSE "WRITE"
           n == BlockSize(e)
           left == e.cmdBytesNeeded - n
           v == Append(c, Cmd(op, n, No, q))
           u == Put(s, op, n, No)
<1>1. s.qp = q /\ s.dq = d /\ Entry(s) = e /\ (Full(s) <=> Len(c) >= LAST)
  BY FieldsOf
<1>2. u = State(d, q, v, b)
  BY PutIs
<1>3. u.dq = d
  <2> HIDE DEF u, v
  <2>1. QED BY <1>2 DEF State
<1> HIDE DEF s
<1>4. AddBlock(s) = IF ~Full(s) /\ e.addrCmdSent /\ e.cmdBytesNeeded > e.mode
                    THEN [Put(s, op, n, FALSE) EXCEPT !.dq[q].cmdBytesNeeded = @ - n] ELSE s
  <2> DEFINE w == Entry(s)
             wop == IF w.mode = 1 THEN "READ" ELSE "WRITE"
  <2>1. AddBlock(s) = IF ~Full(s) /\ w.addrCmdSent /\ w.cmdBytesNeeded > w.mode
                      THEN [Put(s, wop, BlockSize(w), FALSE)
                              EXCEPT !.dq[s.qp].cmdBytesNeeded = @ - BlockSize(w)]
                      ELSE s
    BY DEF AddBlock
  <2>2. w = e /\ s.qp = q
    BY <1>1
  <2> HIDE DEF w, e
  <2>3. QED BY <2>1, <2>2
<1>5. AddBlock(s) = IF ~Full(s) /\ e.addrCmdSent /\ e.cmdBytesNeeded > e.mode
                    THEN [u EXCEPT !.dq[q].cmdBytesNeeded = @ - n] ELSE s
  <2> HIDE DEF e, op, n
  <2>1. QED BY <1>4, Zenon DEF No
<1>6. [u EXCEPT !.dq[q].cmdBytesNeeded = @ - n] = [u EXCEPT !.dq[q].cmdBytesNeeded = left]
  <2> HIDE DEF u, v, n
  <2>1. QED BY <1>3
<1> HIDE DEF u, v, left
<1>7. [u EXCEPT !.dq[q].cmdBytesNeeded = left]
        = State([d EXCEPT ![q] = [d[q] EXCEPT !.cmdBytesNeeded = left]], q, v, b)
  BY <1>2, SMT DEF State
<1>8. QED BY <1>1, <1>5, <1>6, <1>7 DEF s, v, left

LEMMA LastReadIs ==
  ASSUME NEW d, NEW q, NEW c, NEW b
  PROVE  AddLastRead(State(d, q, c, b)) =
           IF ~(Len(c) >= LAST) /\ d[q].addrCmdSent /\ d[q].mode = 1 /\ d[q].cmdBytesNeeded = 1
           THEN State([d EXCEPT ![q] = [d[q] EXCEPT !.cmdBytesNeeded = 0]], q,
                      Append(c, Cmd("READ", 1, Yes, q)), b)
           ELSE State(d, q, c, b)
<1> DEFINE s == State(d, q, c, b)
           v == Append(c, Cmd("READ", 1, Yes, q))
           u == Put(s, "READ", 1, Yes)
<1>1. AddLastRead(s) = IF ~Full(s) /\ Entry(s).addrCmdSent /\ Entry(s).mode = 1 /\ Entry(s).cmdBytesNeeded = 1
                     THEN [u EXCEPT !.dq[s.qp].cmdBytesNeeded = 0] ELSE s
  BY Zenon DEF AddLastRead, Yes, No
<1>2. /\ s.qp = q /\ Entry(s) = d[q]
      /\ (Full(s) <=> Len(c) >= LAST) /\ (StartFits(s) <=> Len(c) < LAST - 1)
  BY FieldsOf
<1>3. u = State(d, q, v, b)
  BY <1>2, PutIs
<1> HIDE DEF s, u, v
<1>4. [u EXCEPT !.dq[q].cmdBytesNeeded = 0]
        = State([d EXCEPT ![q] = [d[q] EXCEPT !.cmdBytesNeeded = 0]], q, v, b)
  BY <1>3, SMT DEF State
<1>5. QED BY <1>1, <1>2, <1>4 DEF s, v

LEMMA StopIs ==
  ASSUME NEW d, NEW q, NEW c, NEW b
  PROVE  LET e == d[q]
             sent == [d EXCEPT ![q] = [e EXCEPT !.stopCmdSent = Yes]]
         IN  AddStop(State(d, q, c, b)) =
               IF ~(Len(c) >= LAST) /\ e.addrCmdSent /\ e.cmdBytesNeeded = 0
               THEN IF e.stop THEN State(sent, q, Append(c, Cmd("STOP", 0, No, q)), b)
                              ELSE State(sent, q, c, b)
               ELSE State(d, q, c, b)
<1> DEFINE s == State(d, q, c, b)
           e == d[q]
           sent == [d EXCEPT ![q] = [e EXCEPT !.stopCmdSent = Yes]]
           v == Append(c, Cmd("STOP", 0, No, q))
           u == Put(s, "STOP", 0, No)
<1>1. s.qp = q /\ Entry(s) = e /\ (Full(s) <=> Len(c) >= LAST)
  BY FieldsOf
<1>2. u = State(d, q, v, b)
  BY PutIs
<1>3. AddStop(s) = IF ~Full(s) /\ Entry(s).addrCmdSent /\ Entry(s).cmdBytesNeeded = 0
                   THEN [(IF Entry(s).stop THEN u ELSE s) EXCEPT !.dq[s.qp].stopCmdSent = Yes]
                   ELSE s
  <2> HIDE DEF s
  <2>1. QED BY Zenon DEF AddStop, Yes, No
<1>4. [s EXCEPT !.dq[q].stopCmdSent = Yes] = State(sent, q, c, b)
  BY SMT DEF State
<1> HIDE DEF s, u, v
<1>5. [u EXCEPT !.dq[q].stopCmdSent = Yes] = State(sent, q, v, b)
  BY <1>2, SMT DEF State
<1> HIDE DEF sent
<1>6. AddStop(s) = IF ~(Len(c) >= LAST) /\ e.addrCmdSent /\ e.cmdBytesNeeded = 0
                   THEN IF e.stop THEN State(sent, q, v, b) ELSE State(sent, q, c, b)
                   ELSE s
  BY <1>1, <1>3, <1>4, <1>5
<1>7. QED BY <1>6 DEF s, v, sent

LEMMA EndIs ==
  ASSUME NEW d, NEW q, NEW c, NEW b
  PROVE  AddEnd(State(d, q, c, b)) =
           IF Len(c) = LAST THEN State(d, q, Append(c, Cmd("END", 0, No, q)), Yes)
           ELSE State(d, q, c, b)
<1> DEFINE s == State(d, q, c, b)
           v == Append(c, Cmd("END", 0, No, q))
           u == Put(s, "END", 0, No)
<1>1. s.cmd = c
  BY FieldsOf
<1>2. u = State(d, q, v, b)
  BY PutIs
<1>3. AddEnd(s) = IF Len(s.cmd) = LAST THEN [u EXCEPT !.done = Yes] ELSE s
  <2> HIDE DEF s
  <2>1. QED BY Zenon DEF AddEnd, Yes, No
<1> HIDE DEF u, v
<1>4. [u EXCEPT !.done = Yes] = State(d, q, v, Yes)
  BY <1>2, SMT DEF State
<1> HIDE DEF s
<1>5. QED BY <1>1, <1>3, <1>4 DEF s, v

LEMMA NextIs ==
  ASSUME NEW d, NEW q, NEW c, NEW b
  PROVE  NextEntry(State(d, q, c, b)) =
           IF ~b /\ d[q].stopCmdSent
           THEN IF q < Len(d) THEN State(d, q + 1, c, b) ELSE State(d, q, c, Yes)
           ELSE State(d, q, c, b)
<1> DEFINE s == State(d, q, c, b)
<1>1. s.dq = d /\ s.qp = q /\ s.done = b /\ Entry(s) = d[q]
  BY FieldsOf
<1>2. [s EXCEPT !.qp = q + 1] = State(d, q + 1, c, b)
  BY SMT DEF State
<1>3. [s EXCEPT !.done = Yes] = State(d, q, c, Yes)
  BY SMT DEF State
<1> HIDE DEF s
<1>4. NextEntry(s) = IF ~s.done /\ Entry(s).stopCmdSent
                     THEN IF s.qp < Len(s.dq) THEN [s EXCEPT !.qp = s.qp + 1]
                                              ELSE [s EXCEPT !.done = Yes]
                     ELSE s
  BY Zenon DEF NextEntry, Yes
<1>5. QED BY <1>1, <1>2, <1>3, <1>4 DEF s

LEMMA StretchIs ==
  ASSUME NEW d, NEW q, NEW c \in Seq(Cmds), NEW b
  PROVE  LET k == LastMove(State(d, q, c, b))
         IN  Stretch(State(d, q, c, b)) =
               IF Len(c) = LAST - 1 /\ ~d[q].startCmdSent
               THEN State(d, q, Inserted(c, k, EmptyCopy(c[k])), b) ELSE State(d, q, c, b)
<1> DEFINE s == State(d, q, c, b)
           k == LastMove(s)
           v == SubSeq(c, 1, k - 1) \o <<EmptyCopy(c[k])>> \o SubSeq(c, k, LAST - 1)
<1>1. s.cmd = c /\ Entry(s) = d[q]
  BY FieldsOf
<1>2. Stretch(s) = IF Len(s.cmd) = LAST - 1 /\ ~Entry(s).startCmdSent
                   THEN [s EXCEPT !.cmd = v] ELSE s
  <2> HIDE DEF s, k
  <2>1. QED BY <1>1 DEF Stretch, k
<1>3. [s EXCEPT !.cmd = v] = State(d, q, v, b)
  <2> HIDE DEF v
  <2>1. QED BY SMT DEF State
<1>4. Len(c) = LAST - 1 => v = Inserted(c, k, EmptyCopy(c[k]))
  BY DEF Inserted
<1> HIDE DEF s, v, k
<1>5. Stretch(s) = IF Len(c) = LAST - 1 /\ ~d[q].startCmdSent
                   THEN State(d, q, Inserted(c, k, EmptyCopy(c[k])), b) ELSE s
  BY <1>1, <1>2, <1>3, <1>4
<1>6. QED BY <1>5 DEF s, k

LEMMA IterationIs ==
  ASSUME NEW s, ~s.done
  PROVE  Iteration(s) =
           NextEntry(AddEnd(Stretch(AddStop(AddLastRead(AddData(AddAddress(AddStart(s))))))))
<1>1. PICK s1 : s1 = AddStart(s)
  OBVIOUS
<1>2. PICK s2 : s2 = AddAddress(s1)
  OBVIOUS
<1>3. PICK s3 : s3 = AddData(s2)
  OBVIOUS
<1>4. PICK s4 : s4 = AddLastRead(s3)
  OBVIOUS
<1>5. PICK s5 : s5 = AddStop(s4)
  OBVIOUS
<1>6. PICK s6 : s6 = Stretch(s5)
  OBVIOUS
<1>7. PICK s7 : s7 = AddEnd(s6)
  OBVIOUS
<1>8. Then(AddStart(s), AddAddress) = s2
  BY <1>1, <1>2 DEF Then
<1>9. Then(s2, AddData) = s3
  BY <1>3 DEF Then
<1>10. Then(s3, AddLastRead) = s4
  BY <1>4 DEF Then
<1>11. Then(s4, AddStop) = s5
  BY <1>5 DEF Then
<1>12. Then(s5, Stretch) = s6
  BY <1>6 DEF Then
<1>13. Then(s6, AddEnd) = s7
  BY <1>7 DEF Then
<1>14. Then(s7, NextEntry) = NextEntry(s7)
  BY DEF Then
<1>15. Iteration(s) = NextEntry(s7)
  BY <1>8, <1>9, <1>10, <1>11, <1>12, <1>13, <1>14 DEF Iteration
<1>16. QED BY <1>1, <1>2, <1>3, <1>4, <1>5, <1>6, <1>7, <1>15

(* How far an entry is: not begun, addressed, or sent *)
Fresh(e) == ~e.startCmdSent /\ ~e.addrCmdSent /\ ~e.stopCmdSent /\ e.cmdBytesNeeded = e.length
Underway(e) ==
  e.startCmdSent /\ e.addrCmdSent /\ ~e.stopCmdSent /\ e.cmdBytesNeeded <= e.length

EntryAt(K, e, q, p) ==
  \/ Fresh(e) /\ p = Off(K, q - 1)
  \/ Underway(e) /\ p = Off(K, q - 1) + 1 + queueLength(K[q]) - e.cmdBytesNeeded
  \/ e.stopCmdSent /\ q = Len(K) /\ p = Off(K, q)

(* The flags of the queue say that all up to p has been asked for *)
Held(K, d, q, p) ==
  /\ Alike(K, d) /\ q \in 1 .. Len(K)
  /\ \A r \in 1 .. q - 1 : d[r].stopCmdSent
  /\ \A r \in q + 1 .. Len(K) : Fresh(d[r])
  /\ EntryAt(K, d[q], q, p)

(* A list that is still being written.  Its first command does something,  *)
(* and START is followed by the address                                    *)
Useful(c) ==
  \E k \in 1 .. Len(c) : c[k].op \in {"RSTART", "STOP"} \/ (c[k].op \in Moves /\ c[k].n > 0)

Followed(c) == \A k \in 1 .. Len(c) - 1 : c[k].op = "RSTART" => c[k + 1].op = "WRITE"

Plain(c) ==
  /\ c \in Seq(Cmds) /\ \A k \in 1 .. Len(c) : c[k].op \in {"RSTART", "READ", "WRITE"}
  /\ c # <<>> => Useful(c) /\ c[Len(c)].op # "RSTART"
  /\ Followed(c)

Going(K, p0, d, q, c, p) ==
  /\ Held(K, d, q, p) /\ ~d[q].stopCmdSent
  /\ Plain(c) /\ Len(c) <= LAST /\ Laid(K, p0, c, p)

LEMMA HeldEdit ==
  ASSUME NEW K \in Seq(Entries), NEW d, NEW q, NEW p, Held(K, d, q, p),
         NEW e \in Entries, SameEntry(d[q], e), NEW pp, EntryAt(K, e, q, pp)
  PROVE  Held(K, [d EXCEPT ![q] = e], q, pp)
<1> DEFINE f == [d EXCEPT ![q] = e]
<1>1. d \in Seq(Entries) /\ Len(d) = Len(K) /\ q \in 1 .. Len(d)
  BY DEF Held, Alike
<1>2. /\ f \in Seq(Entries) /\ Len(f) = Len(d)
      /\ f[q] = e /\ \A r \in 1 .. Len(d) : r # q => f[r] = d[r]
  BY <1>1
<1> HIDE DEF f
<1>3. \A r \in 1 .. Len(K) : SameEntry(K[r], f[r])
  <2>1. \A r \in 1 .. Len(K) : SameEntry(K[r], d[r])
    BY DEF Held, Alike
  <2>2. SameEntry(K[q], e)
    BY <1>1, <2>1 DEF SameEntry
  <2>3. QED BY <1>1, <1>2, <2>1, <2>2
<1>4. \A r \in 1 .. q - 1 : f[r].stopCmdSent
  <2>1. \A r \in 1 .. q - 1 : d[r].stopCmdSent
    BY DEF Held
  <2>2. \A r \in 1 .. q - 1 : r \in 1 .. Len(d) /\ r # q
    BY <1>1
  <2>3. QED BY <1>2, <2>1, <2>2
<1>5. \A r \in q + 1 .. Len(K) : Fresh(f[r])
  <2>1. \A r \in q + 1 .. Len(K) : Fresh(d[r])
    BY DEF Held
  <2>2. \A r \in q + 1 .. Len(K) : r \in 1 .. Len(d) /\ r # q
    BY <1>1
  <2>3. QED BY <1>2, <2>1, <2>2
<1>6. QED BY <1>1, <1>2, <1>3, <1>4, <1>5 DEF Held, Alike, f

LEMMA PlainMore ==
  ASSUME NEW c, Plain(c), NEW m \in Cmds, m.op \in Moves, m.n > 0
  PROVE  Plain(Append(c, m)) /\ Len(Append(c, m)) = Len(c) + 1
<1> DEFINE n == Len(c)
           t == Append(c, m)
<1>1. c \in Seq(Cmds) /\ n \in Nat /\ \A k \in 1 .. n : c[k].op \in {"RSTART", "READ", "WRITE"}
  BY DEF Plain
<1>2. t \in Seq(Cmds) /\ Len(t) = n + 1 /\ t[n + 1] = m /\ \A k \in 1 .. n : t[k] = c[k]
  BY <1>1
<1>3. t # <<>>
  BY <1>1
<1>4. n > 0 => c[n].op # "RSTART"
  BY <1>1 DEF Plain
<1>5. \A k \in 1 .. n - 1 : c[k].op = "RSTART" => c[k + 1].op = "WRITE"
  BY DEF Plain, Followed
<1> HIDE DEF n, t
<1>6. Useful(t)
  BY <1>1, <1>2 DEF Useful
<1>7. \A k \in 1 .. n + 1 : t[k].op \in {"RSTART", "READ", "WRITE"}
  BY <1>1, <1>2 DEF Moves
<1>8. ASSUME NEW k \in 1 .. n, t[k].op = "RSTART" PROVE t[k + 1].op = "WRITE"
  <2>1. k # n
    BY <1>2, <1>4, <1>8
  <2>2. k \in 1 .. n - 1 /\ k + 1 \in 1 .. n
    BY <1>1, <2>1
  <2>3. QED BY <1>2, <1>5, <1>8, <2>2
<1>9. Followed(t)
  BY <1>1, <1>2, <1>8 DEF Followed
<1>10. t[Len(t)].op # "RSTART"
  BY <1>1, <1>2 DEF Moves
<1>11. QED BY <1>2, <1>3, <1>6, <1>7, <1>9, <1>10 DEF Plain, n, t

(* Bytes that the stream has where the command stands *)
LEMMA PlaceMove ==
  ASSUME NEW K \in Seq(Entries), NEW q \in 1 .. Len(K), NEW op \in Moves,
         NEW n \in Nat, NEW nak, NEW i \in Nat, i + n <= queueLength(K[q]),
         Carries(K[q], op, i, n),
         \A k \in 1 .. n : ByteOf(K[q], q, i + k) = ByteToken(K[q], q, i + k, nak)
  PROVE  Place(K, Cmd(op, n, nak, q), Off(K, q - 1) + 1 + i)
<1> DEFINE o == Off(K, q - 1)
           m == queueLength(K[q])
<1>1. o \in Nat /\ m \in Nat
  <2>1. q - 1 \in 0 .. Len(K)
    OBVIOUS
  <2>2. QED BY <2>1, OffIs
<1>2. \A j \in 1 .. m : Stream(K)[o + 1 + j] = ByteOf(K[q], q, j)
  BY Positions
<1> HIDE DEF o, m
<1>3. ASSUME NEW k \in 1 .. n
      PROVE  Stream(K)[o + 1 + i + k] = ByteToken(K[q], q, o + 1 + i + k - o - 1, nak)
  <2>1. i + k \in 1 .. m /\ o + 1 + (i + k) = o + 1 + i + k /\ o + 1 + i + k - o - 1 = i + k
    BY <1>1 DEF m
  <2>2. QED BY <1>2, <2>1
<1>4. o + 1 <= o + 1 + i /\ o + 1 + i + n <= o + 1 + m
  BY <1>1 DEF m
<1>5. /\ Cmd(op, n, nak, q).op = op /\ Cmd(op, n, nak, q).n = n
      /\ Cmd(op, n, nak, q).nak = nak /\ Cmd(op, n, nak, q).q = q
  BY DEF Cmd
<1>6. op # "RSTART" /\ op # "STOP"
  BY DEF Moves
<1>7. PICK x : x = Cmd(op, n, nak, q)
  OBVIOUS
<1>8. x.op = op /\ x.n = n /\ x.nak = nak /\ x.q = q
  BY <1>5, <1>7
<1>9. Place(K, x, o + 1 + i)
  <2>1. /\ x.q \in 1 .. Len(K) /\ Off(K, x.q - 1) = o /\ queueLength(K[x.q]) = m
        /\ K[x.q] = K[q]
    BY <1>8 DEF o, m
  <2>2. \A k \in 1 .. x.n :
          Stream(K)[o + 1 + i + k] = ByteToken(K[x.q], x.q, o + 1 + i + k - o - 1, x.nak)
    BY <1>3, <1>8
  <2>3. o + 1 <= o + 1 + i /\ o + 1 + i + x.n <= o + 1 + m
    BY <1>4, <1>8
  <2>5. PICK pp, oo, mm : pp = o + 1 + i /\ oo = o /\ mm = m
    OBVIOUS
  <2>6. /\ oo + 1 <= pp /\ pp + x.n <= oo + 1 + mm /\ Carries(K[x.q], x.op, pp - oo - 1, x.n)
        /\ \A k \in 1 .. x.n :
             Stream(K)[pp + k] = ByteToken(K[x.q], x.q, pp + k - oo - 1, x.nak)
    <3>1. oo + 1 <= pp /\ pp + x.n <= oo + 1 + mm
      BY <2>3, <2>5
    <3>2. Carries(K[x.q], x.op, pp - oo - 1, x.n)
      <4>1. pp - oo - 1 = i
        BY <1>1, <2>5
      <4>2. Carries(K[x.q], x.op, i, x.n)
        BY <1>8
      <4>3. QED BY <4>1, <4>2
    <3>3. \A k \in 1 .. x.n :
            Stream(K)[pp + k] = ByteToken(K[x.q], x.q, pp + k - oo - 1, x.nak)
      BY <2>2, <2>5
    <3>4. QED BY <3>1, <3>2, <3>3
  <2>7. oo = Off(K, x.q - 1) /\ mm = queueLength(K[x.q]) /\ x.op # "RSTART" /\ x.op # "STOP"
    BY <1>6, <1>8, <2>1, <2>5
  <2>8. Place(K, x, pp)
    BY <2>1, <2>6, <2>7, Zenon DEF Place
  <2>9. QED BY <2>5, <2>8
<1>10. QED BY <1>7, <1>9 DEF o

(* What the entry being filled is *)
LEMMA HeldEntry ==
  ASSUME NEW K \in Queued, NEW d, NEW q, NEW p, Held(K, d, q, p)
  PROVE  /\ K \in Seq(Entries) /\ q \in 1 .. Len(K) /\ Len(d) = Len(K) /\ Len(K) \in Nat
         /\ d \in Seq(Entries) /\ d[q] \in Entries /\ K[q] \in Entries
         /\ SameEntry(K[q], d[q]) /\ queueLength(d[q]) = queueLength(K[q])
         /\ (d[q].stop <=> q = Len(K))
         /\ Off(K, q - 1) \in Nat /\ Off(K, q) \in Nat
<1>1. K \in Seq(Entries) /\ \A r \in 1 .. Len(K) : K[r].stop <=> r = Len(K)
  BY DEF Queued
<1>2. /\ q \in 1 .. Len(K) /\ d \in Seq(Entries) /\ Len(d) = Len(K)
      /\ SameEntry(K[q], d[q])
  BY DEF Held, Alike
<1>3. d[q] \in Entries /\ K[q] \in Entries /\ Len(K) \in Nat
  BY <1>1, <1>2
<1>4. queueLength(d[q]) = queueLength(K[q]) /\ (d[q].stop <=> q = Len(K))
  BY <1>1, <1>2 DEF SameEntry, queueLength
<1>5. q - 1 \in 0 .. Len(K) /\ q \in 0 .. Len(K)
  BY <1>2
<1>6. QED BY <1>1, <1>2, <1>3, <1>4, <1>5, OffIs

LEMMA CmdType ==
  ASSUME NEW op \in {"RSTART", "READ", "WRITE", "STOP", "END"}, NEW n \in Nat,
         NEW nak \in BOOLEAN, NEW q \in Nat
  PROVE  /\ Cmd(op, n, nak, q) \in Cmds
         /\ Cmd(op, n, nak, q).op = op /\ Cmd(op, n, nak, q).n = n
         /\ Cmd(op, n, nak, q).nak = nak /\ Cmd(op, n, nak, q).q = q
BY DEF Cmd, Cmds

LEMMA YesNo == Yes \in BOOLEAN /\ No \in BOOLEAN /\ Yes /\ ~No
BY DEF Yes, No

(* The address is written with START, or neither fits any more *)
LEMMA StartAddress ==
  ASSUME NEW K \in Queued, NEW p0, NEW d, NEW q, NEW c, NEW p,
         Going(K, p0, d, q, c, p), Len(c) < LAST
  PROVE  \E d2, c2, p2 :
           /\ AddAddress(AddStart(State(d, q, c, No))) = State(d2, q, c2, No)
           /\ Going(K, p0, d2, q, c2, p2)
           /\ Underway(d2[q]) \/ (Fresh(d2[q]) /\ Len(c2) = LAST - 1)
<1> DEFINE e == d[q]
           o == Off(K, q - 1)
           r == e.addrReq
<1>1. /\ K \in Seq(Entries) /\ q \in 1 .. Len(K) /\ e \in Entries /\ q \in Nat
      /\ queueLength(e) = queueLength(K[q]) /\ o \in Nat /\ SameEntry(K[q], e)
  BY HeldEntry DEF Going
<1>2. /\ c \in Seq(Cmds) /\ Len(c) \in Nat /\ LAST \in Nat /\ Plain(c) /\ Len(c) <= LAST
      /\ Laid(K, p0, c, p) /\ Held(K, d, q, p) /\ ~e.stopCmdSent
  BY CommandAssumption DEF Going, Plain
<1>3. /\ r \in Nat \ {0} /\ e.length \in Nat /\ queueLength(K[q]) = e.length + r
      /\ K[q].addrReq = r
  BY <1>1 DEF Entries, queueLength, SameEntry
<1>4. (Fresh(e) /\ p = o) \/ Underway(e)
  BY <1>2 DEF Held, EntryAt
<1>5. CASE Fresh(e) /\ p = o /\ Len(c) < LAST - 1
  <2> DEFINE e1 == [e EXCEPT !.startCmdSent = Yes]
             e2 == [e1 EXCEPT !.addrCmdSent = Yes]
             d1 == [d EXCEPT ![q] = e1]
             d2 == [d1 EXCEPT ![q] = e2]
             m1 == Cmd("RSTART", 0, No, q)
             m2 == Cmd("WRITE", r, No, q)
             c1 == Append(c, m1)
             c2 == Append(c1, m2)
  <2>1. AddStart(State(d, q, c, No)) = State(d1, q, c1, No)
    BY <1>5, StartIs DEF Fresh
  <2>2. /\ e1 \in Entries /\ e2 \in Entries
        /\ e1.startCmdSent /\ ~e1.addrCmdSent /\ e1.addrReq = r
        /\ Underway(e2) /\ SameEntry(e, e1) /\ SameEntry(e, e2) /\ e2.cmdBytesNeeded = e.length
    <3>1. e1 \in Entries /\ e1.startCmdSent = Yes /\ e1.addrCmdSent = e.addrCmdSent
          /\ e1.stopCmdSent = e.stopCmdSent /\ e1.cmdBytesNeeded = e.cmdBytesNeeded
          /\ SameEntry(e, e1)
      BY <1>1, YesNo DEF Entries, SameEntry
    <3> HIDE DEF e1
    <3>2. e2 \in Entries /\ e2.startCmdSent = e1.startCmdSent /\ e2.addrCmdSent = Yes
          /\ e2.stopCmdSent = e1.stopCmdSent /\ e2.cmdBytesNeeded = e1.cmdBytesNeeded
          /\ SameEntry(e1, e2)
      BY <3>1, YesNo DEF Entries, SameEntry
    <3> HIDE DEF e2
    <3>3. e1.startCmdSent /\ ~e1.addrCmdSent /\ ~e1.stopCmdSent
      BY <1>5, <3>1, YesNo DEF Fresh
    <3>4. Underway(e2)
      <4>1. e2.startCmdSent /\ e2.addrCmdSent /\ ~e2.stopCmdSent
        BY <3>2, <3>3, YesNo
      <4>2. e2.cmdBytesNeeded = e2.length /\ e2.length \in Nat
        BY <1>3, <1>5, <3>1, <3>2 DEF Fresh, SameEntry
      <4>3. QED BY <4>1, <4>2 DEF Underway
    <3>5. QED BY <1>5, <3>1, <3>2, <3>3, <3>4 DEF SameEntry, Fresh
  <2>3. d1[q] = e1 /\ d2[q] = e2 /\ d2 = [d EXCEPT ![q] = e2]
    <3>1. q \in DOMAIN d
      BY <1>1, <1>2 DEF Held, Alike
    <3> HIDE DEF e1, e2
    <3>2. QED BY <3>1
  <2>4. /\ m1 \in Cmds /\ m2 \in Cmds /\ m1.op = "RSTART" /\ m2.op = "WRITE" /\ m2.n = r
        /\ Size(m1) = 1 /\ Size(m2) = r /\ m1.q = q
    <3>1. m1 \in Cmds /\ m1.op = "RSTART" /\ m1.q = q
      BY <1>1, YesNo, CmdType
    <3>2. m2 \in Cmds /\ m2.op = "WRITE" /\ m2.n = r
      <4>1. r \in Nat
        BY <1>3
      <4> HIDE DEF r
      <4>2. QED BY <1>1, <4>1, YesNo, CmdType, SMTT(30)
    <3> HIDE DEF m1, m2
    <3>3. QED BY <3>1, <3>2 DEF Size, Moves
  <2> HIDE DEF e1, e2, m1, m2
  <2>5. c1 \in Seq(Cmds) /\ Len(c1) = Len(c) + 1 /\ c2 \in Seq(Cmds) /\ Len(c2) = Len(c) + 2
    BY <1>2, <2>4
  <2> HIDE DEF d1, d2
  <2>6. AddAddress(State(d1, q, c1, No)) = State(d2, q, c2, No)
    <3>1. ~(Len(c1) >= LAST) /\ d1[q].startCmdSent /\ ~d1[q].addrCmdSent /\ d1[q].addrReq = r
      BY <1>2, <1>5, <2>2, <2>3, <2>5
    <3> HIDE DEF c1
    <3>2. QED BY <2>3, <3>1, AddressIs DEF d2, e2, m2
  <2>7. Laid(K, p0, c1, p + 1)
    <3>1. Place(K, m1, p)
      BY <1>1, <1>5, <2>4 DEF Place, Moves
    <3>2. QED BY <1>2, <2>4, <3>1, LaidMore
  <2>8. Laid(K, p0, c2, p + 1 + r)
    <3>1. Place(K, m2, o + 1 + 0)
      <4>1. \A k \in 1 .. r : ByteOf(K[q], q, 0 + k) = ByteToken(K[q], q, 0 + k, No)
        BY <1>3 DEF ByteOf, ByteToken
      <4>2. 0 + r <= queueLength(K[q]) /\ "WRITE" \in Moves /\ Carries(K[q], "WRITE", 0, r)
        <5>1. 0 + r <= queueLength(K[q]) /\ "WRITE" \in Moves
          BY <1>3 DEF Moves
        <5>2. K[q].addrReq = r /\ K[q].length \in Nat
          BY <1>1, <1>3 DEF SameEntry
        <5>3. Carries(K[q], "WRITE", 0, r)
          <6>1. PICK a, f : a = r /\ f = K[q]
            OBVIOUS
          <6>2. a \in Nat /\ f.addrReq = a /\ f.length \in Nat
            BY <1>3, <5>2, <6>1
          <6>3. Carries(f, "WRITE", 0, a)
            BY <6>2 DEF Carries, OutLen
          <6>4. QED BY <6>1, <6>3
        <5>4. QED BY <5>1, <5>3
      <4>3. QED BY <1>1, <1>3, <4>1, <4>2, PlaceMove DEF m2
    <3>2. p + 1 = o + 1 + 0
      BY <1>1, <1>5
    <3> HIDE DEF c1
    <3>3. Laid(K, p0, Append(c1, m2), p + 1 + Size(m2))
      BY <2>4, <2>5, <2>7, <3>1, <3>2, LaidMore
    <3>4. QED BY <2>4, <3>3
  <2>9. Plain(c2)
    <3> DEFINE n == Len(c)
    <3>1. /\ n \in Nat /\ Len(c2) = n + 2 /\ c2[n + 1] = m1 /\ c2[n + 2] = m2
          /\ \A k \in 1 .. n : c2[k] = c[k]
      BY <1>2, <2>4
    <3>2. /\ \A k \in 1 .. n : c[k].op \in {"RSTART", "READ", "WRITE"}
          /\ n > 0 => c[n].op # "RSTART"
          /\ \A k \in 1 .. n - 1 : c[k].op = "RSTART" => c[k + 1].op = "WRITE"
      BY <1>2, <3>1 DEF Plain, Followed
    <3>3. c2 # <<>>
      BY <2>5, <3>1
    <3> HIDE DEF n, c2
    <3>4. Useful(c2)
      BY <2>4, <3>1 DEF Useful
    <3>5. \A k \in 1 .. n + 2 : c2[k].op \in {"RSTART", "READ", "WRITE"}
      <4>1. \A k \in 1 .. n + 2 : k \in 1 .. n \/ k = n + 1 \/ k = n + 2
        BY <3>1
      <4>2. QED BY <2>4, <3>1, <3>2, <4>1
    <3>6. ASSUME NEW k \in 1 .. n + 1, c2[k].op = "RSTART" PROVE c2[k + 1].op = "WRITE"
      <4>1. CASE k = n + 1
        BY <2>4, <3>1, <4>1
      <4>2. CASE k # n + 1
        <5>1. k \in 1 .. n
          BY <3>1, <4>2
        <5>2. k # n
          BY <3>1, <3>2, <3>6, <5>1
        <5>3. k \in 1 .. n - 1 /\ k + 1 \in 1 .. n
          BY <3>1, <5>1, <5>2
        <5>4. QED BY <3>1, <3>2, <3>6, <5>1, <5>3
      <4>3. QED BY <4>1, <4>2
    <3>7. Followed(c2)
      BY <3>1, <3>6 DEF Followed
    <3>8. c2[Len(c2)].op # "RSTART"
      BY <2>4, <3>1
    <3>9. QED BY <2>5, <3>1, <3>3, <3>4, <3>5, <3>7, <3>8 DEF Plain
  <2>10. EntryAt(K, e2, q, p + 1 + r)
    <3>1. p + 1 + r = o + 1 + queueLength(K[q]) - e2.cmdBytesNeeded
      BY <1>1, <1>3, <1>5, <2>2
    <3>2. QED BY <2>2, <3>1 DEF EntryAt
  <2>11. Held(K, d2, q, p + 1 + r)
    <3>1. Held(K, [d EXCEPT ![q] = e2], q, p + 1 + r)
      BY <1>1, <1>2, <2>2, <2>10, HeldEdit
    <3>2. QED BY <2>3, <3>1
  <2>12. Going(K, p0, d2, q, c2, p + 1 + r)
    BY <1>2, <1>5, <2>2, <2>3, <2>5, <2>8, <2>9, <2>11 DEF Going, Underway
  <2> HIDE DEF c1, c2
  <2>13. AddAddress(AddStart(State(d, q, c, No))) = State(d2, q, c2, No)
    BY <2>1, <2>6
  <2>14. Underway(d2[q])
    BY <2>2, <2>3
  <2>15. QED BY <2>12, <2>13, <2>14
<1>6. CASE ~(Fresh(e) /\ p = o /\ Len(c) < LAST - 1)
  <2>1. Underway(e) \/ (Fresh(e) /\ Len(c) = LAST - 1)
    <3>1. ~(Len(c) < LAST - 1) => Len(c) = LAST - 1
      BY <1>2
    <3>2. CASE Fresh(e) /\ p = o
      BY <1>6, <3>1, <3>2
    <3>3. CASE Underway(e)
      BY <3>3
    <3>4. QED BY <1>4, <3>2, <3>3
  <2>2. AddStart(State(d, q, c, No)) = State(d, q, c, No)
    <3>1. ~(~d[q].startCmdSent /\ Len(c) < LAST - 1)
      BY <1>2, <2>1 DEF Underway
    <3>2. QED BY <3>1, StartIs
  <2>3. AddAddress(State(d, q, c, No)) = State(d, q, c, No)
    <3>1. ~(d[q].startCmdSent /\ ~d[q].addrCmdSent)
      BY <2>1 DEF Underway, Fresh
    <3>2. QED BY <3>1, AddressIs
  <2>4. QED BY <2>1, <2>2, <2>3
<1>7. QED BY <1>5, <1>6

(* A READ or WRITE of data, where the entry stands *)
(* Only the last byte that is read is answered with NAK *)
LEMMA NotLast ==
  ASSUME NEW e \in Entries, NEW q, NEW j \in Int, ~(j <= e.addrReq),
         e.mode = 0 \/ j - e.addrReq # e.length
  PROVE  ByteOf(e, q, j) = ByteToken(e, q, j, No)
<1>1. CASE e.mode = 0
  BY <1>1 DEF ByteOf, ByteToken
<1>2. CASE e.mode # 0
  BY <1>2, YesNo DEF ByteOf, ByteToken
<1>3. QED BY <1>1, <1>2

LEMMA IsLast ==
  ASSUME NEW e \in Entries, NEW q, NEW j \in Int, ~(j <= e.addrReq),
         e.mode # 0, j - e.addrReq = e.length
  PROVE  ByteOf(e, q, j) = ByteToken(e, q, j, Yes)
BY YesNo DEF ByteOf, ByteToken

(* The bytes after the first i of the entry are those a command stands for *)
Fills(K, q, i, n, nak) ==
  \A k \in 1 .. n : ByteOf(K[q], q, i + k) = ByteToken(K[q], q, i + k, nak)

WithLeft(d, q, left) == [d EXCEPT ![q] = [d[q] EXCEPT !.cmdBytesNeeded = left]]

MovedOn(K, p0, d, q, c, p2, d2, c2, n) ==
  /\ Going(K, p0, d2, q, c2, p2) /\ Underway(d2[q]) /\ Len(c2) = Len(c) + 1
  /\ d2[q].cmdBytesNeeded = d[q].cmdBytesNeeded - n /\ d2[q].mode = d[q].mode

LEMMA MoveStep ==
  ASSUME NEW K \in Queued, NEW p0, NEW d, NEW q, NEW c, NEW p,
         Going(K, p0, d, q, c, p), Len(c) < LAST, Underway(d[q]),
         NEW op \in Moves, NEW n \in Nat \ {0}, n <= d[q].cmdBytesNeeded, NEW nak \in BOOLEAN,
         op = IF K[q].mode = 1 THEN "READ" ELSE "WRITE",
         Fills(K, q, queueLength(K[q]) - d[q].cmdBytesNeeded, n, nak)
  PROVE  MovedOn(K, p0, d, q, c, p + n, WithLeft(d, q, d[q].cmdBytesNeeded - n),
                 Append(c, Cmd(op, n, nak, q)), n)
<1> DEFINE e == d[q]
           left == e.cmdBytesNeeded - n
           d2 == WithLeft(d, q, left)
           c2 == Append(c, Cmd(op, n, nak, q))
           e2 == [e EXCEPT !.cmdBytesNeeded = left]
           m == Cmd(op, n, nak, q)
           o == Off(K, q - 1)
           i == queueLength(K[q]) - e.cmdBytesNeeded
<1>1. /\ K \in Seq(Entries) /\ q \in 1 .. Len(K) /\ e \in Entries /\ q \in Nat
      /\ queueLength(e) = queueLength(K[q]) /\ o \in Nat
      /\ d \in Seq(Entries) /\ Len(d) = Len(K)
  BY HeldEntry DEF Going
<1>2. /\ c \in Seq(Cmds) /\ Len(c) \in Nat /\ LAST \in Nat /\ Plain(c) /\ Len(c) <= LAST
      /\ Laid(K, p0, c, p) /\ Held(K, d, q, p)
  BY CommandAssumption DEF Going, Plain
<1>3. /\ e.cmdBytesNeeded \in Nat /\ e.length \in Nat /\ e.addrReq \in Nat
      /\ queueLength(K[q]) = e.length + e.addrReq /\ e.cmdBytesNeeded <= e.length
  BY <1>1 DEF Entries, queueLength, Underway
<1>4. p = o + 1 + queueLength(K[q]) - e.cmdBytesNeeded
  BY <1>2 DEF Held, EntryAt, Underway, Fresh
<1>5. left \in Nat /\ left <= e.length /\ i \in Nat /\ i + n <= queueLength(K[q])
      /\ p = o + 1 + i /\ o + 1 + queueLength(K[q]) - left = p + n
  <2>1. PICK a, b, l : a = e.addrReq /\ b = e.cmdBytesNeeded /\ l = e.length
    OBVIOUS
  <2>2. a \in Nat /\ b \in Nat /\ l \in Nat /\ queueLength(K[q]) = l + a /\ b <= l
    BY <1>3, <2>1
  <2>3. n <= b /\ left = b - n /\ p = o + 1 + (l + a) - b /\ i = l + a - b
    BY <1>4, <2>1, <2>2, SMTT(30)
  <2>4. PICK oo, ii, ll : oo = o /\ ii = i /\ ll = left
    OBVIOUS
  <2>5. oo \in Nat /\ ll = b - n /\ p = oo + 1 + (l + a) - b /\ ii = l + a - b
    BY <1>1, <2>3, <2>4
  <2> HIDE DEF o, i, e
  <2>7. ll \in Nat /\ ll <= l /\ ii \in Nat /\ ii + n <= l + a
    BY <2>2, <2>3, <2>5
  <2>8. p = oo + 1 + ii /\ oo + 1 + (l + a) - ll = p + n
    BY <2>2, <2>3, <2>5
  <2>9. QED BY <2>1, <2>2, <2>4, <2>7, <2>8
<1>6. /\ e2 \in Entries /\ SameEntry(e, e2) /\ Underway(e2)
      /\ e2.cmdBytesNeeded = left /\ e2.mode = e.mode
  <2>1. /\ e2 \in Entries /\ SameEntry(e, e2) /\ e2.cmdBytesNeeded = left /\ e2.mode = e.mode
        /\ e2.startCmdSent = e.startCmdSent /\ e2.addrCmdSent = e.addrCmdSent
        /\ e2.stopCmdSent = e.stopCmdSent /\ e2.length = e.length
    <3> HIDE DEF e
    <3>1. QED BY <1>1, <1>5 DEF Entries, SameEntry
  <2> HIDE DEF e2, e
  <2>2. e.startCmdSent /\ e.addrCmdSent /\ ~e.stopCmdSent
    BY DEF Underway, e
  <2>3. e2.startCmdSent /\ e2.addrCmdSent /\ ~e2.stopCmdSent
    BY <2>1, <2>2
  <2>4. QED BY <1>5, <2>1, <2>3 DEF Underway
<1>7. /\ m \in Cmds /\ m.op \in Moves /\ m.n = n /\ m.n > 0 /\ Size(m) = n
  <2>1. op \in {"RSTART", "READ", "WRITE", "STOP", "END"}
    BY DEF Moves
  <2>2. m \in Cmds
    BY <1>1, <2>1 DEF Cmd, Cmds
  <2>3. m.op = op /\ m.n = n
    BY DEF Cmd
  <2> HIDE DEF m
  <2>4. QED BY <2>2, <2>3 DEF Size
<1>8. Place(K, m, p)
  <2>1. \A k \in 1 .. n : ByteOf(K[q], q, i + k) = ByteToken(K[q], q, i + k, nak)
    BY DEF Fills
  <2>4. Carries(K[q], op, i, n)
    <3>1. PICK a, l, f : a = e.addrReq /\ l = e.length /\ f = K[q]
      OBVIOUS
    <3>2. f.addrReq = a /\ f.length = l /\ a \in Nat /\ l \in Nat /\ f.mode \in {0, 1}
      <4>1. SameEntry(f, e) /\ f \in Entries
        BY <3>1, HeldEntry DEF Going
      <4>2. QED BY <1>3, <3>1, <4>1 DEF SameEntry, Entries
    <3>3. i \in Nat /\ a <= i /\ i + n <= l + a
      <4>1. PICK b : b = e.cmdBytesNeeded
        OBVIOUS
      <4>2. b \in Nat /\ b <= l /\ i = l + a - b /\ i + n <= l + a
        BY <1>3, <1>5, <3>1, <4>1, SMTT(30)
      <4>3. QED BY <3>2, <4>2
    <3> HIDE DEF i
    <3>4. QED BY <3>1, <3>2, <3>3 DEF Carries, OutLen
  <2> HIDE DEF i
  <2>2. Place(K, Cmd(op, n, nak, q), Off(K, q - 1) + 1 + i)
    BY <1>1, <1>5, <2>1, <2>4, PlaceMove
  <2>3. QED BY <1>5, <2>2
<1>9. c2 = Append(c, m) /\ d2 = [d EXCEPT ![q] = e2]
  BY DEF WithLeft
<1> HIDE DEF e2, m
<1>10. Laid(K, p0, c2, p + n)
  <2>1. Laid(K, p0, Append(c, m), p + Size(m))
    BY <1>2, <1>7, <1>8, LaidMore
  <2>2. QED BY <1>7, <1>9, <2>1
<1>11. Plain(c2) /\ Len(c2) = Len(c) + 1
  BY <1>2, <1>7, <1>9, PlainMore
<1>12. Held(K, d2, q, p + n) /\ d2[q] = e2
  <2>1. EntryAt(K, e2, q, p + n)
    BY <1>5, <1>6 DEF EntryAt
  <2>2. Held(K, [d EXCEPT ![q] = e2], q, p + n)
    BY <1>1, <1>2, <1>6, <2>1, HeldEdit
  <2>3. Held(K, d2, q, p + n)
    BY <1>9, <2>2
  <2>4. q \in DOMAIN d
    BY <1>1
  <2> HIDE DEF e
  <2>5. d2[q] = e2
    BY <1>9, <2>4
  <2>6. QED BY <2>3, <2>5
<1>13. Len(c2) <= LAST
  BY <1>2, <1>11
<1>14. Going(K, p0, d2, q, c2, p + n)
  BY <1>6, <1>10, <1>11, <1>12, <1>13 DEF Going, Underway
<1> HIDE DEF d2, c2
<1>15. MovedOn(K, p0, d, q, c, p + n, d2, c2, n)
  BY <1>6, <1>11, <1>12, <1>14 DEF MovedOn
<1>16. QED BY <1>15 DEF d2, c2

Settled(d, q, c) ==
  \/ Len(c) >= LAST
  \/ ~d[q].addrCmdSent
  \/ ~(d[q].cmdBytesNeeded > d[q].mode)

(* What the inner loop leaves of the entry it began with *)
After(d, c, d2, c2, q) ==
  (Underway(d[q]) => Underway(d2[q])) /\ (Fresh(d[q]) => d2 = d /\ c2 = c)

LEMMA BlockStep ==
  ASSUME NEW K \in Queued, NEW p0, NEW d, NEW q, NEW c, NEW p, Going(K, p0, d, q, c, p)
  PROVE  \E d2, c2, p2 :
           /\ AddBlock(State(d, q, c, No)) = State(d2, q, c2, No)
           /\ Going(K, p0, d2, q, c2, p2)
           /\ After(d, c, d2, c2, q)
           /\ Settled(d, q, c) => d2 = d /\ c2 = c
           /\ ~Settled(d, q, c) => Len(c2) = Len(c) + 1
<1> DEFINE e == d[q]
           n == BlockSize(e)
           op == IF e.mode = 1 THEN "READ" ELSE "WRITE"
<1>1. CASE Settled(d, q, c)
  <2>1. AddBlock(State(d, q, c, No)) = State(d, q, c, No)
    <3>1. ~(~(Len(c) >= LAST) /\ d[q].addrCmdSent /\ d[q].cmdBytesNeeded > d[q].mode)
      BY <1>1 DEF Settled
    <3>2. QED BY <3>1, BlockIs
  <2>2. After(d, c, d, c, q)
    BY DEF After
  <2>3. QED BY <1>1, <2>1, <2>2
<1>2. CASE ~Settled(d, q, c)
  <2>1. /\ K[q] \in Entries /\ e \in Entries /\ SameEntry(K[q], e)
        /\ queueLength(K[q]) = queueLength(e) /\ q \in Nat
    BY HeldEntry DEF Going
  <2>2. Len(c) \in Nat /\ LAST \in Nat /\ Held(K, d, q, p) /\ ~e.stopCmdSent
    BY CommandAssumption DEF Going, Plain
  <2>3. ~(Len(c) >= LAST) /\ e.addrCmdSent /\ e.cmdBytesNeeded > e.mode /\ Len(c) < LAST
    BY <1>2, <2>2 DEF Settled
  <2>4. Underway(e)
    BY <2>2, <2>3 DEF Held, EntryAt, Fresh
  <2>5. /\ e.cmdBytesNeeded \in Nat /\ e.length \in Nat /\ e.addrReq \in Nat /\ e.mode \in {0, 1}
        /\ queueLength(K[q]) = e.length + e.addrReq /\ e.cmdBytesNeeded <= e.length
        /\ K[q].length = e.length /\ K[q].addrReq = e.addrReq /\ K[q].mode = e.mode
    BY <2>1, <2>4 DEF Entries, queueLength, Underway, SameEntry
  <2>6. n \in Nat \ {0} /\ n <= e.cmdBytesNeeded /\ (e.mode = 1 => n < e.cmdBytesNeeded)
    <3>1. BLK \in Nat \ {0}
      BY CommandAssumption
    <3>2. n = IF e.cmdBytesNeeded > BLK THEN BLK ELSE e.cmdBytesNeeded - e.mode
      BY DEF BlockSize
    <3> HIDE DEF n, e
    <3>3. QED BY <2>3, <2>5, <3>1, <3>2
  <2>7. op \in Moves /\ op = IF K[q].mode = 1 THEN "READ" ELSE "WRITE"
    BY <2>5 DEF Moves
  <2>8. Fills(K, q, queueLength(K[q]) - d[q].cmdBytesNeeded, n, No)
    <3>1. PICK i \in Int, f \in Entries :
            i = queueLength(K[q]) - d[q].cmdBytesNeeded /\ f = K[q]
      BY <2>1, <2>5
    <3>2. ASSUME NEW k \in 1 .. n PROVE ByteOf(f, q, i + k) = ByteToken(f, q, i + k, No)
      <4>1. PICK j \in Int : j = i + k
        BY <2>6
      <4>2. ~(j <= f.addrReq) /\ (f.mode = 0 \/ j - f.addrReq # f.length)
        <5> HIDE DEF n
        <5>1. QED BY <2>5, <2>6, <3>1, <4>1
      <4>3. ByteOf(f, q, j) = ByteToken(f, q, j, No)
        BY <4>2, NotLast
      <4>4. QED BY <4>1, <4>3
    <3> HIDE DEF n
    <3>3. QED BY <3>1, <3>2 DEF Fills
  <2> DEFINE left == e.cmdBytesNeeded - n
             d2 == WithLeft(d, q, left)
             c2 == Append(c, Cmd(op, n, No, q))
  <2>9. AddBlock(State(d, q, c, No)) = State(d2, q, c2, No)
    BY <2>3, BlockIs DEF WithLeft
  <2> HIDE DEF n, op
  <2>10. Going(K, p0, d2, q, c2, p + n) /\ Underway(d2[q]) /\ Len(c2) = Len(c) + 1
    <3>1. n <= d[q].cmdBytesNeeded /\ Underway(d[q])
      BY <2>4, <2>6
    <3>2. MovedOn(K, p0, d, q, c, p + n, d2, c2, n)
      BY <2>3, <2>6, <2>7, <2>8, <3>1, YesNo, MoveStep
    <3>3. QED BY <3>2 DEF MovedOn
  <2> HIDE DEF left, d2, c2
  <2>11. After(d, c, d2, c2, q)
    BY <2>4, <2>10 DEF After, Underway, Fresh
  <2>12. QED BY <1>2, <2>9, <2>10, <2>11
<1>3. QED BY <1>1, <1>2

(* The states the inner loop goes through *)
BlocksRun(s, N, r) ==
  r[0] = s /\ Repeat(AddBlock, s, N) = r[N] /\ \A k \in 1 .. N : r[k] = AddBlock(r[k - 1])

LEMMA BlocksAre ==
  ASSUME NEW s, NEW N \in Nat PROVE \E r : BlocksRun(s, N, r)
<1> DEFINE Good(n, g) ==
             g = [k \in 0 .. n |->
                    IF k = 0 THEN s ELSE CHOOSE t \in {AddBlock(u) : u \in {g[k - 1]}} : TRUE]
           T == {n \in Nat : \E g : Good(n, g)}
<1>1. 0 \in T
  <2>1. Good(0, [k \in 0 .. 0 |-> s])
    OBVIOUS
  <2>2. QED BY <2>1
<1>2. ASSUME NEW n \in Nat, n \in T PROVE n + 1 \in T
  <2>1. PICK g : Good(n, g)
    BY <1>2
  <2> DEFINE h == [k \in 0 .. n + 1 |-> IF k = n + 1 THEN AddBlock(g[n]) ELSE g[k]]
  <2>2. ASSUME NEW k \in 0 .. n + 1
        PROVE  h[k] = IF k = 0 THEN s ELSE CHOOSE t \in {AddBlock(u) : u \in {h[k - 1]}} : TRUE
    BY <2>1
  <2>3. Good(n + 1, h)
    BY <2>2
  <2> HIDE DEF Good
  <2>4. QED BY <2>3
<1>3. PICK g : Good(N, g)
  <2> HIDE DEF T
  <2>1. \A n \in 0 .. N : n \in T
    BY <1>1, <1>2, Induct
  <2>2. N \in T
    BY <2>1
  <2>3. QED BY <2>2 DEF T
<1> DEFINE r == CHOOSE r : Good(N, r)
<1>4. Good(N, r)
  BY <1>3
<1>5. Repeat(AddBlock, s, N) = r[N]
  BY DEF Repeat, Then
<1> HIDE DEF r
<1>6. r[0] = s /\ \A k \in 1 .. N : r[k] = AddBlock(r[k - 1])
  BY <1>4
<1>7. QED BY <1>5, <1>6 DEF BlocksRun

(* The inner loop ends with nothing left that fits *)
Filled(K, p0, d, c, q, s, k) ==
  \E d2, c2, p2 :
    /\ s = State(d2, q, c2, No) /\ Going(K, p0, d2, q, c2, p2) /\ After(d, c, d2, c2, q)
    /\ Settled(d2, q, c2) \/ Len(c2) >= k

LEMMA FilledMore ==
  ASSUME NEW K \in Queued, NEW p0, NEW d, NEW q, NEW c, NEW s, NEW k \in Nat,
         Filled(K, p0, d, c, q, s, k)
  PROVE  Filled(K, p0, d, c, q, AddBlock(s), k + 1)
<1>1. PICK d2, c2, p2 :
        /\ s = State(d2, q, c2, No) /\ Going(K, p0, d2, q, c2, p2) /\ After(d, c, d2, c2, q)
        /\ Settled(d2, q, c2) \/ Len(c2) >= k
  BY DEF Filled
<1>2. PICK d3, c3, p3 :
        /\ AddBlock(State(d2, q, c2, No)) = State(d3, q, c3, No)
        /\ Going(K, p0, d3, q, c3, p3)
        /\ After(d2, c2, d3, c3, q)
        /\ Settled(d2, q, c2) => d3 = d2 /\ c3 = c2
        /\ ~Settled(d2, q, c2) => Len(c3) = Len(c2) + 1
  BY <1>1, BlockStep
<1>3. AddBlock(s) = State(d3, q, c3, No)
  BY <1>1, <1>2
<1>4. After(d, c, d3, c3, q)
  BY <1>1, <1>2 DEF After
<1>5. Settled(d3, q, c3) \/ Len(c3) >= k + 1
  <2>1. CASE Settled(d2, q, c2)
    BY <1>2, <2>1
  <2>2. CASE ~Settled(d2, q, c2)
    <3>1. Len(c2) >= k /\ Len(c3) = Len(c2) + 1 /\ Len(c2) \in Nat
      BY <1>1, <1>2, <2>2 DEF Going, Plain
    <3>2. QED BY <3>1
  <2>3. QED BY <2>1, <2>2
<1>6. QED BY <1>2, <1>3, <1>4, <1>5 DEF Filled

LEMMA DataStep ==
  ASSUME NEW K \in Queued, NEW p0, NEW d, NEW q, NEW c, NEW p, Going(K, p0, d, q, c, p)
  PROVE  \E d2, c2, p2 :
           /\ AddData(State(d, q, c, No)) = State(d2, q, c2, No)
           /\ Going(K, p0, d2, q, c2, p2) /\ After(d, c, d2, c2, q) /\ Settled(d2, q, c2)
<1>1. LAST \in Nat
  BY CommandAssumption
<1>2. PICK s : s = State(d, q, c, No)
  OBVIOUS
<1> PICK r : BlocksRun(s, LAST, r)
  BY <1>1, BlocksAre
<1>3. /\ r[0] = s /\ Repeat(AddBlock, s, LAST) = r[LAST]
      /\ \A k \in 1 .. LAST : r[k] = AddBlock(r[k - 1])
  BY DEF BlocksRun
<1> DEFINE T == {k \in Nat : Filled(K, p0, d, c, q, r[k], k)}
<1>4. 0 \in T
  <2>1. After(d, c, d, c, q) /\ Len(c) >= 0
    BY DEF After, Going, Plain
  <2>2. Filled(K, p0, d, c, q, s, 0)
    BY <1>2, <2>1 DEF Filled
  <2>3. QED BY <1>3, <2>2
<1>5. ASSUME NEW k \in Nat, k < LAST, k \in T PROVE k + 1 \in T
  <2>1. k + 1 \in 1 .. LAST /\ (k + 1) - 1 = k
    BY <1>1, <1>5
  <2>2. r[k + 1] = AddBlock(r[k])
    BY <1>3, <2>1
  <2>3. Filled(K, p0, d, c, q, r[k], k)
    BY <1>5
  <2>4. Filled(K, p0, d, c, q, AddBlock(r[k]), k + 1)
    BY <2>3, FilledMore
  <2>5. QED BY <2>2, <2>4
<1>6. Filled(K, p0, d, c, q, r[LAST], LAST)
  <2> HIDE DEF T
  <2>1. \A k \in 0 .. LAST : k \in T
    BY <1>1, <1>4, <1>5, Induct
  <2>2. LAST \in T
    BY <1>1, <2>1
  <2>3. QED BY <2>2 DEF T
<1>7. PICK d2, c2, p2 :
        /\ r[LAST] = State(d2, q, c2, No) /\ Going(K, p0, d2, q, c2, p2)
        /\ After(d, c, d2, c2, q) /\ (Settled(d2, q, c2) \/ Len(c2) >= LAST)
  BY <1>6 DEF Filled
<1>8. Settled(d2, q, c2)
  BY <1>7 DEF Settled
<1>9. AddData(State(d, q, c, No)) = State(d2, q, c2, No)
  BY <1>2, <1>3, <1>7 DEF AddData
<1>10. QED BY <1>7, <1>8, <1>9

(* Only the last byte of a READ is left, and it is answered with NAK *)
LEMMA LastReadStep ==
  ASSUME NEW K \in Queued, NEW p0, NEW d, NEW q, NEW c, NEW p, Going(K, p0, d, q, c, p),
         Settled(d, q, c)
  PROVE  \E d2, c2, p2 :
           /\ AddLastRead(State(d, q, c, No)) = State(d2, q, c2, No)
           /\ Going(K, p0, d2, q, c2, p2) /\ After(d, c, d2, c2, q)
           /\ Len(c2) >= LAST \/ ~d2[q].addrCmdSent \/ d2[q].cmdBytesNeeded = 0
<1> DEFINE e == d[q]
<1>1. /\ K[q] \in Entries /\ e \in Entries /\ SameEntry(K[q], e)
      /\ queueLength(K[q]) = queueLength(e) /\ q \in Nat
  BY HeldEntry DEF Going
<1>2. Len(c) \in Nat /\ LAST \in Nat /\ Held(K, d, q, p) /\ ~e.stopCmdSent
  BY CommandAssumption DEF Going, Plain
<1>3. e.cmdBytesNeeded \in Nat /\ e.mode \in {0, 1}
  BY <1>1 DEF Entries
<1>4. CASE ~(Len(c) >= LAST) /\ e.addrCmdSent /\ e.mode = 1 /\ e.cmdBytesNeeded = 1
  <2>1. Underway(e) /\ Len(c) < LAST
    BY <1>2, <1>4 DEF Held, EntryAt, Fresh
  <2>2. /\ e.length \in Nat \ {0} /\ e.addrReq \in Nat
        /\ queueLength(K[q]) = e.length + e.addrReq
        /\ K[q].length = e.length /\ K[q].addrReq = e.addrReq /\ K[q].mode = 1
    BY <1>1, <1>4, <2>1 DEF Entries, queueLength, Underway, SameEntry
  <2>3. Fills(K, q, queueLength(K[q]) - d[q].cmdBytesNeeded, 1, Yes)
    <3>1. PICK i \in Int, f \in Entries :
            i = queueLength(K[q]) - d[q].cmdBytesNeeded /\ f = K[q]
      BY <1>1, <1>4, <2>2
    <3>2. PICK j \in Int : j = i + 1
      OBVIOUS
    <3>3. j - f.addrReq = f.length /\ ~(j <= f.addrReq) /\ f.mode # 0
      <4>1. PICK l, a : l = e.length /\ a = e.addrReq
        OBVIOUS
      <4>2. l \in Nat \ {0} /\ a \in Nat /\ i = l + a - 1
        BY <1>4, <2>2, <3>1, <4>1
      <4>3. f.length = l /\ f.addrReq = a /\ f.mode = 1
        BY <2>2, <3>1, <4>1
      <4>4. j - a = l /\ ~(j <= a)
        BY <3>2, <4>2
      <4>5. QED BY <4>3, <4>4
    <3>4. ByteOf(f, q, j) = ByteToken(f, q, j, Yes)
      BY <3>3, IsLast
    <3>5. \A k \in 1 .. 1 : k = 1
      OBVIOUS
    <3>6. QED BY <3>1, <3>2, <3>4, <3>5 DEF Fills
  <2> DEFINE d2 == WithLeft(d, q, d[q].cmdBytesNeeded - 1)
             c2 == Append(c, Cmd("READ", 1, Yes, q))
  <2>4. AddLastRead(State(d, q, c, No)) = State(d2, q, c2, No)
    <3>1. d2 = [d EXCEPT ![q] = [d[q] EXCEPT !.cmdBytesNeeded = 0]]
      <4>1. d[q].cmdBytesNeeded - 1 = 0
        BY <1>4
      <4>2. QED BY <4>1 DEF WithLeft
    <3> HIDE DEF d2
    <3>2. QED BY <1>4, <3>1, LastReadIs
  <2>5. MovedOn(K, p0, d, q, c, p + 1, d2, c2, 1)
    <3>1. /\ "READ" \in Moves /\ 1 \in Nat \ {0} /\ 1 <= d[q].cmdBytesNeeded /\ Underway(d[q])
          /\ "READ" = IF K[q].mode = 1 THEN "READ" ELSE "WRITE"
      BY <1>4, <2>1, <2>2 DEF Moves
    <3>2. QED BY <2>1, <2>3, <3>1, YesNo, MoveStep
  <2> HIDE DEF d2, c2
  <2>6. Going(K, p0, d2, q, c2, p + 1) /\ Underway(d2[q]) /\ d2[q].cmdBytesNeeded = 0
    BY <1>4, <2>5 DEF MovedOn
  <2>7. After(d, c, d2, c2, q)
    BY <2>1, <2>6 DEF After, Underway, Fresh
  <2>8. QED BY <2>4, <2>6, <2>7
<1>5. CASE ~(~(Len(c) >= LAST) /\ e.addrCmdSent /\ e.mode = 1 /\ e.cmdBytesNeeded = 1)
  <2>1. AddLastRead(State(d, q, c, No)) = State(d, q, c, No)
    BY <1>5, LastReadIs
  <2>2. Len(c) >= LAST \/ ~e.addrCmdSent \/ e.cmdBytesNeeded = 0
    <3>1. Len(c) >= LAST \/ ~e.addrCmdSent \/ ~(e.cmdBytesNeeded > e.mode)
      BY DEF Settled
    <3> HIDE DEF e
    <3>2. QED BY <1>2, <1>3, <1>5, <3>1
  <2>3. After(d, c, d, c, q)
    BY DEF After
  <2>4. QED BY <2>1, <2>2, <2>3
<1>6. QED BY <1>4, <1>5

(* An iteration up to its STOP: what more would fit, it has written *)
LEMMA QueuedStep ==
  ASSUME NEW K \in Queued, NEW p0, NEW d, NEW q, NEW c, NEW p,
         Going(K, p0, d, q, c, p), Len(c) < LAST
  PROVE  \E d2, c2, p2 :
           /\ AddLastRead(AddData(AddAddress(AddStart(State(d, q, c, No))))) = State(d2, q, c2, No)
           /\ Going(K, p0, d2, q, c2, p2)
           /\ \/ Len(c2) = LAST
              \/ Underway(d2[q]) /\ d2[q].cmdBytesNeeded = 0
              \/ Fresh(d2[q]) /\ Len(c2) = LAST - 1
<1>1. PICK d1, c1, p1 :
        /\ AddAddress(AddStart(State(d, q, c, No))) = State(d1, q, c1, No)
        /\ Going(K, p0, d1, q, c1, p1)
        /\ Underway(d1[q]) \/ (Fresh(d1[q]) /\ Len(c1) = LAST - 1)
  BY StartAddress
<1>2. PICK d2, c2, p2 :
        /\ AddData(State(d1, q, c1, No)) = State(d2, q, c2, No)
        /\ Going(K, p0, d2, q, c2, p2) /\ After(d1, c1, d2, c2, q) /\ Settled(d2, q, c2)
  BY <1>1, DataStep
<1>3. PICK d3, c3, p3 :
        /\ AddLastRead(State(d2, q, c2, No)) = State(d3, q, c3, No)
        /\ Going(K, p0, d3, q, c3, p3) /\ After(d2, c2, d3, c3, q)
        /\ Len(c3) >= LAST \/ ~d3[q].addrCmdSent \/ d3[q].cmdBytesNeeded = 0
  BY <1>2, LastReadStep
<1>4. AddLastRead(AddData(AddAddress(AddStart(State(d, q, c, No))))) = State(d3, q, c3, No)
  BY <1>1, <1>2, <1>3
<1>5. Len(c3) \in Nat /\ Len(c3) <= LAST /\ LAST \in Nat
  BY <1>3, CommandAssumption DEF Going, Plain
<1>6. CASE Underway(d1[q])
  <2>1. Underway(d3[q])
    BY <1>2, <1>3, <1>6 DEF After
  <2>2. Len(c3) = LAST \/ d3[q].cmdBytesNeeded = 0
    BY <1>3, <1>5, <2>1 DEF Underway
  <2>3. QED BY <1>3, <1>4, <2>1, <2>2
<1>7. CASE Fresh(d1[q]) /\ Len(c1) = LAST - 1
  <2>1. d3 = d1 /\ c3 = c1
    BY <1>2, <1>3, <1>7 DEF After
  <2>2. QED BY <1>3, <1>4, <1>7, <2>1
<1>8. QED BY <1>1, <1>6, <1>7

(* A list before END, and a list that the controller is given *)
Body(c) ==
  /\ c \in Seq(Cmds) /\ c # <<>> /\ \A k \in 1 .. Len(c) : c[k].op # "END"
  /\ c[Len(c)].op # "RSTART" /\ Followed(c) /\ Useful(c)

Ended(c) ==
  /\ c \in Seq(Cmds) /\ c # <<>> /\ Len(c) <= LAST + 1 /\ c[Len(c)].op \in {"END", "STOP"}
  /\ \A k \in 1 .. Len(c) - 1 : c[k].op # "END"
  /\ Followed(c) /\ Useful(c)

LEMMA PlainIsBody ==
  ASSUME NEW c, Plain(c), c # <<>> PROVE Body(c)
BY DEF Plain, Body

LEMMA AppendIs ==
  ASSUME NEW c \in Seq(Cmds), NEW m \in Cmds
  PROVE  /\ Append(c, m) \in Seq(Cmds) /\ Len(Append(c, m)) = Len(c) + 1 /\ Append(c, m) # <<>>
         /\ Append(c, m)[Len(c) + 1] = m /\ \A k \in 1 .. Len(c) : Append(c, m)[k] = c[k]
         /\ Len(c) \in Nat
OBVIOUS

LEMMA FollowedMore ==
  ASSUME NEW c \in Seq(Cmds), Followed(c), c # <<>> => c[Len(c)].op # "RSTART", NEW m \in Cmds
  PROVE  Followed(Append(c, m))
<1> DEFINE n == Len(c)
           t == Append(c, m)
<1>1. n \in Nat /\ Len(t) = n + 1 /\ \A k \in 1 .. n : t[k] = c[k]
  BY AppendIs
<1>2. n > 0 => c[n].op # "RSTART"
  BY <1>1
<1>3. \A k \in 1 .. n - 1 : c[k].op = "RSTART" => c[k + 1].op = "WRITE"
  BY DEF Followed
<1> HIDE DEF n, t
<1>4. ASSUME NEW k \in 1 .. n, t[k].op = "RSTART" PROVE t[k + 1].op = "WRITE"
  <2>1. k # n
    BY <1>1, <1>2, <1>4
  <2>2. k \in 1 .. n - 1 /\ k + 1 \in 1 .. n
    BY <1>1, <2>1
  <2>3. QED BY <1>1, <1>3, <1>4, <2>2
<1>5. \A k \in 1 .. Len(t) - 1 : k \in 1 .. n
  BY <1>1
<1>6. Followed(t)
  BY <1>4, <1>5 DEF Followed
<1>7. QED BY <1>6 DEF t

LEMMA StopMore ==
  ASSUME NEW c, Plain(c), NEW m \in Cmds, m.op = "STOP"
  PROVE  Body(Append(c, m)) /\ Append(c, m)[Len(Append(c, m))].op = "STOP"
<1> DEFINE n == Len(c)
           t == Append(c, m)
<1>1. c \in Seq(Cmds) /\ \A k \in 1 .. n : c[k].op # "END"
  BY DEF Plain
<1>2. /\ t \in Seq(Cmds) /\ Len(t) = n + 1 /\ t # <<>> /\ t[n + 1] = m /\ n \in Nat
      /\ \A k \in 1 .. n : t[k] = c[k]
  BY <1>1, AppendIs
<1>3. Followed(t)
  BY <1>1, FollowedMore DEF Plain
<1> HIDE DEF n, t
<1>4. Useful(t)
  BY <1>2 DEF Useful
<1>5. \A k \in 1 .. n + 1 : t[k].op # "END"
  BY <1>1, <1>2
<1>6. QED BY <1>2, <1>3, <1>4, <1>5 DEF Body, t

LEMMA EndMore ==
  ASSUME NEW c, Body(c), Len(c) <= LAST, NEW m \in Cmds, m.op = "END"
  PROVE  Ended(Append(c, m))
<1> DEFINE n == Len(c)
           t == Append(c, m)
<1>1. c \in Seq(Cmds) /\ \A k \in 1 .. n : c[k].op # "END"
  BY DEF Body
<1>2. /\ t \in Seq(Cmds) /\ Len(t) = n + 1 /\ t # <<>> /\ t[n + 1] = m /\ n \in Nat
      /\ \A k \in 1 .. n : t[k] = c[k]
  BY <1>1, AppendIs
<1>3. Followed(t)
  BY <1>1, FollowedMore DEF Body
<1>4. Useful(c) /\ n <= LAST /\ LAST \in Nat
  BY CommandAssumption DEF Body
<1> HIDE DEF t
<1>5. Useful(t)
  <2>1. PICK k \in 1 .. n : c[k].op \in {"RSTART", "STOP"} \/ (c[k].op \in Moves /\ c[k].n > 0)
    BY <1>4 DEF Useful
  <2> HIDE DEF n
  <2>2. k \in 1 .. n + 1 /\ t[k] = c[k]
    BY <1>2
  <2>3. QED BY <1>2, <2>1, <2>2 DEF Useful
<1> HIDE DEF n
<1>6. QED BY <1>1, <1>2, <1>3, <1>4, <1>5 DEF Ended, t

LEMMA StopEnds ==
  ASSUME NEW c, Body(c), Len(c) <= LAST, c[Len(c)].op = "STOP" PROVE Ended(c)
<1>1. Len(c) \in Nat /\ LAST \in Nat
  BY CommandAssumption DEF Body
<1>2. QED BY <1>1 DEF Body, Ended

(* A second copy of the last move keeps the list what it is *)
LEMMA StretchPlain ==
  ASSUME NEW c, Plain(c), NEW k \in 1 .. Len(c), c[k].op \in Moves
  PROVE  /\ EmptyCopy(c[k]) \in Cmds /\ Size(EmptyCopy(c[k])) = 0
         /\ Plain(Inserted(c, k, EmptyCopy(c[k])))
         /\ Inserted(c, k, EmptyCopy(c[k])) # <<>>
         /\ Len(Inserted(c, k, EmptyCopy(c[k]))) = Len(c) + 1
<1> DEFINE n == Len(c)
           m == EmptyCopy(c[k])
           t == Inserted(c, k, m)
<1>1. c \in Seq(Cmds) /\ c[k] \in Cmds /\ n \in Nat
  BY DEF Plain
<1>2. m \in Cmds /\ m.op = c[k].op /\ m.n = 0
  BY <1>1 DEF EmptyCopy, Cmds
<1> HIDE DEF m
<1>3. Size(m) = 0
  BY <1>2 DEF Size
<1>4. /\ t \in Seq(Cmds) /\ Len(t) = n + 1
      /\ \A i \in 1 .. n + 1 : t[i] = IF i < k THEN c[i] ELSE IF i = k THEN m ELSE c[i - 1]
  <2>1. /\ Inserted(c, k, m) \in Seq(Cmds) /\ Len(Inserted(c, k, m)) = Len(c) + 1
        /\ \A i \in 1 .. Len(c) + 1 :
             Inserted(c, k, m)[i] = IF i < k THEN c[i] ELSE IF i = k THEN m ELSE c[i - 1]
    BY <1>1, <1>2, InsertedIs
  <2>2. QED BY <2>1
<1>5. t # <<>>
  BY <1>1, <1>4
<1> HIDE DEF t
<1>6. c # <<>>
  BY <1>1
<1>7. /\ \A i \in 1 .. n : c[i].op \in {"RSTART", "READ", "WRITE"}
      /\ Useful(c) /\ c[n].op # "RSTART"
      /\ \A i \in 1 .. n - 1 : c[i].op = "RSTART" => c[i + 1].op = "WRITE"
  BY <1>6 DEF Plain, Followed
<1>8. PICK j \in 1 .. n : c[j].op \in {"RSTART", "STOP"} \/ (c[j].op \in Moves /\ c[j].n > 0)
  BY <1>7 DEF Useful
<1> HIDE DEF n
<1>9. k \in 1 .. n
  BY DEF n
<1>10. Useful(t)
  <2>1. CASE j < k
    <3>1. j \in 1 .. n + 1 /\ t[j] = c[j]
      BY <1>1, <1>4, <2>1
    <3>2. QED BY <1>4, <1>8, <3>1 DEF Useful
  <2>2. CASE ~(j < k)
    <3>1. j + 1 \in 1 .. n + 1 /\ ~(j + 1 < k) /\ j + 1 # k /\ (j + 1) - 1 = j
      BY <1>1, <1>9, <2>2
    <3>2. t[j + 1] = c[j]
      BY <1>4, <3>1
    <3>3. QED BY <1>4, <1>8, <3>1, <3>2 DEF Useful
  <2>3. QED BY <2>1, <2>2
<1>11. \A i \in 1 .. n + 1 : t[i].op \in {"RSTART", "READ", "WRITE"}
  <2> SUFFICES ASSUME NEW i \in 1 .. n + 1 PROVE t[i].op \in {"RSTART", "READ", "WRITE"}
    OBVIOUS
  <2>1. CASE i < k
    <3>1. i \in 1 .. n
      BY <1>1, <1>9, <2>1
    <3>2. QED BY <1>4, <1>7, <2>1, <3>1
  <2>2. CASE i = k
    BY <1>2, <1>4, <1>7, <1>9, <2>2
  <2>3. CASE i > k
    <3>1. i - 1 \in 1 .. n /\ ~(i < k) /\ i # k
      BY <1>1, <1>9, <2>3
    <3>2. QED BY <1>4, <1>7, <3>1
  <2>4. QED BY <1>1, <1>9, <2>1, <2>2, <2>3
<1>12. t[n + 1].op # "RSTART"
  <2>1. n + 1 \in 1 .. n + 1 /\ ~(n + 1 < k) /\ n + 1 # k /\ (n + 1) - 1 = n
    BY <1>1, <1>9
  <2>2. t[n + 1] = c[n]
    BY <1>4, <2>1
  <2>3. QED BY <1>7, <2>2
<1>13. ASSUME NEW i \in 1 .. n, t[i].op = "RSTART" PROVE t[i + 1].op = "WRITE"
  <2>1. i \in 1 .. n + 1 /\ i + 1 \in 1 .. n + 1 /\ (i + 1) - 1 = i
    BY <1>1
  <2>2. CASE i < k
    <3>1. t[i] = c[i] /\ i \in 1 .. n - 1
      BY <1>1, <1>4, <1>9, <2>1, <2>2
    <3>2. c[i + 1].op = "WRITE"
      BY <1>7, <1>13, <3>1
    <3>3. CASE i + 1 < k
      BY <1>4, <2>1, <3>2, <3>3
    <3>4. CASE i + 1 = k
      BY <1>2, <1>4, <2>1, <3>2, <3>4
    <3>5. QED BY <1>9, <2>2, <3>3, <3>4
  <2>3. CASE i = k
    <3>1. t[i] = m
      BY <1>4, <2>1, <2>3
    <3>2. QED BY <1>2, <1>13, <3>1 DEF Moves
  <2>4. CASE i > k
    <3>1. /\ ~(i < k) /\ i # k /\ ~(i + 1 < k) /\ i + 1 # k
          /\ i - 1 \in 1 .. n - 1 /\ (i - 1) + 1 = i
      BY <1>1, <1>9, <2>4
    <3>2. t[i] = c[i - 1] /\ t[i + 1] = c[i]
      BY <1>4, <2>1, <3>1
    <3>3. QED BY <1>7, <1>13, <3>1, <3>2
  <2>5. QED BY <1>9, <2>2, <2>3, <2>4
<1>14. Followed(t)
  <2>1. \A i \in 1 .. Len(t) - 1 : i \in 1 .. n
    BY <1>1, <1>4
  <2>2. QED BY <1>13, <2>1 DEF Followed
<1>15. Plain(t)
  BY <1>4, <1>10, <1>11, <1>12, <1>14 DEF Plain
<1>16. QED BY <1>2, <1>3, <1>4, <1>5, <1>15 DEF t, m, n

(* What a refill that begins at p0 leaves behind *)
Refilled(K, p0, d, c) ==
  Ended(c) /\ \E q, p : Held(K, d, q, p) /\ Laid(K, p0, c, p)

Gone(K, p0, s) == \E d, q, c : s = State(d, q, c, Yes) /\ Refilled(K, p0, d, c)

Goes(K, p0, s, n) ==
  \E d, q, c, p :
    s = State(d, q, c, No) /\ Going(K, p0, d, q, c, p) /\ Len(c) < LAST /\ q >= n

LEMMA PlaceEnd ==
  ASSUME NEW K \in Queued, NEW d, NEW q, NEW p, Held(K, d, q, p)
  PROVE  /\ Cmd("END", 0, No, q) \in Cmds /\ Cmd("END", 0, No, q).op = "END"
         /\ Size(Cmd("END", 0, No, q)) = 0 /\ Place(K, Cmd("END", 0, No, q), p)
<1> DEFINE m == Cmd("END", 0, No, q)
<1>1. q \in Nat /\ q \in 1 .. Len(K)
  BY HeldEntry
<1>2. m \in Cmds /\ m.op = "END" /\ m.q = q
  BY <1>1, YesNo, CmdType
<1> HIDE DEF m
<1>3. Size(m) = 0 /\ Place(K, m, p)
  BY <1>1, <1>2 DEF Size, Place, Moves
<1>4. QED BY <1>2, <1>3 DEF m

LEMMA EndFull ==
  ASSUME NEW K \in Queued, NEW p0, NEW d, NEW q, NEW c, NEW p,
         Held(K, d, q, p), Laid(K, p0, c, p), Body(c), Len(c) = LAST
  PROVE  Gone(K, p0, NextEntry(AddEnd(State(d, q, c, No))))
<1> DEFINE m == Cmd("END", 0, No, q)
           t == Append(c, m)
<1>1. m \in Cmds /\ m.op = "END" /\ Size(m) = 0 /\ Place(K, m, p)
  BY PlaceEnd
<1>2. AddEnd(State(d, q, c, No)) = State(d, q, t, Yes)
  BY EndIs
<1>3. NextEntry(State(d, q, t, Yes)) = State(d, q, t, Yes)
  BY YesNo, NextIs
<1> HIDE DEF m
<1>4. c \in Seq(Cmds) /\ Len(c) <= LAST
  BY CommandAssumption DEF Body
<1>5. Ended(t)
  BY <1>1, <1>4, EndMore
<1>6. p \in Nat /\ Laid(K, p0, t, p + Size(m))
  BY <1>1, <1>4, LaidMore
<1> HIDE DEF t
<1>7. Laid(K, p0, t, p)
  BY <1>1, <1>6
<1>8. Refilled(K, p0, d, t)
  BY <1>5, <1>7 DEF Refilled
<1>9. NextEntry(AddEnd(State(d, q, c, No))) = State(d, q, t, Yes)
  BY <1>2, <1>3
<1>10. QED BY <1>8, <1>9 DEF Gone

LEMMA StretchStep ==
  ASSUME NEW K \in Queued, NEW p0, NEW d, NEW q, NEW c, NEW p, Going(K, p0, d, q, c, p),
         Fresh(d[q]), Len(c) = LAST - 1
  PROVE  \E c2 : /\ Stretch(State(d, q, c, No)) = State(d, q, c2, No)
                 /\ Body(c2) /\ Len(c2) = LAST /\ Laid(K, p0, c2, p)
<1> DEFINE s == State(d, q, c, No)
           moves == {k \in 1 .. LAST - 1 : s.cmd[k].op \in {"READ", "WRITE"}}
           k == LastMove(s)
           m == EmptyCopy(c[k])
           t == Inserted(c, k, m)
<1>1. LAST \in Nat /\ LAST > 3 /\ Plain(c) /\ c \in Seq(Cmds) /\ Laid(K, p0, c, p)
  BY CommandAssumption DEF Going, Plain
<1>2. s.cmd = c
  BY FieldsOf
<1>3. c # <<>> /\ LAST - 1 \in 1 .. LAST - 1 /\ LAST - 1 = Len(c)
  BY <1>1
<1>4. c[LAST - 1].op \in {"READ", "WRITE"}
  BY <1>1, <1>3 DEF Plain
<1>5. LAST - 1 \in moves /\ \A j \in moves : j <= LAST - 1
  <2> HIDE DEF s
  <2>1. QED BY <1>1, <1>2, <1>3, <1>4
<1>6. k = CHOOSE i \in moves : \A j \in moves : j <= i
  BY DEF LastMove
<1> HIDE DEF s
<1>7. k \in moves
  <2> HIDE DEF moves, k
  <2>1. QED BY <1>5, <1>6
<1> HIDE DEF k
<1>8. k \in 1 .. Len(c) /\ c[k].op \in Moves /\ c[k] \in Cmds
  BY <1>1, <1>2, <1>3, <1>7 DEF Moves
<1>9. m \in Cmds /\ Size(m) = 0 /\ Plain(t) /\ t # <<>> /\ Len(t) = Len(c) + 1
  BY <1>1, <1>8, StretchPlain
<1>10. \A pp \in Nat : Place(K, c[k], pp) => Place(K, m, pp)
  <2>1. m.op = c[k].op /\ m.n = 0 /\ m.q = c[k].q /\ c[k].n \in Nat
    BY <1>8 DEF EmptyCopy, Cmds
  <2> HIDE DEF m
  <2>2. m.op # "RSTART" /\ m.op # "STOP" /\ m.op \in Moves
    BY <1>8, <2>1 DEF Moves
  <2> SUFFICES ASSUME NEW pp \in Nat, Place(K, c[k], pp) PROVE Place(K, m, pp)
    OBVIOUS
  <2>3. PICK o, l : o = Off(K, m.q - 1) + 1 /\ l = Off(K, m.q - 1) + 1 + queueLength(K[m.q])
    OBVIOUS
  <2>4. m.q \in 1 .. Len(K) /\ o <= pp /\ pp + c[k].n <= l
    BY <1>8, <2>1, <2>3 DEF Place
  <2>5. l \in Nat
    <3>1. K \in Seq(Entries) /\ m.q - 1 \in 0 .. Len(K)
      BY <2>4 DEF Queued
    <3>2. Off(K, m.q - 1) \in Nat /\ queueLength(K[m.q]) \in Nat
      BY <2>4, <3>1, OffIs
    <3>3. QED BY <2>3, <3>2
  <2>6. pp + m.n <= l
    BY <2>1, <2>4, <2>5
  <2>7. \A j \in 1 .. m.n : FALSE
    BY <2>1
  <2>9. Carries(K[m.q], m.op, pp - Off(K, m.q - 1) - 1, m.n)
    <3>1. Carries(K[m.q], m.op, pp - Off(K, m.q - 1) - 1, c[k].n)
      BY <1>8, <2>1 DEF Place
    <3>2. PICK i, h : i = pp - Off(K, m.q - 1) - 1 /\ h = OutLen(K[m.q])
      OBVIOUS
    <3>3. K \in Seq(Entries) /\ m.q - 1 \in 0 .. Len(K) /\ K[m.q] \in Entries
      BY <2>4 DEF Queued
    <3>4. Off(K, m.q - 1) \in Nat /\ h \in Nat
      <4>1. Off(K, m.q - 1) \in Nat
        BY <3>3, OffIs
      <4>2. PICK f \in Entries : f = K[m.q]
        BY <3>3
      <4>3. OutLen(f) \in Nat
        BY DEF OutLen, Entries
      <4>4. QED BY <3>2, <4>1, <4>2, <4>3
    <3>5. i \in Int
      BY <3>2, <3>4
    <3>6. QED BY <2>1, <3>1, <3>2, <3>4, <3>5 DEF Carries
  <2>8. QED BY <2>2, <2>3, <2>4, <2>6, <2>7, <2>9 DEF Place
<1>11. Laid(K, p0, t, p)
  <2> HIDE DEF m
  <2>1. QED BY <1>1, <1>8, <1>9, <1>10, LaidInserted
<1>12. Stretch(s) = State(d, q, t, No)
  BY <1>1, StretchIs DEF Fresh, s, k
<1>13. Body(t)
  BY <1>9, PlainIsBody
<1>14. Len(t) = LAST
  BY <1>1, <1>9
<1>15. QED BY <1>11, <1>12, <1>13, <1>14 DEF s

(* STOP, or the next entry, once the bytes are all asked for *)
LEMMA StopStep ==
  ASSUME NEW K \in Queued, NEW p0, NEW d, NEW q, NEW c, NEW p, Going(K, p0, d, q, c, p),
         Underway(d[q]), d[q].cmdBytesNeeded = 0, Len(c) < LAST
  PROVE  LET s == NextEntry(AddEnd(Stretch(AddStop(State(d, q, c, No)))))
         IN  Gone(K, p0, s) \/ Goes(K, p0, s, q + 1)
<1> DEFINE e == d[q]
           f == [e EXCEPT !.stopCmdSent = Yes]
           g == [d EXCEPT ![q] = f]
           o == Off(K, q - 1)
<1>1. /\ K \in Seq(Entries) /\ q \in 1 .. Len(K) /\ Len(d) = Len(K) /\ Len(K) \in Nat
      /\ d \in Seq(Entries) /\ e \in Entries /\ (e.stop <=> q = Len(K)) /\ q \in Nat
      /\ o \in Nat /\ Off(K, q) \in Nat /\ queueLength(e) = queueLength(K[q])
  BY HeldEntry DEF Going
<1>2. /\ c \in Seq(Cmds) /\ Len(c) \in Nat /\ LAST \in Nat /\ Plain(c)
      /\ Laid(K, p0, c, p) /\ Held(K, d, q, p)
  BY CommandAssumption DEF Going, Plain
<1>3. p = o + 1 + queueLength(K[q])
  <2>1. p = o + 1 + queueLength(K[q]) - e.cmdBytesNeeded
    BY <1>2 DEF Held, EntryAt, Underway, Fresh
  <2>2. queueLength(K[q]) \in Nat
    BY <1>1, OffIs
  <2>3. QED BY <1>1, <2>1, <2>2
<1>4. /\ queueLength(K[q]) \in Nat
      /\ Off(K, q) = o + 1 + queueLength(K[q]) + (IF K[q].stop THEN 1 ELSE 0)
  BY <1>1, OffIs
<1>5. K[q].stop <=> q = Len(K)
  BY <1>1 DEF Queued
<1>6. /\ f \in Entries /\ SameEntry(e, f) /\ f.stopCmdSent /\ f.startCmdSent
  <2> HIDE DEF e
  <2>1. /\ f \in Entries /\ SameEntry(e, f) /\ f.stopCmdSent = Yes
        /\ f.startCmdSent = e.startCmdSent
    BY <1>1, YesNo DEF Entries, SameEntry
  <2>2. e.startCmdSent
    BY DEF Underway, e
  <2> HIDE DEF f
  <2>3. QED BY <2>1, <2>2, YesNo
<1> HIDE DEF f
<1>7. g[q] = f /\ Len(g) = Len(d) /\ \A r \in 1 .. Len(K) : r # q => g[r] = d[r]
  BY <1>1
<1>8. ~(Len(c) >= LAST) /\ e.addrCmdSent
  BY <1>2 DEF Underway
<1>9. CASE q = Len(K)
  <2> DEFINE m == Cmd("STOP", 0, No, q)
             t == Append(c, m)
  <2>1. AddStop(State(d, q, c, No)) = State(g, q, t, No)
    BY <1>1, <1>8, <1>9, StopIs DEF f
  <2>2. m \in Cmds /\ m.op = "STOP" /\ m.q = q
    <3>1. q \in Nat
      BY <1>1
    <3>2. QED BY <3>1, YesNo, CmdType
  <2> HIDE DEF m, g
  <2>3. Body(t) /\ t[Len(t)].op = "STOP" /\ t \in Seq(Cmds) /\ Len(t) = Len(c) + 1
    BY <1>2, <2>2, StopMore, AppendIs
  <2>4. Laid(K, p0, t, p + 1)
    <3>1. Place(K, m, p) /\ Size(m) = 1
      BY <1>1, <1>3, <1>5, <1>9, <2>2 DEF Place, Size, Moves
    <3>2. Laid(K, p0, t, p + Size(m))
      BY <1>2, <2>2, <3>1, LaidMore
    <3> HIDE DEF t
    <3>3. QED BY <3>1, <3>2
  <2> HIDE DEF t
  <2>5. Held(K, g, q, p + 1)
    <3>1. p + 1 = Off(K, q)
      BY <1>1, <1>3, <1>4, <1>5, <1>9
    <3>2. EntryAt(K, f, q, p + 1)
      BY <1>6, <1>9, <3>1 DEF EntryAt
    <3>3. Held(K, [d EXCEPT ![q] = f], q, p + 1)
      BY <1>1, <1>2, <1>6, <3>2, HeldEdit
    <3>4. QED BY <3>3 DEF g
  <2>6. Stretch(State(g, q, t, No)) = State(g, q, t, No)
    <3>1. g[q].startCmdSent
      BY <1>6, <1>7
    <3>2. QED BY <2>3, <3>1, StretchIs
  <2>7. CASE Len(t) = LAST
    <3>1. Gone(K, p0, NextEntry(AddEnd(State(g, q, t, No))))
      BY <2>3, <2>4, <2>5, <2>7, EndFull
    <3>2. QED BY <2>1, <2>6, <3>1
  <2>8. CASE Len(t) # LAST
    <3>1. AddEnd(State(g, q, t, No)) = State(g, q, t, No)
      BY <2>8, EndIs
    <3>2. NextEntry(State(g, q, t, No)) = State(g, q, t, Yes)
      <4>1. ~No /\ g[q].stopCmdSent /\ ~(q < Len(g))
        BY <1>1, <1>6, <1>7, <1>9, YesNo
      <4>2. QED BY <4>1, NextIs
    <3>3. Ended(t)
      <4>1. Len(t) <= LAST
        BY <1>2, <2>3
      <4>2. QED BY <2>3, <4>1, StopEnds
    <3>4. Refilled(K, p0, g, t)
      BY <2>4, <2>5, <3>3 DEF Refilled
    <3>5. Gone(K, p0, State(g, q, t, Yes))
      BY <3>4 DEF Gone
    <3>6. QED BY <2>1, <2>6, <3>1, <3>2, <3>5
  <2>9. QED BY <2>7, <2>8
<1>10. CASE q # Len(K)
  <2>1. AddStop(State(d, q, c, No)) = State(g, q, c, No)
    BY <1>1, <1>8, <1>10, StopIs DEF f
  <2>2. Stretch(State(g, q, c, No)) = State(g, q, c, No)
    <3>1. g[q].startCmdSent
      BY <1>6, <1>7
    <3> HIDE DEF g
    <3>2. QED BY <1>2, <3>1, StretchIs
  <2>3. AddEnd(State(g, q, c, No)) = State(g, q, c, No)
    <3>1. Len(c) # LAST
      BY <1>2
    <3> HIDE DEF g
    <3>2. QED BY <3>1, EndIs
  <2>4. NextEntry(State(g, q, c, No)) = State(g, q + 1, c, No)
    <3>1. ~No /\ g[q].stopCmdSent /\ q < Len(g)
      BY <1>1, <1>6, <1>7, <1>10, YesNo
    <3> HIDE DEF g
    <3>2. QED BY <3>1, NextIs
  <2>5. q + 1 \in 1 .. Len(K) /\ q + 1 # q /\ (q + 1) - 1 = q
    BY <1>1, <1>10
  <2>6. Fresh(d[q + 1]) /\ g[q + 1] = d[q + 1]
    <3>1. q + 1 \in q + 1 .. Len(K)
      BY <1>1, <2>5
    <3>2. QED BY <1>2, <1>7, <2>5, <3>1 DEF Held
  <2>7. Alike(K, g)
    <3>1. Alike(K, d)
      BY <1>2 DEF Held
    <3>2. SameEntry(K[q], f)
      BY <1>1, <1>6, <3>1 DEF Alike, SameEntry
    <3>3. g \in Seq(Entries)
      BY <1>1, <1>6
    <3> HIDE DEF g
    <3>4. \A r \in 1 .. Len(K) : SameEntry(K[r], g[r])
      BY <1>7, <3>1, <3>2 DEF Alike
    <3>5. QED BY <1>1, <1>7, <3>3, <3>4 DEF Alike
  <2> HIDE DEF g
  <2>8. \A r \in 1 .. q : g[r].stopCmdSent
    <3>1. \A r \in 1 .. q - 1 : d[r].stopCmdSent
      BY <1>2 DEF Held
    <3>2. \A r \in 1 .. q : r = q \/ (r \in 1 .. q - 1 /\ r \in 1 .. Len(K) /\ r # q)
      BY <1>1
    <3>3. QED BY <1>6, <1>7, <3>1, <3>2
  <2>9. \A r \in (q + 1) + 1 .. Len(K) : Fresh(g[r])
    <3>1. \A r \in q + 1 .. Len(K) : Fresh(d[r])
      BY <1>2 DEF Held
    <3>2. \A r \in (q + 1) + 1 .. Len(K) : r \in q + 1 .. Len(K) /\ r \in 1 .. Len(K) /\ r # q
      BY <1>1
    <3>3. QED BY <1>7, <3>1, <3>2
  <2>10. p = Off(K, q)
    BY <1>1, <1>3, <1>4, <1>5, <1>10
  <2>11. Held(K, g, q + 1, p)
    <3>1. EntryAt(K, g[q + 1], q + 1, p)
      BY <2>5, <2>6, <2>10 DEF EntryAt
    <3>2. \A r \in 1 .. (q + 1) - 1 : g[r].stopCmdSent
      BY <2>5, <2>8
    <3>3. QED BY <2>5, <2>7, <2>9, <3>1, <3>2 DEF Held
  <2>12. Going(K, p0, g, q + 1, c, p)
    <3>1. ~g[q + 1].stopCmdSent /\ Len(c) <= LAST
      BY <1>2, <2>6 DEF Fresh
    <3>2. QED BY <1>2, <2>11, <3>1 DEF Going
  <2>13. Goes(K, p0, State(g, q + 1, c, No), q + 1)
    <3>1. q + 1 >= q + 1
      BY <1>1
    <3>2. QED BY <2>12, <3>1 DEF Goes
  <2>14. QED BY <2>1, <2>2, <2>3, <2>4, <2>13
<1>11. QED BY <1>9, <1>10

LEMMA IterationStep ==
  ASSUME NEW K \in Queued, NEW p0, NEW d, NEW q, NEW c, NEW p,
         Going(K, p0, d, q, c, p), Len(c) < LAST
  PROVE  LET s == Iteration(State(d, q, c, No)) IN Gone(K, p0, s) \/ Goes(K, p0, s, q + 1)
<1>1. PICK d2, c2, p2 :
        /\ AddLastRead(AddData(AddAddress(AddStart(State(d, q, c, No))))) = State(d2, q, c2, No)
        /\ Going(K, p0, d2, q, c2, p2)
        /\ \/ Len(c2) = LAST
           \/ Underway(d2[q]) /\ d2[q].cmdBytesNeeded = 0
           \/ Fresh(d2[q]) /\ Len(c2) = LAST - 1
  BY QueuedStep
<1>2. Iteration(State(d, q, c, No)) = NextEntry(AddEnd(Stretch(AddStop(State(d2, q, c2, No)))))
  <2>1. PICK s : s = State(d, q, c, No)
    OBVIOUS
  <2>2. ~s.done
    <3>1. s.done = No
      BY <2>1 DEF State
    <3>2. QED BY <3>1, YesNo
  <2>3. Iteration(s) = NextEntry(AddEnd(Stretch(AddStop(AddLastRead(AddData(AddAddress(AddStart(s))))))))
    BY <2>2, IterationIs
  <2>4. QED BY <1>1, <2>1, <2>3
<1>3. /\ Len(c2) \in Nat /\ LAST \in Nat /\ LAST > 3 /\ Len(c2) <= LAST /\ Plain(c2)
      /\ Held(K, d2, q, p2) /\ Laid(K, p0, c2, p2)
  BY <1>1, CommandAssumption DEF Going, Plain
<1>4. CASE Len(c2) = LAST
  <2>1. AddStop(State(d2, q, c2, No)) = State(d2, q, c2, No)
    <3>1. Len(c2) >= LAST
      BY <1>3, <1>4
    <3>2. QED BY <3>1, StopIs
  <2>2. Stretch(State(d2, q, c2, No)) = State(d2, q, c2, No)
    <3>1. c2 \in Seq(Cmds) /\ Len(c2) # LAST - 1
      BY <1>3, <1>4 DEF Plain
    <3>2. QED BY <3>1, StretchIs
  <2>3. Body(c2)
    <3>1. c2 # <<>>
      BY <1>3, <1>4
    <3>2. QED BY <1>3, <3>1, PlainIsBody
  <2>4. Gone(K, p0, NextEntry(AddEnd(State(d2, q, c2, No))))
    BY <1>3, <1>4, <2>3, EndFull
  <2>5. QED BY <1>2, <2>1, <2>2, <2>4
<1>5. CASE Len(c2) # LAST /\ Underway(d2[q]) /\ d2[q].cmdBytesNeeded = 0
  <2>1. Len(c2) < LAST
    BY <1>3, <1>5
  <2>2. LET s == NextEntry(AddEnd(Stretch(AddStop(State(d2, q, c2, No)))))
        IN  Gone(K, p0, s) \/ Goes(K, p0, s, q + 1)
    BY <1>1, <1>5, <2>1, StopStep
  <2>3. QED BY <1>2, <2>2
<1>6. CASE Fresh(d2[q]) /\ Len(c2) = LAST - 1
  <2>1. AddStop(State(d2, q, c2, No)) = State(d2, q, c2, No)
    BY <1>6, StopIs DEF Fresh
  <2>2. PICK c3 : /\ Stretch(State(d2, q, c2, No)) = State(d2, q, c3, No)
                  /\ Body(c3) /\ Len(c3) = LAST /\ Laid(K, p0, c3, p2)
    BY <1>1, <1>6, StretchStep
  <2>3. Gone(K, p0, NextEntry(AddEnd(State(d2, q, c3, No))))
    BY <1>3, <2>2, EndFull
  <2>4. QED BY <1>2, <2>1, <2>2, <2>3
<1>7. QED BY <1>1, <1>4, <1>5, <1>6

(* The states the loop goes through *)
LoopRun(s, N, r) ==
  r[0] = s /\ Repeat(Iteration, s, N) = r[N] /\ \A k \in 1 .. N : r[k] = Iteration(r[k - 1])

LEMMA LoopsAre ==
  ASSUME NEW s, NEW N \in Nat PROVE \E r : LoopRun(s, N, r)
<1> DEFINE Good(n, g) ==
             g = [k \in 0 .. n |->
                    IF k = 0 THEN s ELSE CHOOSE t \in {Iteration(u) : u \in {g[k - 1]}} : TRUE]
           T == {n \in Nat : \E g : Good(n, g)}
<1>1. 0 \in T
  <2>1. Good(0, [k \in 0 .. 0 |-> s])
    OBVIOUS
  <2>2. QED BY <2>1
<1>2. ASSUME NEW n \in Nat, n \in T PROVE n + 1 \in T
  <2>1. PICK g : Good(n, g)
    BY <1>2
  <2> DEFINE h == [k \in 0 .. n + 1 |-> IF k = n + 1 THEN Iteration(g[n]) ELSE g[k]]
  <2>2. ASSUME NEW k \in 0 .. n + 1
        PROVE  h[k] = IF k = 0 THEN s ELSE CHOOSE t \in {Iteration(u) : u \in {h[k - 1]}} : TRUE
    BY <2>1
  <2>3. Good(n + 1, h)
    BY <2>2
  <2> HIDE DEF Good
  <2>4. QED BY <2>3
<1>3. PICK g : Good(N, g)
  <2> HIDE DEF T
  <2>1. \A n \in 0 .. N : n \in T
    BY <1>1, <1>2, Induct
  <2>2. N \in T
    BY <2>1
  <2>3. QED BY <2>2 DEF T
<1> DEFINE r == CHOOSE r : Good(N, r)
<1>4. Good(N, r)
  BY <1>3
<1>5. Repeat(Iteration, s, N) = r[N]
  BY DEF Repeat, Then
<1> HIDE DEF r
<1>6. r[0] = s /\ \A k \in 1 .. N : r[k] = Iteration(r[k - 1])
  BY <1>4
<1>7. QED BY <1>5, <1>6 DEF LoopRun

LEMMA LoopMore ==
  ASSUME NEW K \in Queued, NEW p0, NEW s, NEW n \in Nat, Gone(K, p0, s) \/ Goes(K, p0, s, n)
  PROVE  Gone(K, p0, Iteration(s)) \/ Goes(K, p0, Iteration(s), n + 1)
<1>1. CASE Gone(K, p0, s)
  <2>1. PICK d, q, c : s = State(d, q, c, Yes) /\ Refilled(K, p0, d, c)
    BY <1>1 DEF Gone
  <2>2. s.done
    <3>1. s.done = Yes
      BY <2>1 DEF State
    <3>2. QED BY <3>1, YesNo
  <2>3. Iteration(s) = s
    BY <2>2 DEF Iteration
  <2>4. QED BY <1>1, <2>3
<1>2. CASE Goes(K, p0, s, n)
  <2>1. PICK d, q, c, p :
          s = State(d, q, c, No) /\ Going(K, p0, d, q, c, p) /\ Len(c) < LAST /\ q >= n
    BY <1>2 DEF Goes
  <2>2. Gone(K, p0, Iteration(s)) \/ Goes(K, p0, Iteration(s), q + 1)
    BY <2>1, IterationStep
  <2>3. ASSUME Goes(K, p0, Iteration(s), q + 1) PROVE Goes(K, p0, Iteration(s), n + 1)
    <3>1. PICK d2, q2, c2, p2 :
            /\ Iteration(s) = State(d2, q2, c2, No) /\ Going(K, p0, d2, q2, c2, p2)
            /\ Len(c2) < LAST /\ q2 >= q + 1
      BY <2>3 DEF Goes
    <3>2. q \in Nat /\ q2 \in Nat
      BY <2>1, <3>1, HeldEntry, SMTT(30) DEF Going
    <3>3. q2 >= n + 1
      BY <2>1, <3>1, <3>2
    <3>4. QED BY <3>1, <3>3 DEF Goes
  <2>4. QED BY <2>2, <2>3
<1>3. QED BY <1>1, <1>2

(* The loop comes to an end, with a list for the controller *)
LEMMA LoopEnds ==
  ASSUME NEW K \in Queued, NEW p0, NEW s, Goes(K, p0, s, 1)
  PROVE  Gone(K, p0, Repeat(Iteration, s, LAST + Len(K) + 1))
<1> DEFINE N == LAST + Len(K) + 1
<1>1. LAST \in Nat /\ Len(K) \in Nat /\ N \in Nat /\ N + 1 > Len(K)
  BY CommandAssumption DEF Queued
<1> HIDE DEF N
<1> PICK r : LoopRun(s, N, r)
  BY <1>1, LoopsAre
<1>2. /\ r[0] = s /\ Repeat(Iteration, s, N) = r[N]
      /\ \A k \in 1 .. N : r[k] = Iteration(r[k - 1])
  BY DEF LoopRun
<1> DEFINE T == {k \in Nat : Gone(K, p0, r[k]) \/ Goes(K, p0, r[k], k + 1)}
<1>3. 0 \in T
  BY <1>2
<1>4. ASSUME NEW k \in Nat, k < N, k \in T PROVE k + 1 \in T
  <2>1. k + 1 \in 1 .. N /\ (k + 1) - 1 = k /\ k + 1 \in Nat
    BY <1>1, <1>4
  <2>2. r[k + 1] = Iteration(r[k])
    BY <1>2, <2>1
  <2>3. Gone(K, p0, r[k]) \/ Goes(K, p0, r[k], k + 1)
    BY <1>4
  <2>4. Gone(K, p0, Iteration(r[k])) \/ Goes(K, p0, Iteration(r[k]), (k + 1) + 1)
    BY <2>1, <2>3, LoopMore
  <2>5. QED BY <2>1, <2>2, <2>4
<1>5. Gone(K, p0, r[N]) \/ Goes(K, p0, r[N], N + 1)
  <2> HIDE DEF T
  <2>1. \A k \in 0 .. N : k \in T
    BY <1>1, <1>3, <1>4, Induct
  <2>2. N \in T
    BY <1>1, <2>1
  <2>3. QED BY <2>2 DEF T
<1>6. ~Goes(K, p0, r[N], N + 1)
  <2> SUFFICES ASSUME Goes(K, p0, r[N], N + 1) PROVE FALSE
    OBVIOUS
  <2>1. PICK d, q, c, p : Going(K, p0, d, q, c, p) /\ q >= N + 1
    BY DEF Goes
  <2>2. q \in 1 .. Len(K)
    BY <2>1 DEF Going, Held
  <2>3. QED BY <1>1, <2>1, <2>2
<1>7. Gone(K, p0, Repeat(Iteration, s, N))
  BY <1>2, <1>5, <1>6
<1>8. QED BY <1>7 DEF N

(* A refill goes on where the queue's flags say the last one stopped *)
LEMMA FillStep ==
  ASSUME NEW K \in Queued, NEW a \in Nat \ {0}, NEW q, a <= q, NEW p \in Nat,
         Held(K, K, q, p), ~K[q].stopCmdSent
  PROVE  Refilled(K, p, FillCmdQueue(K, a).dq, FillCmdQueue(K, a).cmd)
<1> DEFINE todo == Unsent(K, a)
           first == CHOOSE i \in todo : \A j \in todo : i <= j
           s == [dq |-> K, qp |-> first, cmd |-> <<>>, done |-> FALSE]
           N == LAST + Len(K) + 1
           t == Repeat(Iteration, s, N)
<1>1. q \in 1 .. Len(K) /\ q \in Nat /\ \A r \in 1 .. q - 1 : K[r].stopCmdSent
  BY HeldEntry DEF Held
<1>2. q \in todo /\ \A r \in todo : q <= r
  BY <1>1 DEF Unsent
<1>3. first = q
  <2>1. \A i \in todo : i \in Nat
    BY DEF Unsent
  <2> HIDE DEF todo
  <2>2. first \in todo /\ \A j \in todo : first <= j
    BY <1>2
  <2> HIDE DEF first
  <2>3. QED BY <1>2, <2>1, <2>2
<1>4. s = State(K, q, <<>>, No)
  <2> HIDE DEF first
  <2>1. s = [dq |-> K, qp |-> first, cmd |-> <<>>, done |-> No]
    BY Zenon DEF No
  <2> HIDE DEF s
  <2>2. QED BY <1>3, <2>1 DEF State
<1>5. Goes(K, p, State(K, q, <<>>, No), 1)
  <2>1. Plain(<<>>)
    BY DEF Plain, Followed
  <2>2. Laid(K, p, <<>>, p)
    BY LaidEmpty
  <2>3. Len(<<>>) = 0 /\ 0 <= LAST /\ 0 < LAST /\ q >= 1
    BY <1>1, CommandAssumption
  <2>4. Going(K, p, K, q, <<>>, p)
    BY <2>1, <2>2, <2>3 DEF Going
  <2>5. QED BY <2>3, <2>4 DEF Goes
<1> HIDE DEF s
<1>6. Gone(K, p, t)
  BY <1>4, <1>5, LoopEnds
<1>7. PICK d, qq, c : t = State(d, qq, c, Yes) /\ Refilled(K, p, d, c)
  BY <1>6 DEF Gone
<1>8. FillCmdQueue(K, a) = [dq |-> t.dq, cmd |-> t.cmd]
  <2>1. todo # {}
    BY <1>2
  <2>2. FillCmdQueue(K, a) = IF todo = {} THEN [dq |-> K, cmd |-> <<>>]
                             ELSE [dq |-> t.dq, cmd |-> t.cmd]
    BY DEF FillCmdQueue, s
  <2>3. QED BY <2>1, <2>2
<1> HIDE DEF t
<1>9. t.dq = d /\ t.cmd = c
  BY <1>7, FieldsOf
<1>10. FillCmdQueue(K, a).dq = d /\ FillCmdQueue(K, a).cmd = c
  BY <1>8, <1>9
<1>11. QED BY <1>7, <1>10

--------------------
(* The queue with its new flags stands for the same transaction.           *)
Reached(K, p) == \E q : Held(K, K, q, p)

LEMMA AlikeQueued ==
  ASSUME NEW K \in Queued, NEW d, Alike(K, d) PROVE d \in Queued /\ Len(d) = Len(K)
<1>1. K # <<>> /\ K \in Seq(Entries) /\ \A q \in 1 .. Len(K) : K[q].stop <=> q = Len(K)
  BY DEF Queued
<1>2. d \in Seq(Entries) /\ Len(d) = Len(K) /\ \A q \in 1 .. Len(K) : K[q].stop = d[q].stop
  BY DEF Alike, SameEntry
<1>3. d # <<>>
  BY <1>1, <1>2
<1>4. \A q \in 1 .. Len(d) : d[q].stop <=> q = Len(d)
  BY <1>1, <1>2
<1>5. QED BY <1>2, <1>3, <1>4 DEF Queued

LEMMA AlikeHeld ==
  ASSUME NEW K \in Queued, NEW d, NEW q, NEW p, Held(K, d, q, p) PROVE Held(d, d, q, p)
<1>1. Alike(K, d) /\ K \in Seq(Entries) /\ q \in 1 .. Len(K) /\ Len(d) = Len(K)
  BY DEF Held, Alike, Queued
<1>2. Alike(d, d)
  BY <1>1 DEF Alike, SameEntry
<1>3. /\ Off(d, q) = Off(K, q) /\ Off(d, q - 1) = Off(K, q - 1)
      /\ queueLength(d[q]) = queueLength(K[q])
  <2>1. q \in 0 .. Len(K) /\ q - 1 \in 0 .. Len(K)
    BY <1>1
  <2>2. QED BY <1>1, <2>1, AlikeStream
<1>4. EntryAt(d, d[q], q, p)
  BY <1>1, <1>3 DEF Held, EntryAt
<1>5. QED BY <1>1, <1>2, <1>4 DEF Held

LEMMA AlikeLikewise ==
  ASSUME NEW K, NEW d, Alike(K, d) PROVE Likewise(K, d)
BY DEF Alike, Likewise, SameEntry, SameTransfer

LEMMA LikewisePlace ==
  ASSUME NEW K \in Queued, NEW d, Likewise(K, d), NEW c, NEW p, Place(K, c, p)
  PROVE  Place(d, c, p)
<1>1. /\ K \in Seq(Entries) /\ c.q \in 1 .. Len(K) /\ Len(d) = Len(K)
      /\ SameTransfer(K[c.q], d[c.q])
  BY DEF Likewise, Queued, Place
<1>2. /\ Off(d, c.q - 1) = Off(K, c.q - 1) /\ queueLength(d[c.q]) = queueLength(K[c.q])
      /\ Stream(d) = Stream(K)
  <2>1. c.q - 1 \in 0 .. Len(K)
    BY <1>1
  <2>2. QED BY <1>1, <2>1, LikewiseStream
<1>3. \A k, nak : ByteToken(d[c.q], c.q, k, nak) = ByteToken(K[c.q], c.q, k, nak)
  BY <1>1 DEF ByteToken, SameTransfer
<1>4. /\ K[c.q].stop = d[c.q].stop
      /\ \A i : Carries(K[c.q], c.op, i, c.n) => Carries(d[c.q], c.op, i, c.n)
  BY <1>1 DEF SameTransfer, Carries, OutLen
<1>5. QED BY <1>1, <1>2, <1>3, <1>4 DEF Place

LEMMA LikewiseLaid ==
  ASSUME NEW K \in Queued, NEW d, Likewise(K, d), NEW p0, NEW c, NEW p, Laid(K, p0, c, p)
  PROVE  Laid(d, p0, c, p)
<1>1. PICK l \in [0 .. Len(c) -> Nat] : l[0] = p0 /\ l[Len(c)] = p /\ Along(K, c, l)
  BY DEF Laid
<1>2. Along(d, c, l)
  BY <1>1, LikewisePlace DEF Along
<1>3. QED BY <1>1, <1>2 DEF Laid

LEMMA LaidNone ==
  ASSUME NEW K, NEW p, NEW pEnd, Laid(K, p, <<>>, pEnd) PROVE pEnd = p
<1>1. Len(<<>>) = 0
  OBVIOUS
<1>2. QED BY <1>1 DEF Laid

--------------------
(* What the controller has moved, by the position where it stands.         *)
Clamp(n, m) == IF n < 0 THEN 0 ELSE IF n > m THEN m ELSE n

MovedAt(K, r, p) == Clamp(p - Off(K, r - 1) - 1, queueLength(K[r]))

(* Inside the entry it is the distance from its START, before it nothing *)
LEMMA MovedInside ==
  ASSUME NEW K, NEW q, NEW p \in Int, Off(K, q - 1) \in Int, queueLength(K[q]) \in Int,
         Off(K, q - 1) + 1 <= p, p <= Off(K, q - 1) + 1 + queueLength(K[q])
  PROVE  MovedAt(K, q, p) = p - Off(K, q - 1) - 1
<1> PICK o, l : o = Off(K, q - 1) /\ l = queueLength(K[q])
  OBVIOUS
<1>1. o \in Int /\ l \in Int /\ o + 1 <= p /\ p <= o + 1 + l
  OBVIOUS
<1>2. ~(p - o - 1 < 0) /\ ~(p - o - 1 > l)
  BY <1>1
<1>3. MovedAt(K, q, p) = Clamp(p - o - 1, l)
  BY DEF MovedAt
<1>4. QED BY <1>2, <1>3 DEF Clamp

LEMMA MovedBefore ==
  ASSUME NEW K, NEW q, NEW p \in Int, Off(K, q - 1) \in Int, queueLength(K[q]) \in Nat,
         p <= Off(K, q - 1) + 1
  PROVE  MovedAt(K, q, p) = 0
<1> PICK o, l : o = Off(K, q - 1) /\ l = queueLength(K[q])
  OBVIOUS
<1>1. o \in Int /\ l \in Nat /\ p <= o + 1
  OBVIOUS
<1>2. p - o - 1 < 0 \/ (p - o - 1 = 0 /\ ~(0 > l))
  BY <1>1
<1>3. MovedAt(K, q, p) = Clamp(p - o - 1, l)
  BY DEF MovedAt
<1>4. QED BY <1>2, <1>3 DEF Clamp

LEMMA EntryEnds ==
  ASSUME NEW K \in Queued, NEW q \in 1 .. Len(K)
  PROVE  /\ Off(K, q - 1) \in Nat /\ Off(K, q) \in Nat /\ queueLength(K[q]) \in Nat
         /\ Off(K, q - 1) + 1 + queueLength(K[q]) <= Off(K, q)
         /\ Off(K, q - 1) + 1 + queueLength(K[q]) < Len(Stream(K))
         /\ K[q].stop => Off(K, q - 1) + 1 + queueLength(K[q]) + 1 = Len(Stream(K))
         /\ Len(Stream(K)) \in Nat /\ Stream(K) \in Seq(Tokens)
<1>1. K \in Seq(Entries) /\ Len(K) \in Nat /\ \A r \in 1 .. Len(K) : K[r].stop <=> r = Len(K)
  BY DEF Queued
<1> DEFINE o(r) == Off(K, r - 1) + 1 + queueLength(K[r])
           L == Len(K)
<1>2. Stream(K) \in Seq(Tokens) /\ Len(Stream(K)) = Off(K, L)
  BY <1>1, StreamAt
<1>3. /\ L \in 1 .. Len(K) /\ q - 1 \in 0 .. Len(K) /\ q \in 0 .. Len(K)
      /\ L - 1 \in 0 .. Len(K) /\ L \in 0 .. Len(K)
  BY <1>1
<1>4. /\ Off(K, q - 1) \in Nat /\ Off(K, q) \in Nat /\ queueLength(K[q]) \in Nat
      /\ Off(K, q) = o(q) + (IF K[q].stop THEN 1 ELSE 0)
      /\ Off(K, L - 1) \in Nat /\ Off(K, L) \in Nat /\ queueLength(K[L]) \in Nat
      /\ Off(K, L) = o(L) + (IF K[L].stop THEN 1 ELSE 0)
  BY <1>1, <1>3, OffIs
<1>5. K[L].stop
  BY <1>1, <1>3
<1>6. Off(K, q) < Len(Stream(K)) \/ q = L
  <2> SUFFICES ASSUME q # L PROVE Off(K, q) < Len(Stream(K))
    OBVIOUS
  <2>1. q \in 0 .. L - 1
    BY <1>1
  <2>2. Off(K, q) <= Off(K, L - 1)
    BY <1>1, <1>3, <2>1, OffGrows
  <2> HIDE DEF L
  <2>3. QED BY <1>2, <1>4, <1>5, <2>2
<1> HIDE DEF L
<1>7. K[q].stop <=> q = L
  BY <1>1 DEF L
<1>8. CASE q = L
  BY <1>2, <1>4, <1>5, <1>8
<1>9. CASE q # L
  BY <1>2, <1>4, <1>6, <1>7, <1>9
<1>10. QED BY <1>8, <1>9

(* Only the bytes of the entry in which the controller is change           *)
LEMMA MovedElsewhere ==
  ASSUME NEW K \in Queued, NEW q \in 1 .. Len(K), NEW r \in 1 .. Len(K), r # q,
         NEW a \in Nat, NEW b \in Nat, Off(K, q - 1) <= a, a <= Off(K, q),
         Off(K, q - 1) <= b, b <= Off(K, q)
  PROVE  MovedAt(K, r, a) = MovedAt(K, r, b)
<1>1. K \in Seq(Entries) /\ Len(K) \in Nat
  BY DEF Queued
<1>2. /\ Off(K, q - 1) \in Nat /\ Off(K, q) \in Nat /\ Off(K, r - 1) \in Nat /\ Off(K, r) \in Nat
      /\ queueLength(K[r]) \in Nat /\ Off(K, r - 1) + 1 + queueLength(K[r]) <= Off(K, r)
  BY EntryEnds
<1>3. CASE r < q
  <2>1. r \in 0 .. q - 1 /\ q - 1 \in 0 .. Len(K)
    BY <1>1, <1>3
  <2>2. Off(K, r) <= Off(K, q - 1)
    BY <1>1, <2>1, OffGrows
  <2>3. QED BY <1>2, <2>2, SMTT(30) DEF MovedAt, Clamp
<1>4. CASE r > q
  <2>1. q \in 0 .. r - 1 /\ r - 1 \in 0 .. Len(K)
    BY <1>1, <1>4
  <2>2. Off(K, q) <= Off(K, r - 1)
    BY <1>1, <2>1, OffGrows
  <2>3. QED BY <1>2, <2>2, SMTT(30) DEF MovedAt, Clamp
<1>5. QED BY <1>1, <1>3, <1>4

--------------------
(* Beginnings of the stream.                                               *)
Begins(b, s) ==
  b \in Seq(Tokens) /\ Len(b) <= Len(s) /\ \A i \in 1 .. Len(b) : b[i] = s[i]

LEMMA BeginsIs ==
  ASSUME NEW s \in Seq(Tokens), NEW b, Begins(b, s)
  PROVE  SubSeq(s, 1, Len(b)) = b /\ (Len(b) = Len(s) => b = s)
<1>1. b \in Seq(Tokens) /\ Len(b) \in Nat /\ Len(s) \in Nat /\ Len(b) <= Len(s)
      /\ \A i \in 1 .. Len(b) : b[i] = s[i]
  BY DEF Begins
<1>2. PICK u : u = SubSeq(s, 1, Len(b))
  OBVIOUS
<1>3. u \in Seq(Tokens) /\ Len(u) = Len(b) /\ \A i \in 1 .. Len(b) : u[i] = s[i]
  BY <1>1, <1>2
<1>4. u = b
  <2>1. \A i \in 1 .. Len(u) : u[i] = b[i]
    BY <1>1, <1>3
  <2>2. QED BY <1>1, <1>3, <2>1, SeqEqual
<1>5. Len(b) = Len(s) => b = s
  BY <1>1, SeqEqual
<1>6. QED BY <1>2, <1>4, <1>5

LEMMA BeginsJoin ==
  ASSUME NEW s \in Seq(Tokens), NEW b, Begins(b, s), NEW t \in Seq(Tokens),
         Len(b) + Len(t) <= Len(s), \A k \in 1 .. Len(t) : t[k] = s[Len(b) + k]
  PROVE  Begins(b \o t, s) /\ Len(b \o t) = Len(b) + Len(t) /\ SubSeq(b \o t, 1, Len(b)) = b
<1>1. b \in Seq(Tokens) /\ Len(b) \in Nat /\ Len(s) \in Nat /\ Len(t) \in Nat /\ Len(b) <= Len(s)
      /\ \A i \in 1 .. Len(b) : b[i] = s[i]
  BY DEF Begins
<1>2. PICK u : u = b \o t
  OBVIOUS
<1>3. Joined(u, b, t)
  BY <1>1, <1>2, TokensJoin
<1>4. /\ u \in Seq(Tokens) /\ Len(u) = Len(b) + Len(t)
      /\ \A i \in 1 .. Len(b) : u[i] = b[i]
      /\ \A i \in 1 .. Len(t) : u[Len(b) + i] = t[i]
  BY <1>3 DEF Joined
<1>5. ASSUME NEW i \in 1 .. Len(u) PROVE u[i] = s[i]
  <2>1. CASE i <= Len(b)
    <3>1. i \in 1 .. Len(b)
      BY <1>1, <2>1
    <3>2. QED BY <1>1, <1>4, <3>1
  <2>2. CASE ~(i <= Len(b))
    <3>1. i - Len(b) \in 1 .. Len(t) /\ Len(b) + (i - Len(b)) = i
      BY <1>1, <1>4, <2>2
    <3>2. u[Len(b) + (i - Len(b))] = t[i - Len(b)] /\ t[i - Len(b)] = s[Len(b) + (i - Len(b))]
      BY <1>4, <3>1
    <3>3. QED BY <3>1, <3>2
  <2>3. QED BY <2>1, <2>2
<1>6. Begins(u, s)
  BY <1>1, <1>4, <1>5 DEF Begins
<1>7. Begins(b, u)
  BY <1>1, <1>4 DEF Begins
<1>8. SubSeq(u, 1, Len(b)) = b
  BY <1>4, <1>7, BeginsIs
<1>9. QED BY <1>2, <1>4, <1>6, <1>8

--------------------
(* The inductive invariant.                                                *)

(* A list as it is while the controller works on it *)
Ready(c) ==
  c # <<>> /\ c[Len(c)].op \in {"END", "STOP"} /\ \A k \in 1 .. Len(c) - 1 : c[k].op # "END"

Fits(c) == c \in Seq(Cmds) /\ Len(c) <= LAST + 1 /\ Followed(c)

(* Bus and counters agree with the stream; when the controller is idle,    *)
(* the flags say where it stands, and while it works, where the rest of    *)
(* its list will have brought it                                           *)
Sound(K, c, m, b, ph) ==
  /\ K \in Queued /\ ph \in {"fill", "run", "done"}
  /\ Begins(b, Stream(K)) /\ Fits(c) /\ m \in [1 .. Len(K) -> Nat]
  /\ ph # "done" => /\ Len(b) < Len(Stream(K))
                    /\ \A q \in 1 .. Len(K) : m[q] = MovedAt(K, q, Len(b))
  /\ ph = "fill" => Reached(K, Len(b))
  /\ ph = "run" => Ready(c) /\ \E p : Laid(K, Len(b), c, p) /\ Reached(K, p)
  /\ ph = "done" => Len(b) = Len(Stream(K))

RefillInv == Sound(dq, cmd, moved, wire, phase)

Advances(K, b, b2) ==
  Len(b2) > Len(b) /\ SubSeq(b2, 1, Len(b)) = b /\ Begins(b2, Stream(K))

LEMMA TailReady ==
  ASSUME NEW c, Fits(c), Ready(c), Head(c).op \notin {"END", "STOP"}
  PROVE  Fits(Tail(c)) /\ Ready(Tail(c))
<1> DEFINE n == Len(c)
           t == Tail(c)
<1>1. /\ c \in Seq(Cmds) /\ c # <<>> /\ n \in Nat \ {0} /\ Head(c) = c[1]
      /\ t \in Seq(Cmds) /\ Len(t) = n - 1 /\ \A k \in 1 .. n - 1 : t[k] = c[k + 1]
  BY DEF Fits, Ready
<1>2. n <= LAST + 1 /\ LAST \in Nat
  BY CommandAssumption DEF Fits
<1>3. /\ \A k \in 1 .. n - 1 : c[k].op = "RSTART" => c[k + 1].op = "WRITE"
      /\ c[n].op \in {"END", "STOP"} /\ \A k \in 1 .. n - 1 : c[k].op # "END"
  BY DEF Fits, Followed, Ready
<1> HIDE DEF n, t
<1>4. n # 1
  BY <1>1, <1>3
<1>5. t # <<>> /\ t[n - 1] = c[n]
  <2>1. n - 1 \in 1 .. n - 1 /\ (n - 1) + 1 = n /\ n - 1 # 0
    BY <1>1, <1>4
  <2>2. QED BY <1>1, <2>1
<1>6. \A k \in 1 .. Len(t) - 1 : k \in 1 .. n - 1 /\ k + 1 \in 1 .. n - 1
  BY <1>1
<1>7. Followed(t)
  BY <1>1, <1>3, <1>6 DEF Followed
<1>8. \A k \in 1 .. Len(t) - 1 : t[k].op # "END"
  BY <1>1, <1>3, <1>6
<1>9. Len(t) <= LAST + 1
  BY <1>1, <1>2
<1>10. QED BY <1>1, <1>3, <1>5, <1>7, <1>8, <1>9 DEF Fits, Ready, t

LEMMA MoveKeeps ==
  ASSUME NEW K, NEW c, NEW m, NEW b, Sound(K, c, m, b, "run"), Head(c).op \in Moves
  PROVE  LET x == Head(c)
             t == [k \in 1 .. x.n |-> ByteToken(K[x.q], x.q, m[x.q] + k, x.nak)]
         IN  /\ Sound(K, Tail(c), [m EXCEPT ![x.q] = @ + x.n], b \o t, "run")
             /\ b \o t = b \/ Advances(K, b, b \o t)
<1> DEFINE x == Head(c)
           q == x.q
           n == x.n
           p == Len(b)
           o == Off(K, q - 1)
           l == queueLength(K[q])
           S == Stream(K)
           t == [k \in 1 .. n |-> ByteToken(K[q], q, m[q] + k, x.nak)]
           m2 == [m EXCEPT ![q] = @ + n]
<1>1. /\ K \in Queued /\ Begins(b, S) /\ Fits(c) /\ m \in [1 .. Len(K) -> Nat]
      /\ p < Len(S) /\ \A r \in 1 .. Len(K) : m[r] = MovedAt(K, r, p)
      /\ Ready(c)
  BY DEF Sound
<1>2. PICK pe : Laid(K, p, c, pe) /\ Reached(K, pe)
  BY DEF Sound
<1>3. c \in Seq(Cmds) /\ c # <<>> /\ x \in Cmds /\ n \in Nat /\ x.op \in Moves /\ Size(x) = n
  <2>1. c \in Seq(Cmds) /\ c # <<>> /\ x \in Cmds
    BY <1>1 DEF Fits, Ready
  <2>2. n \in Nat
    BY <2>1 DEF Cmds
  <2> HIDE DEF x
  <2>3. QED BY <2>1, <2>2 DEF x, Size
<1>4. Place(K, x, p) /\ Laid(K, p + n, Tail(c), pe)
  BY <1>2, <1>3, LaidHead
<1>5. Fits(Tail(c)) /\ Ready(Tail(c))
  <2>1. Head(c).op \notin {"END", "STOP"}
    BY <1>3 DEF Moves
  <2>2. QED BY <1>1, <2>1, TailReady
<1>6. q \in 1 .. Len(K) /\ p \in Nat /\ b \in Seq(Tokens)
  BY <1>1, <1>4 DEF Place, Begins
<1>7. /\ o \in Nat /\ Off(K, q) \in Nat /\ l \in Nat /\ o + 1 + l <= Off(K, q) /\ o + 1 + l < Len(S)
      /\ Len(S) \in Nat /\ S \in Seq(Tokens)
  BY <1>1, <1>6, EntryEnds
<1>8. n > 0 => /\ o + 1 <= p /\ p + n <= o + 1 + l
               /\ \A k \in 1 .. n : S[p + k] = ByteToken(K[q], q, p + k - o - 1, x.nak)
  BY <1>3, <1>4 DEF Place
<1>9. m[q] \in Nat /\ (n > 0 => m[q] = p - o - 1)
  <2>1. m[q] = Clamp(p - o - 1, l) /\ m[q] \in Nat
    BY <1>1, <1>6 DEF MovedAt
  <2>2. n > 0 => ~(p - o - 1 < 0) /\ ~(p - o - 1 > l)
    <3> HIDE DEF n, p, o, l
    <3>1. QED BY <1>3, <1>6, <1>7, <1>8, SMTT(30)
  <2>3. QED BY <2>1, <2>2 DEF Clamp
<1>10. \A k \in 1 .. n : ByteToken(K[q], q, m[q] + k, x.nak) = S[p + k] /\ p + k \in 1 .. Len(S)
  <2> SUFFICES ASSUME NEW k \in 1 .. n
               PROVE  ByteToken(K[q], q, m[q] + k, x.nak) = S[p + k] /\ p + k \in 1 .. Len(S)
    OBVIOUS
  <2> HIDE DEF n, p, o, l, S, q, x
  <2>1. n > 0 /\ m[q] + k = p + k - o - 1 /\ p + k \in 1 .. Len(S)
    <3>1. n > 0
      BY <1>3
    <3>2. o + 1 <= p /\ p + n <= o + 1 + l /\ m[q] = p - o - 1
      BY <1>8, <1>9, <3>1
    <3>3. PICK M : M = m[q]
      OBVIOUS
    <3>4. M + k = p + k - o - 1 /\ p + k \in 1 .. Len(S)
      BY <1>3, <1>6, <1>7, <3>2, <3>3, SMTT(30)
    <3>5. QED BY <3>1, <3>3, <3>4
  <2>2. QED BY <1>8, <2>1
<1>11. t \in Seq(Tokens) /\ Len(t) = n /\ \A k \in 1 .. n : t[k] = S[p + k]
  <2> HIDE DEF n, p, S, q, x
  <2>1. \A k \in 1 .. n : S[p + k] \in Tokens
    BY <1>7, <1>10
  <2>2. t \in [1 .. n -> Tokens] /\ \A k \in 1 .. n : t[k] = S[p + k]
    BY <1>10, <2>1
  <2> HIDE DEF t
  <2>3. t \in Seq(Tokens) /\ DOMAIN t = 1 .. n
    BY <1>3, <2>2, SeqDef
  <2>4. Len(t) = n
    BY <1>3, <2>3
  <2>5. QED BY <2>2, <2>3, <2>4
<1>12. /\ m2 \in [1 .. Len(K) -> Nat] /\ m2[q] = m[q] + n
       /\ \A r \in 1 .. Len(K) : r # q => m2[r] = m[r]
  <2> HIDE DEF n, q
  <2>1. QED BY <1>1, <1>3, <1>6, <1>9
<1>13. p + n < Len(S)
  <2> HIDE DEF n, p, o, l, S
  <2>1. QED BY <1>1, <1>3, <1>6, <1>7, <1>8
<1> HIDE DEF t, m2
<1>14. \A r \in 1 .. Len(K) : m2[r] = MovedAt(K, r, p + n)
  <2>1. CASE n = 0
    <3>1. p + n = p /\ m[q] + n = m[q]
      <4> HIDE DEF n, p
      <4>1. QED BY <1>6, <1>9, <2>1
    <3>2. QED BY <1>1, <1>12, <3>1
  <2>2. CASE n # 0
    <3>1. n > 0 /\ o + 1 <= p /\ p + n <= o + 1 + l
      BY <1>3, <1>8, <2>2
    <3>2. m2[q] = MovedAt(K, q, p + n)
      <4>1. m2[q] = p + n - o - 1 /\ ~(p + n - o - 1 < 0) /\ ~(p + n - o - 1 > l)
        <5> HIDE DEF n, p, o, l
        <5>1. QED BY <1>3, <1>6, <1>7, <1>9, <1>12, <3>1
      <4>2. o = Off(K, q - 1) /\ l = queueLength(K[q])
        OBVIOUS
      <4> HIDE DEF n, p, o, l
      <4>3. PICK z \in Int : z = p + n
        BY <1>3, <1>6
      <4>4. o + 1 <= z /\ z <= o + 1 + l
        BY <1>3, <1>6, <1>7, <3>1, <4>3
      <4>5. MovedAt(K, q, z) = z - Off(K, q - 1) - 1
        <5>1. Off(K, q - 1) \in Int /\ queueLength(K[q]) \in Int
          BY <1>7, <4>2
        <5>2. Off(K, q - 1) + 1 <= z /\ z <= Off(K, q - 1) + 1 + queueLength(K[q])
          BY <4>2, <4>4
        <5>3. QED BY <5>1, <5>2, MovedInside
      <4>6. m2[q] = z - Off(K, q - 1) - 1
        BY <1>3, <1>6, <1>7, <4>1, <4>2, <4>3
      <4>7. QED BY <4>3, <4>5, <4>6
    <3>3. ASSUME NEW r \in 1 .. Len(K), r # q PROVE m2[r] = MovedAt(K, r, p + n)
      <4>1. /\ p + n \in Nat /\ o <= p /\ p <= Off(K, q) /\ o <= p + n /\ p + n <= Off(K, q)
        <5> HIDE DEF n, p, o, l
        <5>1. QED BY <1>3, <1>6, <1>7, <3>1
      <4>2. MovedAt(K, r, p) = MovedAt(K, r, p + n)
        BY <1>1, <1>6, <3>3, <4>1, MovedElsewhere
      <4>3. QED BY <1>1, <1>12, <3>3, <4>2
    <3>4. QED BY <3>2, <3>3
  <2>3. QED BY <2>1, <2>2
<1>15. Begins(b \o t, S) /\ Len(b \o t) = p + n /\ SubSeq(b \o t, 1, p) = b
  <2>1. Len(b) + Len(t) <= Len(S)
    BY <1>3, <1>6, <1>7, <1>11, <1>13
  <2>2. \A k \in 1 .. Len(t) : t[k] = S[Len(b) + k]
    BY <1>11
  <2>3. /\ Begins(b \o t, S) /\ Len(b \o t) = Len(b) + Len(t)
        /\ SubSeq(b \o t, 1, Len(b)) = b
    <3> HIDE DEF S
    <3>1. QED BY <1>1, <1>7, <1>11, <2>1, <2>2, BeginsJoin
  <2>4. QED BY <1>11, <2>3
<1>16. b \o t = b \/ Advances(K, b, b \o t)
  <2>1. CASE n = 0
    <3>1. t = <<>>
      BY <1>11, <2>1, EmptySeq
    <3>2. QED BY <1>6, <3>1, ConcatEmptySeq
  <2>2. CASE n # 0
    <3>1. Len(b \o t) > Len(b)
      <4> HIDE DEF n
      <4>1. QED BY <1>3, <1>6, <1>15, <2>2
    <3>2. QED BY <1>15, <3>1 DEF Advances
  <2>3. QED BY <2>1, <2>2
<1> DEFINE b2 == b \o t
<1>17. Len(b2) = p + n /\ Begins(b2, S)
  BY <1>15
<1> HIDE DEF b2
<1>18. Sound(K, Tail(c), m2, b2, "run")
  <2>1. Len(b2) < Len(S) /\ \A r \in 1 .. Len(K) : m2[r] = MovedAt(K, r, Len(b2))
    BY <1>13, <1>14, <1>17
  <2>2. Laid(K, Len(b2), Tail(c), pe)
    BY <1>4, <1>17
  <2> HIDE DEF n, p, o, l
  <2>3. QED BY <1>1, <1>2, <1>5, <1>12, <1>17, <2>1, <2>2 DEF Sound
<1>19. QED BY <1>16, <1>18 DEF t, m2, b2

(* One more token at the end of what crossed the bus *)
LEMMA BeginsMore ==
  ASSUME NEW s \in Seq(Tokens), NEW b, Begins(b, s), Len(b) < Len(s), NEW e, s[Len(b) + 1] = e
  PROVE  /\ Begins(Append(b, e), s) /\ Len(Append(b, e)) = Len(b) + 1
         /\ SubSeq(Append(b, e), 1, Len(b)) = b
<1>1. b \in Seq(Tokens) /\ Len(b) \in Nat /\ Len(s) \in Nat
  BY DEF Begins
<1>2. Len(b) + 1 \in 1 .. Len(s)
  BY <1>1
<1>3. e \in Tokens
  BY <1>2
<1>4. PICK t : t = <<e>>
  OBVIOUS
<1>5. t \in Seq(Tokens) /\ Len(t) = 1 /\ t[1] = e
  BY <1>3, <1>4
<1>6. Append(b, e) = b \o t
  BY <1>1, <1>3, <1>4, AppendIsConcat
<1>7. Len(b) + Len(t) <= Len(s) /\ \A k \in 1 .. Len(t) : t[k] = s[Len(b) + k]
  <2>1. \A k \in 1 .. Len(t) : k = 1
    BY <1>5
  <2>2. QED BY <1>1, <1>5, <2>1
<1>8. /\ Begins(b \o t, s) /\ Len(b \o t) = Len(b) + Len(t)
      /\ SubSeq(b \o t, 1, Len(b)) = b
  BY <1>5, <1>7, BeginsJoin
<1>9. QED BY <1>5, <1>6, <1>8

LEMMA StartKeeps ==
  ASSUME NEW K, NEW c, NEW m, NEW b, Sound(K, c, m, b, "run"), Head(c).op = "RSTART"
  PROVE  LET b2 == Append(b, Token("start", Head(c).q, 0))
         IN  Sound(K, Tail(c), m, b2, "run") /\ Advances(K, b, b2)
<1> DEFINE x == Head(c)
           q == x.q
           p == Len(b)
           o == Off(K, q - 1)
           l == queueLength(K[q])
           S == Stream(K)
           b2 == Append(b, Token("start", q, 0))
<1>1. /\ K \in Queued /\ Begins(b, S) /\ Fits(c) /\ m \in [1 .. Len(K) -> Nat]
      /\ p < Len(S) /\ \A r \in 1 .. Len(K) : m[r] = MovedAt(K, r, p)
      /\ Ready(c)
  BY DEF Sound
<1>2. PICK pe : Laid(K, p, c, pe) /\ Reached(K, pe)
  BY DEF Sound
<1>3. c \in Seq(Cmds) /\ c # <<>> /\ Size(x) = 1
  BY <1>1 DEF Fits, Ready, Size, Moves
<1>4. Place(K, x, p) /\ Laid(K, p + 1, Tail(c), pe)
  BY <1>2, <1>3, LaidHead
<1>5. Fits(Tail(c)) /\ Ready(Tail(c))
  BY <1>1, TailReady
<1>6. q \in 1 .. Len(K) /\ p = o /\ p \in Nat
  BY <1>1, <1>4 DEF Place, Begins
<1>7. /\ o \in Nat /\ Off(K, q) \in Nat /\ l \in Nat /\ o + 1 + l <= Off(K, q) /\ o + 1 + l < Len(S)
      /\ Len(S) \in Nat /\ S \in Seq(Tokens)
  BY <1>1, <1>6, EntryEnds
<1>8. S[p + 1] = Token("start", q, 0)
  <2>1. K \in Seq(Entries)
    BY <1>1 DEF Queued
  <2>2. QED BY <1>6, <2>1, Positions
<1>9. Begins(b2, S) /\ Len(b2) = p + 1 /\ SubSeq(b2, 1, p) = b
  BY <1>1, <1>7, <1>8, BeginsMore
<1> HIDE DEF b2
<1>10. p + 1 < Len(S) /\ p + 1 \in Nat
  <2> HIDE DEF p, o, l, S
  <2>1. QED BY <1>6, <1>7
<1>11. \A r \in 1 .. Len(K) : m[r] = MovedAt(K, r, p + 1)
  <2>1. MovedAt(K, q, p) = 0 /\ MovedAt(K, q, p + 1) = 0
    <3>1. PICK y \in Int, z \in Int : y = p /\ z = p + 1
      BY <1>6
    <3>2. y <= Off(K, q - 1) + 1 /\ z <= Off(K, q - 1) + 1
      <4> HIDE DEF p, o
      <4>1. o = Off(K, q - 1)
        BY DEF o
      <4>2. y <= o + 1 /\ z <= o + 1
        BY <1>6, <1>7, <3>1
      <4>3. QED BY <4>1, <4>2
    <3>3. MovedAt(K, q, y) = 0 /\ MovedAt(K, q, z) = 0
      BY <1>7, <3>2, MovedBefore
    <3>4. QED BY <3>1, <3>3
  <2>2. ASSUME NEW r \in 1 .. Len(K), r # q PROVE MovedAt(K, r, p) = MovedAt(K, r, p + 1)
    <3>1. o <= p /\ p <= Off(K, q) /\ o <= p + 1 /\ p + 1 <= Off(K, q)
      <4> HIDE DEF p, o, l
      <4>1. QED BY <1>6, <1>7
    <3>2. QED BY <1>1, <1>6, <1>10, <2>2, <3>1, MovedElsewhere
  <2>3. ASSUME NEW r \in 1 .. Len(K) PROVE m[r] = MovedAt(K, r, p + 1)
    <3>1. CASE r = q
      BY <1>1, <2>1, <3>1
    <3>2. CASE r # q
      BY <1>1, <2>2, <3>2
    <3>3. QED BY <3>1, <3>2
  <2>4. QED BY <2>3
<1>12. Sound(K, Tail(c), m, b2, "run")
  <2>1. Len(b2) < Len(S) /\ \A r \in 1 .. Len(K) : m[r] = MovedAt(K, r, Len(b2))
    BY <1>9, <1>10, <1>11
  <2>2. Laid(K, Len(b2), Tail(c), pe)
    BY <1>4, <1>9
  <2> HIDE DEF p, o, l
  <2>3. QED BY <1>1, <1>2, <1>5, <1>9, <2>1, <2>2 DEF Sound
<1>13. Advances(K, b, b2)
  <2>1. Len(b2) > Len(b)
    BY <1>6, <1>9
  <2>2. QED BY <1>9, <2>1 DEF Advances
<1>14. QED BY <1>12, <1>13 DEF b2

LEMMA StopKeeps ==
  ASSUME NEW K, NEW c, NEW m, NEW b, Sound(K, c, m, b, "run"), Head(c).op = "STOP"
  PROVE  LET b2 == Append(b, Token("stop", Head(c).q, 0))
         IN  Sound(K, c, m, b2, "done") /\ Advances(K, b, b2)
<1> DEFINE x == Head(c)
           q == x.q
           p == Len(b)
           o == Off(K, q - 1)
           l == queueLength(K[q])
           S == Stream(K)
           b2 == Append(b, Token("stop", q, 0))
<1>1. /\ K \in Queued /\ Begins(b, S) /\ Fits(c) /\ m \in [1 .. Len(K) -> Nat]
      /\ p < Len(S) /\ Ready(c)
  BY DEF Sound
<1>2. PICK pe : Laid(K, p, c, pe)
  BY DEF Sound
<1>3. c \in Seq(Cmds) /\ c # <<>>
  BY <1>1 DEF Fits, Ready
<1>4. Place(K, x, p)
  BY <1>2, <1>3, LaidHead
<1>5. q \in 1 .. Len(K) /\ p = o + 1 + l /\ p \in Nat /\ K[q].stop
  BY <1>1, <1>4 DEF Place, Begins
<1>6. /\ o \in Nat /\ l \in Nat /\ o + 1 + l + 1 = Len(S) /\ Len(S) \in Nat /\ S \in Seq(Tokens)
  BY <1>1, <1>5, EntryEnds
<1>7. S[p + 1] = Token("stop", q, 0)
  <2>1. K \in Seq(Entries)
    BY <1>1 DEF Queued
  <2>2. S[o + 2 + l] = Token("stop", q, 0)
    BY <1>5, <2>1, Positions
  <2>3. p + 1 = o + 2 + l
    <3> HIDE DEF p, o, l
    <3>1. QED BY <1>5, <1>6
  <2>4. QED BY <2>2, <2>3
<1>8. Begins(b2, S) /\ Len(b2) = p + 1 /\ SubSeq(b2, 1, p) = b
  BY <1>1, <1>6, <1>7, BeginsMore
<1> HIDE DEF b2
<1>9. Len(b2) = Len(S)
  <2> HIDE DEF p, o, l, S
  <2>1. QED BY <1>5, <1>6, <1>8
<1>10. Sound(K, c, m, b2, "done")
  <2> HIDE DEF p, o, l
  <2>1. QED BY <1>1, <1>8, <1>9 DEF Sound
<1>11. Advances(K, b, b2)
  <2>1. Len(b2) > Len(b)
    BY <1>5, <1>8
  <2>2. QED BY <1>8, <2>1 DEF Advances
<1>12. QED BY <1>10, <1>11 DEF b2

LEMMA EndKeeps ==
  ASSUME NEW K, NEW c, NEW m, NEW b, Sound(K, c, m, b, "run"), Head(c).op = "END"
  PROVE  Sound(K, c, m, b, "fill")
<1>1. PICK pe : Laid(K, Len(b), c, pe) /\ Reached(K, pe)
  BY DEF Sound
<1>2. Fits(c) /\ Ready(c) /\ c \in Seq(Cmds) /\ c # <<>> /\ Head(c) = c[1]
      /\ Len(c) \in Nat \ {0} /\ Len(b) \in Nat
  BY DEF Sound, Fits, Ready, Begins
<1>3. Len(c) = 1
  <2> SUFFICES ASSUME Len(c) # 1 PROVE FALSE
    OBVIOUS
  <2>1. 1 \in 1 .. Len(c) - 1
    <3>1. Len(c) \in Nat \ {0}
      BY <1>2
    <3>2. QED BY <3>1
  <2>2. c[1].op # "END"
    BY <1>2, <2>1 DEF Ready
  <2>3. QED BY <1>2, <2>2
<1>4. Tail(c) = <<>> /\ Size(Head(c)) = 0
  <2>1. Tail(c) \in Seq(Cmds) /\ Len(Tail(c)) = 0
    BY <1>2, <1>3
  <2>2. QED BY <2>1, EmptySeq DEF Size, Moves
<1>5. Laid(K, Len(b) + Size(Head(c)), Tail(c), pe)
  BY <1>1, <1>2, LaidHead
<1>6. Laid(K, Len(b), <<>>, pe)
  <2>1. Len(b) + Size(Head(c)) = Len(b)
    BY <1>2, <1>4
  <2>2. QED BY <1>4, <1>5, <2>1
<1>7. pe = Len(b)
  BY <1>6, LaidNone
<1>8. QED BY <1>1, <1>7 DEF Sound

LEMMA FillKeeps ==
  ASSUME NEW K, NEW c, NEW m, NEW b, Sound(K, c, m, b, "fill")
  PROVE  LET filled == FillCmdQueue(K, 1)
         IN  Sound(filled.dq, filled.cmd, m, b, "run") /\ Useful(filled.cmd)
<1> DEFINE p == Len(b)
           S == Stream(K)
<1>1. /\ K \in Queued /\ Begins(b, S) /\ m \in [1 .. Len(K) -> Nat] /\ p < Len(S) /\ p \in Nat
      /\ \A r \in 1 .. Len(K) : m[r] = MovedAt(K, r, p)
  BY DEF Sound, Begins
<1>2. PICK q : Held(K, K, q, p)
  BY DEF Sound, Reached
<1>3. K \in Seq(Entries) /\ S \in Seq(Tokens) /\ Len(S) = Off(K, Len(K)) /\ Len(S) \in Nat
  BY <1>1, StreamAt DEF Queued
<1>4. ~K[q].stopCmdSent
  <2> SUFFICES ASSUME K[q].stopCmdSent PROVE FALSE
    OBVIOUS
  <2>1. p = Off(K, Len(K))
    BY <1>2 DEF Held, EntryAt, Fresh, Underway
  <2>2. QED BY <1>1, <1>3, <2>1
<1>5. PICK d, t : d = FillCmdQueue(K, 1).dq /\ t = FillCmdQueue(K, 1).cmd
  OBVIOUS
<1>6. Refilled(K, p, d, t)
  <2>1. 1 \in Nat \ {0} /\ 1 <= q
    BY <1>1, <1>2, HeldEntry
  <2>2. QED BY <1>1, <1>2, <1>4, <1>5, <2>1, FillStep
<1>7. PICK q2, p2 : Held(K, d, q2, p2) /\ Laid(K, p, t, p2)
  BY <1>6 DEF Refilled
<1>8. Alike(K, d)
  BY <1>7 DEF Held
<1>9. d \in Queued /\ Len(d) = Len(K)
  BY <1>1, <1>8, AlikeQueued
<1>10. Reached(d, p2) /\ Laid(d, p, t, p2)
  BY <1>1, <1>7, <1>8, AlikeHeld, AlikeLikewise, LikewiseLaid DEF Reached
<1>11. Stream(d) = S
  BY <1>3, <1>8, AlikeStream
<1>12. ASSUME NEW r \in 1 .. Len(d) PROVE m[r] = MovedAt(d, r, p)
  <2>1. r \in 1 .. Len(K) /\ r - 1 \in 0 .. Len(K)
    BY <1>3, <1>9
  <2>2. Off(d, r - 1) = Off(K, r - 1) /\ queueLength(d[r]) = queueLength(K[r])
    BY <1>3, <1>8, <2>1, AlikeStream
  <2>3. m[r] = MovedAt(K, r, p)
    BY <1>1, <2>1
  <2>4. QED BY <2>2, <2>3 DEF MovedAt
<1>13. Fits(t) /\ Ready(t) /\ Useful(t)
  BY <1>6 DEF Refilled, Ended, Fits, Ready
<1>14. Sound(d, t, m, b, "run")
  BY <1>1, <1>9, <1>10, <1>11, <1>12, <1>13 DEF Sound
<1>15. QED BY <1>5, <1>13, <1>14

--------------------
(* The theorems.                                                           *)
LEMMA NewEntries ==
  ASSUME NEW stop \in BOOLEAN, NEW e \in Transfers(stop)
  PROVE  e \in Entries /\ e.stop = stop /\ Fresh(e)
<1>1. PICK md \in {0, 1}, r \in {1, 2}, n \in Lengths : e = NewEntry(md, r, n, stop)
  BY DEF Transfers
<1>2. n \in Nat /\ r \in Nat \ {0} /\ <<>> \in Seq(Tokens)
  BY <1>1, EmptySeq DEF Lengths
<1>3. e = [mode |-> md, addrReq |-> r, length |-> n, stop |-> stop,
           startCmdSent |-> No, addrCmdSent |-> No, stopCmdSent |-> No,
           cmdBytesNeeded |-> n, addrSent |-> 0, position |-> 0, data |-> <<>>]
  BY <1>1, Zenon DEF NewEntry, EntryWith, No
<1>4. e \in Entries
  BY <1>2, <1>3, YesNo DEF Entries
<1>5. /\ e.stop = stop /\ e.startCmdSent = No /\ e.addrCmdSent = No /\ e.stopCmdSent = No
      /\ e.cmdBytesNeeded = e.length
  BY <1>3
<1>6. Fresh(e)
  BY <1>5, YesNo DEF Fresh
<1>7. QED BY <1>4, <1>5, <1>6

LEMMA NewQueues ==
  ASSUME NEW K \in Queues
  PROVE  K \in Queued /\ \A q \in 1 .. Len(K) : Fresh(K[q])
<1> DEFINE T == UNION {Transfers(stop) : stop \in BOOLEAN}
<1>1. /\ \A q \in 1 .. Len(K) : K[q].stop <=> q = Len(K)
      /\ \E k \in 1 .. MaxEntries : K \in [1 .. k -> T]
  BY DEF Queues
<1>2. \A e \in T : e \in Entries /\ Fresh(e)
  BY NewEntries
<1> HIDE DEF T
<1>3. PICK k \in 1 .. MaxEntries : K \in [1 .. k -> T]
  BY <1>1
<1>4. K \in [1 .. k -> Entries] /\ \A q \in 1 .. k : Fresh(K[q])
  BY <1>2, <1>3
<1>5. k \in Nat /\ k # 0 /\ DOMAIN K = 1 .. k
  BY <1>3
<1>6. K \in Seq(Entries) /\ Len(K) = k
  <2>1. K \in Seq(Entries)
    BY <1>4, <1>5, SeqDef
  <2>2. QED BY <1>5, <2>1
<1>7. K # <<>>
  BY <1>5, <1>6
<1>8. QED BY <1>1, <1>4, <1>6, <1>7 DEF Queued

LEMMA InitRefill == RefillInit => RefillInv
<1> SUFFICES ASSUME RefillInit PROVE Sound(dq, <<>>, moved, <<>>, "fill")
  BY DEF RefillInit, RefillInv
<1> PICK K : K = dq
  OBVIOUS
<1>1. K \in Queued /\ \A q \in 1 .. Len(K) : Fresh(K[q])
  BY NewQueues DEF RefillInit
<1>2. K \in Seq(Entries) /\ K # <<>> /\ Len(K) \in Nat \ {0} /\ 1 \in 1 .. Len(K)
  BY <1>1 DEF Queued
<1>3. Off(K, 0) = 0
  BY <1>2, OffIs
<1>4. Held(K, K, 1, 0)
  <2>1. Alike(K, K)
    BY <1>2 DEF Alike, SameEntry
  <2>2. EntryAt(K, K[1], 1, 0)
    BY <1>1, <1>2, <1>3 DEF EntryAt
  <2>3. \A r \in 1 .. 1 - 1 : K[r].stopCmdSent
    OBVIOUS
  <2>4. \A r \in 1 + 1 .. Len(K) : r \in 1 .. Len(K)
    OBVIOUS
  <2>5. QED BY <1>1, <1>2, <2>1, <2>2, <2>3, <2>4 DEF Held
<1>5. Len(<<>>) = 0 /\ <<>> \in Seq(Tokens) /\ <<>> \in Seq(Cmds)
  BY EmptySeq
<1>6. 0 < Len(Stream(K)) /\ Len(Stream(K)) \in Nat
  <2>1. /\ Off(K, 1 - 1) \in Nat /\ queueLength(K[1]) \in Nat /\ Len(Stream(K)) \in Nat
        /\ Off(K, 1 - 1) + 1 + queueLength(K[1]) < Len(Stream(K))
    BY <1>1, <1>2, EntryEnds
  <2>2. QED BY <2>1
<1>7. Begins(<<>>, Stream(K))
  BY <1>5, <1>6 DEF Begins
<1>8. Fits(<<>>)
  BY <1>5, CommandAssumption DEF Fits, Followed
<1>9. moved = [q \in 1 .. Len(K) |-> 0]
  BY DEF RefillInit
<1>10. ASSUME NEW q \in 1 .. Len(K) PROVE moved[q] = MovedAt(K, q, 0)
  <2>1. Off(K, q - 1) \in Nat
    BY <1>1, EntryEnds
  <2>2. 0 - Off(K, q - 1) - 1 < 0
    BY <2>1
  <2>3. QED BY <1>9, <2>2 DEF MovedAt, Clamp
<1>11. Reached(K, 0)
  BY <1>4 DEF Reached
<1>12. moved \in [1 .. Len(K) -> Nat]
  BY <1>9
<1>13. Sound(K, <<>>, moved, <<>>, "fill")
  BY <1>1, <1>5, <1>6, <1>7, <1>8, <1>10, <1>11, <1>12 DEF Sound
<1>14. QED BY <1>13

(* Every step keeps the invariant; those that put something on the bus put *)
(* what comes next in the stream, and a refill's list does something       *)
LEMMA StepIs ==
  ASSUME RefillInv, [RefillNext]_refillVars
  PROVE  /\ RefillInv'
         /\ wire' = wire \/ (dq' = dq /\ Advances(dq, wire, wire'))
         /\ Fill => Useful(cmd')
<1>1. Sound(dq, cmd, moved, wire, phase)
  BY DEF RefillInv
<1>2. CASE Fill
  <2>1. Sound(FillCmdQueue(dq, 1).dq, FillCmdQueue(dq, 1).cmd, moved, wire, "run")
        /\ Useful(FillCmdQueue(dq, 1).cmd)
    BY <1>1, <1>2, FillKeeps DEF Fill
  <2>2. /\ dq' = FillCmdQueue(dq, 1).dq /\ cmd' = FillCmdQueue(dq, 1).cmd
        /\ moved' = moved /\ wire' = wire /\ phase' = "run"
    BY <1>2 DEF Fill
  <2>3. QED BY <2>1, <2>2 DEF RefillInv
<1>3. CASE Move
  <2> DEFINE x == Head(cmd)
             t == [k \in 1 .. x.n |-> ByteToken(dq[x.q], x.q, moved[x.q] + k, x.nak)]
  <2>1. phase = "run" /\ x.op \in Moves /\ ~Fill
    BY <1>3 DEF Move, Moves, Fill
  <2>2. /\ wire' = wire \o t /\ moved' = [moved EXCEPT ![x.q] = @ + x.n]
        /\ cmd' = Tail(cmd) /\ dq' = dq /\ phase' = "run"
    BY <1>3, <2>1 DEF Move
  <2>3. /\ Sound(dq, Tail(cmd), [moved EXCEPT ![x.q] = @ + x.n], wire \o t, "run")
        /\ wire \o t = wire \/ Advances(dq, wire, wire \o t)
    BY <1>1, <2>1, MoveKeeps
  <2> HIDE DEF t, x
  <2>4. QED BY <2>1, <2>2, <2>3 DEF RefillInv
<1>4. CASE Start
  <2> DEFINE b2 == Append(wire, Token("start", Head(cmd).q, 0))
  <2>1. phase = "run" /\ Head(cmd).op = "RSTART" /\ ~Fill
    BY <1>4 DEF Start, Fill
  <2>2. wire' = b2 /\ cmd' = Tail(cmd) /\ moved' = moved /\ dq' = dq /\ phase' = "run"
    BY <1>4, <2>1 DEF Start
  <2>3. Sound(dq, Tail(cmd), moved, b2, "run") /\ Advances(dq, wire, b2)
    BY <1>1, <2>1, StartKeeps
  <2> HIDE DEF b2
  <2>4. QED BY <2>1, <2>2, <2>3 DEF RefillInv
<1>5. CASE Stop
  <2> DEFINE b2 == Append(wire, Token("stop", Head(cmd).q, 0))
  <2>1. phase = "run" /\ Head(cmd).op = "STOP" /\ ~Fill
    BY <1>5 DEF Stop, Fill
  <2>2. wire' = b2 /\ cmd' = cmd /\ moved' = moved /\ dq' = dq /\ phase' = "done"
    BY <1>5 DEF Stop
  <2>3. Sound(dq, cmd, moved, b2, "done") /\ Advances(dq, wire, b2)
    BY <1>1, <2>1, StopKeeps
  <2> HIDE DEF b2
  <2>4. QED BY <2>1, <2>2, <2>3 DEF RefillInv
<1>6. CASE End
  <2>1. phase = "run" /\ Head(cmd).op = "END" /\ ~Fill
    BY <1>6 DEF End, Fill
  <2>2. wire' = wire /\ cmd' = cmd /\ moved' = moved /\ dq' = dq /\ phase' = "fill"
    BY <1>6 DEF End
  <2>3. Sound(dq, cmd, moved, wire, "fill")
    BY <1>1, <2>1, EndKeeps
  <2>4. QED BY <2>1, <2>2, <2>3 DEF RefillInv
<1>7. CASE Finished \/ UNCHANGED refillVars
  <2>1. wire' = wire /\ cmd' = cmd /\ moved' = moved /\ dq' = dq /\ phase' = phase
    BY <1>7 DEF Finished, refillVars
  <2>2. ~Fill
    BY <2>1 DEF Fill
  <2>3. QED BY <1>1, <2>1, <2>2 DEF RefillInv
<1>8. QED BY <1>2, <1>3, <1>4, <1>5, <1>6, <1>7 DEF RefillNext

LEMMA RefillInvariant == RefillSpec => []RefillInv
<1>1. RefillInv /\ [RefillNext]_refillVars => RefillInv'
  BY StepIs
<1>2. QED BY <1>1, InitRefill, PTL DEF RefillSpec

(* fillCmdQueue writes no list longer than the registers and no START just *)
(* before END, however its queue is cut into lists, and when the           *)
(* controller comes to STOP, all the transfers of the queue have crossed   *)
(* the bus and nothing else.                                               *)
THEOREM WholeQueueMoves == RefillSpec => []WholeQueue
<1>1. RefillInv => WholeQueue
  <2> SUFFICES ASSUME RefillInv PROVE ListFits /\ AllMoved
    BY DEF WholeQueue
  <2>1. /\ Sound(dq, cmd, moved, wire, phase) /\ Fits(cmd) /\ dq \in Queued
        /\ Begins(wire, Stream(dq)) /\ (phase = "done" => Len(wire) = Len(Stream(dq)))
    BY DEF RefillInv, Sound
  <2>2. ListFits
    <3>1. ASSUME NEW k \in 1 .. Len(cmd) - 1, cmd[k + 1].op = "END" PROVE cmd[k].op # "RSTART"
      BY <2>1, <3>1 DEF Fits, Followed
    <3>2. Len(cmd) <= LAST + 1
      BY <2>1 DEF Fits
    <3>3. QED BY <3>1, <3>2 DEF ListFits
  <2>3. AllMoved
    <3>1. Stream(dq) \in Seq(Tokens)
      BY <2>1, StreamAt DEF Queued
    <3>2. QED BY <2>1, <3>1, BeginsIs DEF AllMoved
  <2>4. QED BY <2>2, <2>3
<1>2. QED BY <1>1, RefillInvariant, PTL

(* The lists implement the promise of I2cBus: what a step puts on the bus  *)
(* is the next piece of the queue's stream, each byte once and in order;   *)
(* and every refill writes a command that moves the transaction on.        *)
THEOREM MovesGoOn == RefillSpec => MovesInOrder
<1>1. RefillInv /\ [RefillNext]_refillVars => [RefillWires!Transfer]_wire
  <2> SUFFICES ASSUME RefillInv, [RefillNext]_refillVars, wire' # wire PROVE RefillWires!Transfer
    OBVIOUS
  <2>1. dq' = dq /\ Advances(dq, wire, wire')
    BY StepIs
  <2>2. Len(wire') > Len(wire) /\ SubSeq(wire', 1, Len(wire)) = wire /\ Begins(wire', Stream(dq))
    BY <2>1 DEF Advances
  <2>3. Stream(dq) \in Seq(Tokens)
    BY StreamAt DEF RefillInv, Sound, Queued
  <2>4. Len(wire') <= Len(Stream(dq)) /\ SubSeq(Stream(dq), 1, Len(wire')) = wire'
    <3>1. PICK b2 : b2 = wire'
      OBVIOUS
    <3>2. Begins(b2, Stream(dq))
      BY <2>2, <3>1
    <3>3. Len(b2) <= Len(Stream(dq)) /\ SubSeq(Stream(dq), 1, Len(b2)) = b2
      BY <2>3, <3>2, BeginsIs DEF Begins
    <3>4. QED BY <3>1, <3>3
  <2>5. RefillWires!Stream(dq) = Stream(dq)
    BY DEF RefillWires!Stream, Stream, RefillWires!EntryStream, EntryStream, RefillWires!Token, Token
  <2>6. QED BY <2>2, <2>4, <2>5 DEF RefillWires!Transfer
<1>2. RefillInv /\ [RefillNext]_refillVars =>
        [Fill => \E k \in 1 .. Len(cmd') : cmd'[k].op \in {"RSTART", "STOP"} \/ cmd'[k].n > 0]_refillVars
  BY StepIs DEF Useful
<1>3. RefillSpec => InOrder
  BY <1>1, RefillInvariant, PTL DEF RefillSpec, InOrder
<1>4. RefillSpec => ListMoves
  BY <1>2, RefillInvariant, PTL DEF RefillSpec, ListMoves
<1>5. QED BY <1>3, <1>4 DEF MovesInOrder

--------------------
(* The driver at work.  The stream of the queue is again the measure: the  *)
(* counters, the FIFOs, the buffers and the command list each have a place *)
(* in it, and every step of the handler and the controller keeps the places*)
(* in their order.                                                         *)

--------------------
(* The bytes of a transaction, one by one.                                 *)

(* Where START of the q-th entry is; its bytes follow *)
First(K, q) == Off(K, q - 1) + 1

(* The j-th token is a byte of the q-th entry *)
In(K, q, j) == First(K, q) < j /\ j <= First(K, q) + queueLength(K[q])

ByteAt(K, j) == \E q \in 1 .. Len(K) : In(K, q, j)

(* The numbers there are, and that entries follow each other *)
LEMMA EntryPlace ==
  ASSUME NEW K \in Queued, NEW q \in 1 .. Len(K)
  PROVE  /\ First(K, q) \in Nat /\ First(K, q) > 0 /\ queueLength(K[q]) \in Nat /\ queueLength(K[q]) > 0
         /\ First(K, q) + queueLength(K[q]) < Len(Stream(K)) /\ Len(Stream(K)) \in Nat
         /\ Len(K) \in Nat /\ K[q] \in Entries
<1>1. /\ Off(K, q - 1) \in Nat /\ queueLength(K[q]) \in Nat /\ Len(Stream(K)) \in Nat
      /\ Off(K, q - 1) + 1 + queueLength(K[q]) < Len(Stream(K))
  BY EntryEnds
<1>2. Len(K) \in Nat /\ K[q] \in Entries
  BY DEF Queued
<1>3. queueLength(K[q]) > 0
  BY <1>2 DEF queueLength, Entries
<1>4. QED BY <1>1, <1>2, <1>3 DEF First

LEMMA EntryOrder ==
  ASSUME NEW K \in Queued, NEW q \in 1 .. Len(K), NEW r \in 1 .. Len(K), q < r
  PROVE  First(K, q) + queueLength(K[q]) < First(K, r)
<1>1. /\ Off(K, q - 1) \in Nat /\ Off(K, q) \in Nat /\ queueLength(K[q]) \in Nat
      /\ Off(K, q - 1) + 1 + queueLength(K[q]) <= Off(K, q) /\ Off(K, r - 1) \in Nat
  BY EntryEnds
<1>2. Off(K, q) <= Off(K, r - 1)
  <2>1. K \in Seq(Entries) /\ r - 1 \in 0 .. Len(K) /\ q \in 0 .. r - 1
    BY DEF Queued
  <2>2. QED BY <2>1, OffGrows
<1>3. QED BY <1>1, <1>2 DEF First

LEMMA InOne ==
  ASSUME NEW K \in Queued, NEW q \in 1 .. Len(K), NEW r \in 1 .. Len(K), NEW j \in Nat,
         In(K, q, j), In(K, r, j)
  PROVE  q = r
<1>1. /\ First(K, q) \in Nat /\ First(K, r) \in Nat
      /\ queueLength(K[q]) \in Nat /\ queueLength(K[r]) \in Nat
  BY EntryPlace
<1>2. ~(q < r)
  <2> SUFFICES ASSUME q < r PROVE FALSE
    OBVIOUS
  <2>1. First(K, q) + queueLength(K[q]) < First(K, r)
    BY EntryOrder
  <2>2. QED BY <1>1, <2>1 DEF In
<1>3. ~(r < q)
  <2> SUFFICES ASSUME r < q PROVE FALSE
    OBVIOUS
  <2>1. First(K, r) + queueLength(K[r]) < First(K, q)
    BY EntryOrder
  <2>2. QED BY <1>1, <2>1 DEF In
<1>4. QED BY <1>2, <1>3

LEMMA MovedType ==
  ASSUME NEW K \in Queued, NEW r \in 1 .. Len(K), NEW p \in Int
  PROVE  /\ MovedAt(K, r, p) \in Nat /\ MovedAt(K, r, p) <= queueLength(K[r])
         /\ MovedAt(K, r, p) = Clamp(p - First(K, r), queueLength(K[r]))
<1> PICK f, l : f = First(K, r) /\ l = queueLength(K[r])
  OBVIOUS
<1>1. f \in Nat /\ l \in Nat
  BY EntryPlace
<1>2. MovedAt(K, r, p) = Clamp(p - f, l)
  <2>1. Off(K, r - 1) \in Nat
    BY EntryEnds
  <2>2. p - Off(K, r - 1) - 1 = p - f
    BY <2>1 DEF First
  <2>3. QED BY <2>2 DEF MovedAt
<1>3. Clamp(p - f, l) \in Nat /\ Clamp(p - f, l) <= l
  BY <1>1 DEF Clamp
<1>4. QED BY <1>2, <1>3

(* One token on, one byte more of the entry that has it *)
LEMMA MovedStep ==
  ASSUME NEW K \in Queued, NEW r \in 1 .. Len(K), NEW p \in Nat
  PROVE  /\ In(K, r, p + 1) => /\ MovedAt(K, r, p) = p - First(K, r)
                               /\ MovedAt(K, r, p + 1) = p + 1 - First(K, r)
         /\ ~In(K, r, p + 1) => MovedAt(K, r, p + 1) = MovedAt(K, r, p)
<1> PICK f, l : f = First(K, r) /\ l = queueLength(K[r])
  OBVIOUS
<1>1. f \in Nat /\ l \in Nat
  BY EntryPlace
<1>2. In(K, r, p + 1) <=> f < p + 1 /\ p + 1 <= f + l
  BY DEF In
<1>3. MovedAt(K, r, p) = Clamp(p - f, l) /\ MovedAt(K, r, p + 1) = Clamp(p + 1 - f, l)
  <2>1. PICK b \in Int : b = p + 1
    OBVIOUS
  <2>2. MovedAt(K, r, b) = Clamp(b - f, l) /\ MovedAt(K, r, p) = Clamp(p - f, l)
    BY MovedType
  <2>3. b - f = p + 1 - f
    BY <1>1, <2>1
  <2>4. QED BY <2>1, <2>2, <2>3, Zenon
<1>4. f < p + 1 /\ p + 1 <= f + l => Clamp(p - f, l) = p - f /\ Clamp(p + 1 - f, l) = p + 1 - f
  BY <1>1 DEF Clamp
<1>5. ~(f < p + 1 /\ p + 1 <= f + l) => Clamp(p + 1 - f, l) = Clamp(p - f, l)
  BY <1>1 DEF Clamp
<1>6. QED BY <1>2, <1>3, <1>4, <1>5

(* An entry of which something moved comes after whole entries *)
LEMMA MovedOrder ==
  ASSUME NEW K \in Queued, NEW q \in 1 .. Len(K), NEW r \in 1 .. Len(K), q < r,
         NEW p \in Nat, First(K, r) <= p
  PROVE  MovedAt(K, q, p) = queueLength(K[q])
<1> PICK f, l : f = First(K, q) /\ l = queueLength(K[q])
  OBVIOUS
<1>1. f \in Nat /\ l \in Nat /\ First(K, r) \in Nat
  BY EntryPlace
<1>2. f + l < First(K, r)
  BY EntryOrder
<1>3. MovedAt(K, q, p) = Clamp(p - f, l)
  BY MovedType
<1>4. Clamp(p - f, l) = l
  BY <1>1, <1>2 DEF Clamp
<1>5. QED BY <1>3, <1>4

--------------------
(* What the handler's two counters say: with the tokens up to p, all of    *)
(* the entries before qp have moved, n bytes of it, none of those after.   *)
Counted(K, p, qp, n) ==
  /\ qp \in 1 .. Len(K)
  /\ \A r \in 1 .. Len(K) :
       MovedAt(K, r, p) = IF r < qp THEN queueLength(K[r]) ELSE IF r = qp THEN n ELSE 0

LEMMA CountedType ==
  ASSUME NEW K \in Queued, NEW p \in Int, NEW qp, NEW n, Counted(K, p, qp, n)
  PROVE  qp \in 1 .. Len(K) /\ n \in Nat /\ n <= queueLength(K[qp]) /\ n = MovedAt(K, qp, p)
<1>1. qp \in 1 .. Len(K) /\ MovedAt(K, qp, p) = n
  BY DEF Counted
<1>2. QED BY <1>1, MovedType

(* START and STOP do not count *)
LEMMA CountedSkip ==
  ASSUME NEW K \in Queued, NEW p \in Nat, NEW qp, NEW n, Counted(K, p, qp, n), ~ByteAt(K, p + 1)
  PROVE  Counted(K, p + 1, qp, n)
<1>1. \A r \in 1 .. Len(K) : MovedAt(K, r, p + 1) = MovedAt(K, r, p)
  BY MovedStep DEF ByteAt
<1>2. QED BY <1>1 DEF Counted

(* The first byte past an entry's is the next entry's *)
LEMMA CountedNext ==
  ASSUME NEW K \in Queued, NEW p \in Nat, NEW qp, NEW n, Counted(K, p, qp, n),
         NEW r \in 1 .. Len(K), In(K, r, p + 1)
  PROVE  \/ /\ r = qp /\ n + 1 <= queueLength(K[qp]) /\ n + 1 = p + 1 - First(K, r)
            /\ Counted(K, p + 1, qp, n + 1)
         \/ /\ r = qp + 1 /\ n = queueLength(K[qp]) /\ qp + 1 \in 1 .. Len(K) /\ 1 = p + 1 - First(K, r)
            /\ Counted(K, p + 1, qp + 1, 1)
<1> PICK f, l : f = First(K, r) /\ l = queueLength(K[r])
  OBVIOUS
<1>1. f \in Nat /\ l \in Nat /\ Len(K) \in Nat
  BY EntryPlace
<1>2. f < p + 1 /\ p + 1 <= f + l
  BY DEF In
<1>3. MovedAt(K, r, p) = p - f /\ MovedAt(K, r, p + 1) = p + 1 - f
  BY MovedStep
<1>4. \A x \in 1 .. Len(K) : x # r => MovedAt(K, x, p + 1) = MovedAt(K, x, p)
  <2> SUFFICES ASSUME NEW x \in 1 .. Len(K), x # r PROVE MovedAt(K, x, p + 1) = MovedAt(K, x, p)
    OBVIOUS
  <2>1. ~In(K, x, p + 1)
    BY InOne
  <2>2. QED BY <2>1, MovedStep
<1>5. /\ qp \in 1 .. Len(K) /\ n \in Nat
      /\ \A x \in 1 .. Len(K) :
           MovedAt(K, x, p) = IF x < qp THEN queueLength(K[x]) ELSE IF x = qp THEN n ELSE 0
  BY CountedType, SMTT(30) DEF Counted
<1>6. ~(r < qp)
  BY <1>1, <1>2, <1>3, <1>5
<1>7. CASE r = qp
  <2>1. n = p - f
    BY <1>3, <1>5, <1>7
  <2>2. n + 1 = p + 1 - f /\ n + 1 <= l
    BY <1>1, <1>2, <2>1
  <2>3. Counted(K, p + 1, qp, n + 1)
    BY <1>3, <1>4, <1>5, <1>7, <2>2 DEF Counted
  <2>4. QED BY <1>7, <2>2, <2>3
<1>8. CASE qp < r
  <2>1. First(K, r) <= p
    BY <1>1, <1>2
  <2>2. qp + 1 \in 1 .. Len(K)
    BY <1>1, <1>5, <1>8
  <2>3. r = qp + 1
    <3> SUFFICES ASSUME qp + 1 < r PROVE FALSE
      BY <1>1, <1>5, <1>8, <2>2
    <3>1. MovedAt(K, qp + 1, p) = queueLength(K[qp + 1])
      BY <2>1, <2>2, MovedOrder
    <3>2. queueLength(K[qp + 1]) > 0 /\ queueLength(K[qp + 1]) \in Nat
      BY <2>2, EntryPlace
    <3>3. MovedAt(K, qp + 1, p) = 0
      BY <1>5, <2>2
    <3>4. QED BY <3>1, <3>2, <3>3
  <2>4. n = queueLength(K[qp])
    BY <1>5, <1>8, <2>1, MovedOrder
  <2>5. p - f = 0
    BY <1>3, <1>5, <1>8
  <2>6. 1 = p + 1 - f
    BY <1>1, <2>5
  <2>7. ASSUME NEW x \in 1 .. Len(K)
        PROVE  MovedAt(K, x, p + 1)
                 = IF x < qp + 1 THEN queueLength(K[x]) ELSE IF x = qp + 1 THEN 1 ELSE 0
    <3>1. CASE x = r
      BY <1>3, <1>5, <2>3, <2>6, <3>1
    <3>2. CASE x # r
      <4>1. MovedAt(K, x, p + 1) = MovedAt(K, x, p)
        BY <1>4, <3>2
      <4>2. MovedAt(K, x, p) = IF x < qp THEN queueLength(K[x]) ELSE IF x = qp THEN n ELSE 0
        BY <1>5
      <4>3. x # qp + 1 /\ (x < qp + 1 <=> x < qp \/ x = qp)
        BY <1>5, <2>3, <3>2
      <4>4. QED BY <2>4, <4>1, <4>2, <4>3
    <3>3. QED BY <3>1, <3>2
  <2>8. Counted(K, p + 1, qp + 1, 1)
    BY <2>2, <2>7 DEF Counted
  <2>9. QED BY <2>2, <2>3, <2>4, <2>6, <2>8
<1>9. QED BY <1>1, <1>5, <1>6, <1>7, <1>8

--------------------
(* The list, executed one byte at a time.                                  *)

(* A list that the controller works on: right from p up to where the flags *)
(* of the queue say that it ends                                           *)
Running(K, d, c, p) ==
  /\ Fits(c) /\ Ready(c) /\ p < Len(Stream(K))
  /\ \E pe : Laid(K, p, c, pe) /\ Reached(d, pe)

(* The next command is right for the position *)
LEMMA RunningHead ==
  ASSUME NEW K \in Queued, NEW d, NEW c, NEW p \in Nat, NEW pe, Fits(c), Ready(c), Laid(K, p, c, pe)
  PROVE  /\ c \in Seq(Cmds) /\ c # <<>> /\ Head(c) \in Cmds /\ Head(c).q \in 1 .. Len(K)
         /\ Place(K, Head(c), p) /\ Laid(K, p + Size(Head(c)), Tail(c), pe)
         /\ Head(c).op \notin {"END", "STOP"} => Fits(Tail(c)) /\ Ready(Tail(c))
<1>1. c \in Seq(Cmds) /\ c # <<>> /\ Head(c) \in Cmds
  BY DEF Fits, Ready
<1>2. Place(K, Head(c), p) /\ Laid(K, p + Size(Head(c)), Tail(c), pe)
  BY <1>1, LaidHead
<1>3. Head(c).q \in 1 .. Len(K)
  BY <1>2 DEF Place
<1>4. Head(c).op \notin {"END", "STOP"} => Fits(Tail(c)) /\ Ready(Tail(c))
  BY TailReady
<1>5. QED BY <1>1, <1>2, <1>3, <1>4

(* A byte that is moved is the next of the stream *)
LEMMA PlaceByte ==
  ASSUME NEW K \in Queued, NEW c \in Cmds, NEW p \in Nat, Place(K, c, p), c.op \in Moves, c.n > 0
  PROVE  /\ c.q \in 1 .. Len(K) /\ In(K, c.q, p + 1) /\ p + 1 < Len(Stream(K))
         /\ Stream(K)[p + 1] = ByteToken(K[c.q], c.q, p + 1 - First(K, c.q), c.nak)
         /\ c.op = "WRITE" => p + 1 - First(K, c.q) <= OutLen(K[c.q])
         /\ c.op = "READ" => K[c.q].mode = 1 /\ K[c.q].addrReq < p + 1 - First(K, c.q)
<1> DEFINE q == c.q
<1> PICK o, l, n : o = Off(K, q - 1) /\ l = queueLength(K[q]) /\ n = c.n
  OBVIOUS
<1>1. q \in 1 .. Len(K)
  BY DEF Place
<1>2. /\ o + 1 <= p /\ p + n <= o + 1 + l
      /\ \A k \in 1 .. n : Stream(K)[p + k] = ByteToken(K[q], q, p + k - o - 1, c.nak)
  BY DEF Place
<1>3. n \in Nat /\ n > 0
  BY DEF Cmds
<1>4. /\ o \in Nat /\ l \in Nat /\ First(K, q) = o + 1 /\ o + 1 + l < Len(Stream(K))
      /\ Len(Stream(K)) \in Nat
  BY <1>1, EntryEnds DEF First
<1>5. In(K, q, p + 1)
  BY <1>2, <1>3, <1>4 DEF In
<1>6. p + 1 < Len(Stream(K))
  BY <1>2, <1>3, <1>4
<1>7. Stream(K)[p + 1] = ByteToken(K[q], q, p + 1 - First(K, q), c.nak)
  <2>1. 1 \in 1 .. n
    BY <1>3
  <2>2. Stream(K)[p + 1] = ByteToken(K[q], q, p + 1 - o - 1, c.nak)
    BY <1>2, <2>1
  <2>3. p + 1 - o - 1 = p + 1 - First(K, q)
    BY <1>4
  <2>4. QED BY <2>2, <2>3
<1>8. /\ c.op = "WRITE" => p + 1 - First(K, q) <= OutLen(K[q])
      /\ c.op = "READ" => K[q].mode = 1 /\ K[q].addrReq < p + 1 - First(K, q)
  <2>1. Carries(K[q], c.op, p - o - 1, n)
    BY DEF Place
  <2>2. PICK i \in Nat : i = p - o - 1
    BY <1>2, <1>4
  <2>3. p + 1 - First(K, q) = i + 1
    BY <1>4, <2>2
  <2>4. PICK f \in Entries : f = K[q]
    BY <1>1, EntryPlace
  <2>5. PICK h \in Nat, a \in Nat : h = OutLen(f) /\ a = f.addrReq
    BY DEF OutLen, Entries
  <2>6. /\ c.op = "WRITE" => i + n <= h
        /\ c.op = "READ" => f.mode = 1 /\ a <= i
    BY <2>1, <2>2, <2>4, <2>5 DEF Carries
  <2>7. /\ c.op = "WRITE" => i + 1 <= h
        /\ c.op = "READ" => f.mode = 1 /\ a < i + 1
    BY <1>3, <2>6
  <2>8. QED BY <2>3, <2>4, <2>5, <2>7
<1>9. QED BY <1>1, <1>5, <1>6, <1>7, <1>8

(* What is left of a command that moved a byte *)
LEMMA PlaceLess ==
  ASSUME NEW K \in Queued, NEW c \in Cmds, NEW x \in Cmds, NEW p \in Nat, Place(K, c, p),
         c.op \in Moves, c.n > 0, x.op = c.op, x.n = c.n - 1, x.q = c.q, x.nak = c.nak
  PROVE  Place(K, x, p + 1)
<1> DEFINE q == c.q
<1> PICK o, l, n : o = Off(K, q - 1) /\ l = queueLength(K[q]) /\ n = c.n
  OBVIOUS
<1>1. q \in 1 .. Len(K)
  BY DEF Place
<1>2. /\ o + 1 <= p /\ p + n <= o + 1 + l
      /\ \A k \in 1 .. n : Stream(K)[p + k] = ByteToken(K[q], q, p + k - o - 1, c.nak)
  BY DEF Place
<1>3. n \in Nat /\ n > 0 /\ o \in Nat /\ l \in Nat
  BY <1>1, EntryEnds DEF Cmds
<1>4. o + 1 <= p + 1 /\ p + 1 + (n - 1) <= o + 1 + l
  BY <1>2, <1>3
<1>5. ASSUME NEW k \in 1 .. n - 1
      PROVE  Stream(K)[p + 1 + k] = ByteToken(K[q], q, p + 1 + k - o - 1, c.nak)
  <2>1. PICK j : j = k + 1
    OBVIOUS
  <2>2. j \in 1 .. n /\ p + j = p + 1 + k
    BY <1>3, <2>1
  <2>3. Stream(K)[p + j] = ByteToken(K[q], q, p + j - o - 1, c.nak)
    BY <1>2, <2>2
  <2>4. p + j - o - 1 = p + 1 + k - o - 1
    BY <1>3, <2>2
  <2> HIDE DEF q
  <2>5. QED BY <2>2, <2>3, <2>4, Zenon
<1>6. x.op # "RSTART" /\ x.op # "STOP"
  BY DEF Moves
<1>7. Carries(K[q], c.op, p + 1 - o - 1, n - 1)
  <2>1. Carries(K[q], c.op, p - o - 1, n)
    BY DEF Place
  <2>2. PICK i \in Nat, h \in Nat : i = p - o - 1 /\ h = OutLen(K[q])
    <3>1. p - o - 1 \in Nat
      BY <1>2, <1>3
    <3>2. PICK f \in Entries : f = K[q]
      BY <1>1, EntryPlace
    <3>3. OutLen(f) \in Nat
      BY DEF OutLen, Entries
    <3>4. QED BY <3>1, <3>2, <3>3
  <2>3. p + 1 - o - 1 = i + 1
    BY <1>3, <2>2
  <2>4. PICK a : a = K[q].addrReq /\ a \in Nat
    BY <1>1, EntryPlace DEF Entries
  <2>5. /\ c.op = "WRITE" => i + 1 + (n - 1) <= h
        /\ c.op = "READ" => K[q].mode = 1 /\ a <= i + 1
    BY <1>3, <2>1, <2>2, <2>4 DEF Carries
  <2>6. QED BY <2>2, <2>3, <2>4, <2>5 DEF Carries
<1>8. PICK pp, nn : pp = p + 1 /\ nn = n - 1
  OBVIOUS
<1>9. /\ x.q \in 1 .. Len(K) /\ o = Off(K, x.q - 1) /\ l = queueLength(K[x.q]) /\ K[x.q] = K[q]
      /\ x.n = nn /\ x.op \in Moves
  BY <1>1, <1>8
<1>10. /\ o + 1 <= pp /\ pp + x.n <= o + 1 + l
  BY <1>4, <1>8, <1>9
<1>11. Carries(K[x.q], x.op, pp - o - 1, x.n)
  <2>1. pp - o - 1 = p + 1 - o - 1 /\ x.n = n - 1 /\ x.op = c.op
    BY <1>3, <1>8
  <2> HIDE DEF q
  <2>2. Carries(K[q], x.op, pp - o - 1, x.n)
    BY <1>7, <2>1
  <2>3. QED BY <1>9, <2>2
<1>12. \A k \in 1 .. x.n :
         Stream(K)[pp + k] = ByteToken(K[x.q], x.q, pp + k - o - 1, x.nak)
  BY <1>5, <1>8, <1>9
<1>13. Place(K, x, pp)
  <2> HIDE DEF q
  <2>1. QED BY <1>6, <1>9, <1>10, <1>11, <1>12 DEF Place
<1>14. QED BY <1>8, <1>13

LEMMA LaidLess ==
  ASSUME NEW K \in Queued, NEW c, NEW p \in Nat, NEW pe, Fits(c), Ready(c), Laid(K, p, c, pe),
         Head(c).op \in Moves, Head(c).n > 0
  PROVE  Fits(OneLess(c)) /\ Ready(OneLess(c)) /\ Laid(K, p + 1, OneLess(c), pe)
<1>1. /\ c \in Seq(Cmds) /\ c # <<>> /\ Head(c) \in Cmds /\ c[1] = Head(c)
      /\ Place(K, Head(c), p) /\ Laid(K, p + Size(Head(c)), Tail(c), pe)
  BY RunningHead
<1>2. Head(c).n \in Nat
  BY <1>1 DEF Cmds
<1>3. CASE ~(Head(c).n > 1)
  <2>1. Size(Head(c)) = 1 /\ OneLess(c) = Tail(c)
    BY <1>1, <1>2, <1>3 DEF Size, OneLess
  <2>2. Head(c).op \notin {"END", "STOP"}
    BY DEF Moves
  <2>3. QED BY <1>1, <2>1, <2>2, TailReady
<1>4. CASE Head(c).n > 1
  <2>1. PICK x : x = [c[1] EXCEPT !.n = c[1].n - 1]
    OBVIOUS
  <2>2. /\ x \in Cmds /\ x.op = c[1].op /\ x.n = c[1].n - 1 /\ x.q = c[1].q /\ x.nak = c[1].nak
    <3>1. PICK n : n = c[1].n - 1
      OBVIOUS
    <3>2. n \in Nat
      BY <1>1, <1>2, <1>4, <3>1
    <3>3. x = [c[1] EXCEPT !.n = n] /\ c[1] \in Cmds
      BY <1>1, <2>1, <3>1
    <3>4. QED BY <3>1, <3>2, <3>3 DEF Cmds
  <2>3. PICK w : w = OneLess(c)
    OBVIOUS
  <2>4. w = [c EXCEPT ![1] = x]
    BY <1>1, <1>4, <2>1, <2>3 DEF OneLess
  <2>5. /\ w \in Seq(Cmds) /\ Len(w) = Len(c) /\ w # <<>> /\ w[1] = x
        /\ \A k \in 1 .. Len(c) : k # 1 => w[k] = c[k]
    BY <1>1, <2>2, <2>4
  <2>6. \A k \in 1 .. Len(c) : w[k].op = c[k].op
    BY <2>2, <2>5
  <2>7. Len(c) \in Nat \ {0}
    BY <1>1
  <2>8. Fits(w)
    <3>1. \A k \in 1 .. Len(c) - 1 : c[k].op = "RSTART" => c[k + 1].op = "WRITE"
      BY DEF Fits, Followed
    <3>2. \A k \in 1 .. Len(c) - 1 : k \in 1 .. Len(c) /\ k + 1 \in 1 .. Len(c)
      BY <2>7
    <3>3. Followed(w)
      BY <2>5, <2>6, <3>1, <3>2 DEF Followed
    <3>4. QED BY <2>5, <3>3 DEF Fits
  <2>9. Ready(w)
    <3>1. Len(c) \in 1 .. Len(c) /\ \A k \in 1 .. Len(c) - 1 : k \in 1 .. Len(c)
      BY <2>7
    <3>2. QED BY <2>5, <2>6, <3>1 DEF Ready
  <2>10. Laid(K, p + 1, w, pe)
    <3>1. PICK l \in [0 .. Len(c) -> Nat] : l[0] = p /\ l[Len(c)] = pe /\ Along(K, c, l)
      BY DEF Laid
    <3>2. PICK m : m = [l EXCEPT ![0] = p + 1]
      OBVIOUS
    <3>3. /\ m \in [0 .. Len(w) -> Nat] /\ m[0] = p + 1 /\ \A i \in 1 .. Len(c) : m[i] = l[i]
          /\ m[Len(w)] = pe
      BY <2>5, <2>7, <3>1, <3>2
    <3>4. l[1] = p + c[1].n
      <4>1. 1 \in 1 .. Len(c)
        BY <2>7
      <4>2. l[1] = l[0] + Size(c[1])
        BY <3>1, <4>1 DEF Along
      <4>3. Size(c[1]) = c[1].n
        BY <1>1 DEF Size
      <4>4. QED BY <3>1, <4>2, <4>3
    <3>5. ASSUME NEW i \in 1 .. Len(c) PROVE m[i] = m[i - 1] + Size(w[i]) /\ Place(K, w[i], m[i - 1])
      <4>1. CASE i = 1
        <5>1. Place(K, x, p + 1)
          BY <1>1, <2>2, PlaceLess
        <5>2. Size(w[1]) = c[1].n - 1
          BY <1>1, <2>2, <2>5 DEF Size
        <5>3. m[1] = p + c[1].n
          BY <3>3, <3>4, <4>1
        <5>4. p + c[1].n = p + 1 + (c[1].n - 1)
          <6>1. c[1].n \in Nat
            BY <1>1, <1>2
          <6>2. PICK n : n = c[1].n
            OBVIOUS
          <6>3. p + n = p + 1 + (n - 1)
            BY <6>1, <6>2
          <6>4. QED BY <6>2, <6>3
        <5>5. QED BY <2>5, <3>3, <4>1, <5>1, <5>2, <5>3, <5>4
      <4>2. CASE i # 1
        <5>1. i - 1 \in 1 .. Len(c)
          BY <2>7, <4>2
        <5>2. l[i] = l[i - 1] + Size(c[i]) /\ Place(K, c[i], l[i - 1])
          BY <3>1 DEF Along
        <5>3. m[i] = l[i] /\ m[i - 1] = l[i - 1] /\ w[i] = c[i]
          BY <2>5, <3>3, <4>2, <5>1
        <5>4. QED BY <5>2, <5>3
      <4>3. QED BY <4>1, <4>2
    <3>6. Along(K, w, m)
      BY <2>5, <3>5 DEF Along
    <3>7. QED BY <3>3, <3>6 DEF Laid
  <2>11. QED BY <2>3, <2>8, <2>9, <2>10
<1>5. QED BY <1>3, <1>4

(* START and STOP are where the commands are *)
LEMMA PlaceStart ==
  ASSUME NEW K \in Queued, NEW c, NEW p \in Nat, Place(K, c, p), c.op = "RSTART"
  PROVE  /\ Stream(K)[p + 1] = Token("start", c.q, 0) /\ ~ByteAt(K, p + 1) /\ p + 1 < Len(Stream(K))
         /\ c.q \in 1 .. Len(K) /\ p + 1 = First(K, c.q)
<1>1. c.q \in 1 .. Len(K) /\ p = Off(K, c.q - 1) /\ K \in Seq(Entries)
  BY DEF Place, Queued
<1>2. Stream(K)[p + 1] = Token("start", c.q, 0)
  BY <1>1, Positions
<1>3. p + 1 = First(K, c.q)
  BY <1>1 DEF First
<1>4. ~ByteAt(K, p + 1)
  <2> SUFFICES ASSUME NEW r \in 1 .. Len(K), In(K, r, p + 1) PROVE FALSE
    BY DEF ByteAt
  <2>1. /\ First(K, r) \in Nat /\ queueLength(K[r]) \in Nat /\ First(K, c.q) \in Nat
        /\ Len(K) \in Nat /\ queueLength(K[c.q]) \in Nat
    BY <1>1, EntryPlace
  <2>2. First(K, r) < First(K, c.q) /\ First(K, c.q) <= First(K, r) + queueLength(K[r])
    BY <1>3 DEF In
  <2>3. ~(r < c.q)
    <3> SUFFICES ASSUME r < c.q PROVE FALSE
      OBVIOUS
    <3>1. First(K, r) + queueLength(K[r]) < First(K, c.q)
      BY <1>1, EntryOrder
    <3>2. QED BY <2>1, <2>2, <3>1
  <2>4. ~(c.q < r)
    <3> SUFFICES ASSUME c.q < r PROVE FALSE
      OBVIOUS
    <3>1. First(K, c.q) + queueLength(K[c.q]) < First(K, r)
      BY <1>1, EntryOrder
    <3>2. QED BY <2>1, <2>2, <3>1
  <2>5. r = c.q
    BY <1>1, <2>1, <2>3, <2>4
  <2>6. QED BY <2>1, <2>2, <2>5
<1>5. p + 1 < Len(Stream(K))
  <2>1. /\ First(K, c.q) \in Nat /\ queueLength(K[c.q]) \in Nat /\ Len(Stream(K)) \in Nat
        /\ First(K, c.q) + queueLength(K[c.q]) < Len(Stream(K))
    BY <1>1, EntryPlace
  <2>2. QED BY <1>3, <2>1
<1>6. QED BY <1>1, <1>2, <1>3, <1>4, <1>5

LEMMA PlaceStop ==
  ASSUME NEW K \in Queued, NEW c, NEW p \in Nat, Place(K, c, p), c.op = "STOP"
  PROVE  /\ Stream(K)[p + 1] = Token("stop", c.q, 0) /\ ~ByteAt(K, p + 1) /\ p + 1 = Len(Stream(K))
<1>1. /\ c.q \in 1 .. Len(K) /\ K[c.q].stop /\ p = Off(K, c.q - 1) + 1 + queueLength(K[c.q])
      /\ K \in Seq(Entries)
  BY DEF Place, Queued
<1>2. p + 1 = Len(Stream(K)) /\ Off(K, c.q - 1) \in Nat /\ queueLength(K[c.q]) \in Nat
  BY <1>1, EntryEnds
<1>3. Stream(K)[Off(K, c.q - 1) + 2 + queueLength(K[c.q])] = Token("stop", c.q, 0)
  BY <1>1, Positions
<1>4. Off(K, c.q - 1) + 2 + queueLength(K[c.q]) = p + 1
  BY <1>1, <1>2
<1>5. ~ByteAt(K, p + 1)
  <2> SUFFICES ASSUME NEW r \in 1 .. Len(K), In(K, r, p + 1) PROVE FALSE
    BY DEF ByteAt
  <2>1. /\ First(K, r) \in Nat /\ queueLength(K[r]) \in Nat /\ Len(Stream(K)) \in Nat
        /\ First(K, r) + queueLength(K[r]) < Len(Stream(K))
    BY EntryPlace
  <2>2. QED BY <1>2, <2>1 DEF In
<1>6. QED BY <1>2, <1>3, <1>4, <1>5

(* The first list begins with START: nothing else is right at the start *)
LEMMA FirstIsStart ==
  ASSUME NEW K \in Queued, NEW c, NEW pe, Ended(c), Laid(K, 0, c, pe)
  PROVE  c # <<>> /\ c[1].op = "RSTART"
<1>1. c \in Seq(Cmds) /\ c # <<>> /\ c[1] = Head(c) /\ Head(c) \in Cmds
  BY DEF Ended
<1>2. Place(K, c[1], 0)
  BY <1>1, LaidHead
<1>3. c[1].q \in 1 .. Len(K) /\ c[1].op \in {"RSTART", "READ", "WRITE", "STOP", "END"}
  BY <1>1, <1>2 DEF Place, Cmds
<1>4. Off(K, c[1].q - 1) \in Nat /\ queueLength(K[c[1].q]) \in Nat
  BY <1>3, EntryEnds
<1>5. c[1].op \notin Moves
  <2> SUFFICES ASSUME c[1].op \in Moves PROVE FALSE
    OBVIOUS
  <2>1. Off(K, c[1].q - 1) + 1 <= 0
    BY <1>2 DEF Place
  <2>2. QED BY <1>4, <2>1
<1>6. c[1].op # "STOP"
  <2> SUFFICES ASSUME c[1].op = "STOP" PROVE FALSE
    OBVIOUS
  <2>1. 0 = Off(K, c[1].q - 1) + 1 + queueLength(K[c[1].q])
    BY <1>2 DEF Place
  <2>2. QED BY <1>4, <2>1
<1>7. c[1].op # "END"
  <2> SUFFICES ASSUME c[1].op = "END" PROVE FALSE
    OBVIOUS
  <2>1. Len(c) \in Nat \ {0} /\ \A k \in 1 .. Len(c) - 1 : c[k].op # "END"
    BY <1>1 DEF Ended
  <2>2. Len(c) = 1
    <3> SUFFICES ASSUME Len(c) # 1 PROVE FALSE
      OBVIOUS
    <3>1. PICK n : n = Len(c)
      OBVIOUS
    <3>2. n \in Nat \ {0} /\ n # 1
      BY <2>1, <3>1
    <3>3. 1 \in 1 .. n - 1
      BY <3>2
    <3>4. QED BY <2>1, <3>1, <3>3
  <2>3. PICK k \in 1 .. Len(c) :
          c[k].op \in {"RSTART", "STOP"} \/ (c[k].op \in Moves /\ c[k].n > 0)
    BY DEF Ended, Useful
  <2>4. k = 1
    BY <2>2, <2>3
  <2>5. QED BY <2>3, <2>4 DEF Moves
<1>8. QED BY <1>1, <1>3, <1>5, <1>6, <1>7 DEF Moves

--------------------
(* What the transmit FIFO holds: the bytes that the driver sends, from the *)
(* next one on the bus to the last that fillTxFifo has put in.             *)

(* The j-th token is a byte that the driver sends *)
OutOf(K, q, j) == First(K, q) < j /\ j <= First(K, q) + OutLen(K[q])

OutAt(K, j) == \E q \in 1 .. Len(K) : OutOf(K, q, j)

(* Bytes of an entry that were put in the FIFO *)
Given(e) ==
  IF e.addrSent < e.addrReq THEN e.addrSent
  ELSE e.addrReq + (IF e.mode = 0 THEN e.position ELSE 0)

InOrderGiven(e) ==
  /\ e.addrSent <= e.addrReq /\ e.position <= e.length
  /\ e.mode = 0 /\ e.addrSent < e.addrReq => e.position = 0

(* All that is sent up to the L-th token was put in the FIFO, no more *)
Supplied(K, d, L) ==
  \A q \in 1 .. Len(K) :
    InOrderGiven(d[q]) /\ Given(d[q]) = Clamp(L - First(K, q), OutLen(K[q]))

(* No byte that the driver sends is after the a-th token and before the b-th *)
Gap(K, a, b) == \A j \in Nat : a < j /\ j < b => ~OutAt(K, j)

(* The FIFO holds the bytes sent after the p-th token up to the L-th *)
Feeds(K, p, L, t) ==
  \E g \in [0 .. Len(t) -> Nat] :
    /\ g[0] = p /\ g[Len(t)] <= L /\ Gap(K, g[Len(t)], L + 1)
    /\ \A i \in 1 .. Len(t) :
         /\ p < g[i] /\ g[i - 1] < g[i] /\ g[i] <= L /\ Gap(K, g[i - 1], g[i])
         /\ OutAt(K, g[i]) /\ t[i] = Stream(K)[g[i]]

LEMMA OutPlace ==
  ASSUME NEW K \in Queued, NEW q \in 1 .. Len(K)
  PROVE  OutLen(K[q]) \in Nat /\ OutLen(K[q]) > 0 /\ OutLen(K[q]) <= queueLength(K[q])
<1>1. K[q] \in Entries
  BY EntryPlace
<1>2. PICK e \in Entries : e = K[q]
  BY <1>1
<1>3. OutLen(e) \in Nat /\ OutLen(e) > 0 /\ OutLen(e) <= queueLength(e)
  BY DEF OutLen, queueLength, Entries
<1>4. QED BY <1>2, <1>3

LEMMA OutIn ==
  ASSUME NEW K \in Queued, NEW q \in 1 .. Len(K), NEW j \in Nat, OutOf(K, q, j)
  PROVE  In(K, q, j)
<1> PICK f, l, h : f = First(K, q) /\ l = queueLength(K[q]) /\ h = OutLen(K[q])
  OBVIOUS
<1>1. f \in Nat /\ l \in Nat /\ h \in Nat /\ h <= l
  BY EntryPlace, OutPlace
<1>2. QED BY <1>1 DEF OutOf, In

(* Of an entry, what is left to be put in the FIFO *)
LEMMA GivenType ==
  ASSUME NEW e \in Entries, InOrderGiven(e)
  PROVE  /\ Given(e) \in Nat /\ Given(e) <= OutLen(e) /\ OutLen(e) \in Nat
         /\ Unloaded(e) <=> Given(e) < OutLen(e)
<1> PICK a, s, l, n, m : /\ a = e.addrReq /\ s = e.addrSent /\ l = e.length /\ n = e.position
                         /\ m = e.mode
  OBVIOUS
<1>1. a \in Nat /\ s \in Nat /\ l \in Nat /\ n \in Nat /\ m \in {0, 1}
  BY DEF Entries
<1>2. s <= a /\ n <= l /\ (m = 0 /\ s < a => n = 0)
  BY DEF InOrderGiven
<1>3. Given(e) = IF s < a THEN s ELSE a + (IF m = 0 THEN n ELSE 0)
  BY DEF Given
<1>4. OutLen(e) = a + (IF m = 0 THEN l ELSE 0)
  BY DEF OutLen
<1>5. Unloaded(e) <=> s < a \/ (m = 0 /\ n < l)
  BY DEF Unloaded
<1>6. QED BY <1>1, <1>2, <1>3, <1>4, <1>5

--------------------
(* START and STOP pass the FIFO by *)
LEMMA FeedsSkip ==
  ASSUME NEW K \in Queued, NEW p \in Nat, NEW L \in Nat, p <= L, NEW t \in Seq(Tokens),
         Feeds(K, p, L, t), ~OutAt(K, p + 1)
  PROVE  Feeds(K, p + 1, IF L = p THEN p + 1 ELSE L, t)
<1>1. PICK g \in [0 .. Len(t) -> Nat] :
        /\ g[0] = p /\ g[Len(t)] <= L /\ Gap(K, g[Len(t)], L + 1)
        /\ \A i \in 1 .. Len(t) :
             /\ p < g[i] /\ g[i - 1] < g[i] /\ g[i] <= L /\ Gap(K, g[i - 1], g[i])
             /\ OutAt(K, g[i]) /\ t[i] = Stream(K)[g[i]]
  BY DEF Feeds
<1>2. PICK n \in Nat : n = Len(t)
  OBVIOUS
<1>3. PICK M \in Nat : M = IF L = p THEN p + 1 ELSE L
  OBVIOUS
<1>4. M >= p + 1 /\ M >= L
  BY <1>3
<1>5. ASSUME NEW i \in 1 .. n PROVE g[i] > p + 1 /\ g[i] \in Nat
  <2>1. g[i] > p /\ g[i] \in Nat /\ OutAt(K, g[i])
    BY <1>1, <1>2
  <2>2. g[i] # p + 1
    BY <2>1
  <2>3. QED BY <2>1, <2>2
<1>6. PICK h : h = [g EXCEPT ![0] = p + 1]
  OBVIOUS
<1>7. h \in [0 .. n -> Nat] /\ h[0] = p + 1 /\ \A i \in 1 .. n : h[i] = g[i]
  BY <1>1, <1>2, <1>6
<1>8. Gap(K, h[n], M + 1) /\ h[n] <= M
  <2>1. CASE n = 0
    <3>1. g[n] = p /\ h[n] = p + 1
      BY <1>1, <1>7, <2>1
    <3>2. ASSUME NEW j \in Nat, p + 1 < j, j < M + 1 PROVE ~OutAt(K, j)
      <4>1. L # p
        BY <1>3, <3>2
      <4>2. p < j /\ j < L + 1
        BY <1>3, <3>2, <4>1
      <4>3. QED BY <1>1, <1>2, <3>1, <4>2 DEF Gap
    <3>3. QED BY <1>4, <3>1, <3>2 DEF Gap
  <2>2. CASE n # 0
    <3>1. n \in 1 .. n
      BY <2>2
    <3>2. h[n] = g[n] /\ g[n] > p + 1 /\ g[n] <= L /\ g[n] \in Nat
      BY <1>1, <1>2, <1>5, <1>7, <3>1
    <3>3. M = L
      BY <1>3, <3>2
    <3>4. QED BY <1>1, <1>2, <3>2, <3>3
  <2>3. QED BY <2>1, <2>2
<1>9. ASSUME NEW i \in 1 .. n
      PROVE  /\ p + 1 < h[i] /\ h[i - 1] < h[i] /\ h[i] <= M /\ Gap(K, h[i - 1], h[i])
             /\ OutAt(K, h[i]) /\ t[i] = Stream(K)[h[i]]
  <2>1. /\ g[i - 1] < g[i] /\ g[i] <= L /\ Gap(K, g[i - 1], g[i])
        /\ OutAt(K, g[i]) /\ t[i] = Stream(K)[g[i]] /\ h[i] = g[i] /\ g[i] > p + 1
        /\ g[i] \in Nat
    BY <1>1, <1>2, <1>5, <1>7
  <2>2. CASE i = 1
    <3>1. h[i - 1] = p + 1 /\ g[i - 1] = p
      BY <1>1, <1>7, <2>2
    <3>2. Gap(K, p + 1, g[i])
      <4>1. ASSUME NEW j \in Nat, p + 1 < j, j < g[i] PROVE ~OutAt(K, j)
        <5>1. p < j
          BY <4>1
        <5>2. QED BY <2>1, <3>1, <4>1, <5>1 DEF Gap
      <4>2. QED BY <4>1 DEF Gap
    <3>3. QED BY <1>4, <2>1, <3>1, <3>2
  <2>3. CASE i # 1
    <3>1. i - 1 \in 1 .. n
      BY <1>2, <2>3
    <3>2. h[i - 1] = g[i - 1]
      BY <1>7, <3>1
    <3>3. QED BY <1>4, <2>1, <3>2
  <2>4. QED BY <2>2, <2>3
<1>10. Feeds(K, p + 1, M, t)
  BY <1>2, <1>7, <1>8, <1>9 DEF Feeds
<1>11. QED BY <1>3, <1>10

(* The byte that the controller takes is the one that the bus needs *)
LEMMA FeedsTail ==
  ASSUME NEW K \in Queued, NEW p \in Nat, NEW L \in Nat, p <= L, NEW t \in Seq(Tokens),
         Feeds(K, p, L, t), OutAt(K, p + 1), t # <<>>
  PROVE  /\ p + 1 <= L /\ Head(t) = Stream(K)[p + 1] /\ Tail(t) \in Seq(Tokens)
         /\ Feeds(K, p + 1, L, Tail(t))
<1>1. PICK g \in [0 .. Len(t) -> Nat] :
        /\ g[0] = p /\ g[Len(t)] <= L /\ Gap(K, g[Len(t)], L + 1)
        /\ \A i \in 1 .. Len(t) :
             /\ p < g[i] /\ g[i - 1] < g[i] /\ g[i] <= L /\ Gap(K, g[i - 1], g[i])
             /\ OutAt(K, g[i]) /\ t[i] = Stream(K)[g[i]]
  BY DEF Feeds
<1>2. PICK n \in Nat : n = Len(t)
  OBVIOUS
<1>3. n > 0 /\ 1 \in 1 .. n
  BY <1>2
<1>4. g[1] = p + 1
  <2>1. p < g[1] /\ Gap(K, p, g[1]) /\ g[1] \in Nat
    BY <1>1, <1>2, <1>3
  <2>2. ~(p + 1 < g[1])
    BY <2>1 DEF Gap
  <2>3. QED BY <2>1, <2>2
<1>5. PICK u : u = Tail(t)
  OBVIOUS
<1>6. u \in Seq(Tokens) /\ Len(u) = n - 1 /\ \A i \in 1 .. n - 1 : u[i] = t[i + 1]
  BY <1>2, <1>3, <1>5
<1>7. PICK h : h = [i \in 0 .. n - 1 |-> g[i + 1]]
  OBVIOUS
<1>8. h \in [0 .. Len(u) -> Nat] /\ \A i \in 0 .. n - 1 : h[i] = g[i + 1]
  <2>1. \A i \in 0 .. n - 1 : i + 1 \in 0 .. Len(t)
    BY <1>2
  <2>2. QED BY <1>6, <1>7, <2>1
<1>9. h[0] = p + 1 /\ h[Len(u)] = g[n]
  <2>1. 0 \in 0 .. n - 1 /\ n - 1 \in 0 .. n - 1 /\ n - 1 + 1 = n /\ 0 + 1 = 1
    BY <1>3
  <2>2. QED BY <1>4, <1>6, <1>8, <2>1
<1>10. ASSUME NEW i \in 1 .. Len(u)
       PROVE  /\ p + 1 < h[i] /\ h[i - 1] < h[i] /\ h[i] <= L /\ Gap(K, h[i - 1], h[i])
              /\ OutAt(K, h[i]) /\ u[i] = Stream(K)[h[i]]
  <2>1. PICK k : k = i + 1
    OBVIOUS
  <2>2. k \in 1 .. n /\ k - 1 = i /\ i \in 1 .. n - 1 /\ i - 1 \in 0 .. n - 1 /\ i \in 0 .. n - 1
        /\ i - 1 + 1 = i /\ i \in 1 .. n
    BY <1>2, <1>6, <2>1
  <2>3. h[i] = g[k] /\ h[i - 1] = g[i] /\ u[i] = t[k]
    BY <1>6, <1>8, <2>1, <2>2
  <2>4. /\ g[k - 1] < g[k] /\ g[k] <= L /\ Gap(K, g[k - 1], g[k])
        /\ OutAt(K, g[k]) /\ t[k] = Stream(K)[g[k]]
    <3>1. k \in 1 .. Len(t)
      BY <1>2, <2>2
    <3>2. QED BY <1>1, <3>1, Zenon
  <2>5. p < g[i] /\ g[i] \in Nat /\ g[k] \in Nat
    <3>1. i \in 1 .. Len(t) /\ i \in 0 .. Len(t) /\ k \in 0 .. Len(t)
      BY <1>2, <2>2
    <3>2. p < g[i]
      BY <1>1, <3>1, Zenon
    <3>3. g[i] \in Nat /\ g[k] \in Nat
      BY <1>1, <3>1
    <3>4. QED BY <3>2, <3>3
  <2>6. g[i] < g[k] /\ Gap(K, g[i], g[k])
    BY <2>2, <2>4
  <2>7. p + 1 < g[k]
    BY <2>5, <2>6
  <2>8. QED BY <2>3, <2>4, <2>6, <2>7
<1>11. h[Len(u)] <= L /\ Gap(K, h[Len(u)], L + 1)
  BY <1>1, <1>2, <1>9
<1>12. Feeds(K, p + 1, L, u)
  BY <1>8, <1>9, <1>10, <1>11 DEF Feeds
<1>13. Head(t) = Stream(K)[p + 1] /\ p + 1 <= L
  <2>1. t[1] = Stream(K)[g[1]] /\ g[1] <= L
    BY <1>1, <1>2, <1>3
  <2>2. Head(t) = t[1]
    BY <1>3
  <2>3. QED BY <1>4, <2>1, <2>2
<1>14. QED BY <1>5, <1>6, <1>12, <1>13

(* An empty FIFO: what comes next has not been put in *)
LEMMA FeedsNone ==
  ASSUME NEW K \in Queued, NEW p \in Nat, NEW L \in Nat, p <= L,
         Feeds(K, p, L, <<>>), OutAt(K, p + 1)
  PROVE  L = p
<1>1. Gap(K, p, L + 1)
  <2>1. Len(<<>>) = 0
    OBVIOUS
  <2>2. QED BY <2>1 DEF Feeds
<1>2. ~(p + 1 < L + 1)
  BY <1>1 DEF Gap
<1>3. QED BY <1>2

(* One byte more at the end of the FIFO *)
LEMMA FeedsMore ==
  ASSUME NEW K \in Queued, NEW p \in Nat, NEW L \in Nat, p <= L, NEW t \in Seq(Tokens),
         Feeds(K, p, L, t), NEW M \in Nat, L < M, OutAt(K, M), Gap(K, L, M),
         NEW e \in Tokens, e = Stream(K)[M]
  PROVE  Feeds(K, p, M, Append(t, e))
<1>1. PICK g \in [0 .. Len(t) -> Nat] :
        /\ g[0] = p /\ g[Len(t)] <= L /\ Gap(K, g[Len(t)], L + 1)
        /\ \A i \in 1 .. Len(t) :
             /\ p < g[i] /\ g[i - 1] < g[i] /\ g[i] <= L /\ Gap(K, g[i - 1], g[i])
             /\ OutAt(K, g[i]) /\ t[i] = Stream(K)[g[i]]
  BY DEF Feeds
<1>2. PICK n \in Nat : n = Len(t)
  OBVIOUS
<1>3. PICK u : u = Append(t, e)
  OBVIOUS
<1>4. /\ u \in Seq(Tokens) /\ Len(u) = n + 1 /\ u[n + 1] = e
      /\ \A i \in 1 .. n : u[i] = t[i]
  BY <1>2, <1>3
<1>5. PICK h : h = [i \in 0 .. n + 1 |-> IF i = n + 1 THEN M ELSE g[i]]
  OBVIOUS
<1>6. /\ h \in [0 .. Len(u) -> Nat] /\ h[n + 1] = M
      /\ \A i \in 0 .. n : h[i] = g[i]
  <2>1. \A i \in 0 .. n + 1 : i # n + 1 => i \in 0 .. n
    OBVIOUS
  <2>2. \A i \in 0 .. n : i # n + 1 /\ i \in 0 .. n + 1
    OBVIOUS
  <2>3. QED BY <1>2, <1>4, <1>5, <2>1, <2>2
<1>7. g[n] \in Nat /\ p <= g[n] /\ g[n] <= L
  <2>1. CASE n = 0
    BY <1>1, <1>2, <2>1
  <2>2. CASE n # 0
    <3>1. n \in 1 .. n
      BY <2>2
    <3>2. QED BY <1>1, <1>2, <3>1
  <2>3. QED BY <2>1, <2>2
<1>8. Gap(K, g[n], M)
  <2>1. ASSUME NEW j \in Nat, g[n] < j, j < M PROVE ~OutAt(K, j)
    <3>1. CASE j < L + 1
      BY <1>1, <1>2, <2>1, <3>1 DEF Gap
    <3>2. CASE ~(j < L + 1)
      BY <2>1, <3>2 DEF Gap
    <3>3. QED BY <3>1, <3>2
  <2>2. QED BY <2>1 DEF Gap
<1>9. ASSUME NEW i \in 1 .. Len(u)
      PROVE  /\ p < h[i] /\ h[i - 1] < h[i] /\ h[i] <= M /\ Gap(K, h[i - 1], h[i])
             /\ OutAt(K, h[i]) /\ u[i] = Stream(K)[h[i]]
  <2>1. CASE i = n + 1
    <3>1. i - 1 = n /\ n \in 0 .. n
      BY <2>1
    <3>2. h[i] = M /\ h[i - 1] = g[n] /\ u[i] = e
      BY <1>4, <1>6, <2>1, <3>1
    <3>3. p < M /\ g[n] < M
      BY <1>7
    <3>4. QED BY <1>8, <3>2, <3>3
  <2>2. CASE i # n + 1
    <3>1. i \in 1 .. n /\ i \in 0 .. n /\ i - 1 \in 0 .. n
      BY <1>4, <2>2
    <3>2. h[i] = g[i] /\ h[i - 1] = g[i - 1] /\ u[i] = t[i] /\ g[i] \in Nat
      BY <1>2, <1>4, <1>6, <3>1
    <3>3. /\ p < g[i] /\ g[i - 1] < g[i] /\ g[i] <= L /\ Gap(K, g[i - 1], g[i])
          /\ OutAt(K, g[i]) /\ t[i] = Stream(K)[g[i]]
      BY <1>1, <1>2, <3>1
    <3>4. g[i] <= M
      BY <3>2, <3>3
    <3>5. QED BY <3>2, <3>3, <3>4
  <2>3. QED BY <2>1, <2>2
<1>10. h[0] = p /\ h[Len(u)] = M
  <2>1. 0 \in 0 .. n
    OBVIOUS
  <2>2. QED BY <1>1, <1>4, <1>6, <2>1
<1>11. Gap(K, h[Len(u)], M + 1) /\ h[Len(u)] <= M
  <2>1. \A j \in Nat : ~(M < j /\ j < M + 1)
    OBVIOUS
  <2>2. Gap(K, M, M + 1)
    BY <2>1 DEF Gap
  <2>3. QED BY <1>10, <2>2
<1>12. Feeds(K, p, M, u)
  BY <1>6, <1>9, <1>10, <1>11 DEF Feeds
<1>13. QED BY <1>3, <1>12

(* The transmit FIFO and the entries that its bytes came from *)
Fed(K, p, d, t) ==
  /\ t \in Seq(Tokens) /\ Len(t) <= TXCAP
  /\ \E L \in Nat : p <= L /\ Supplied(K, d, L) /\ Feeds(K, p, L, t)

LEMMA FedSkip ==
  ASSUME NEW K \in Queued, NEW p \in Nat, NEW d, NEW t, Fed(K, p, d, t), ~OutAt(K, p + 1)
  PROVE  Fed(K, p + 1, d, t)
<1>1. PICK L \in Nat : p <= L /\ Supplied(K, d, L) /\ Feeds(K, p, L, t)
  BY DEF Fed
<1>2. t \in Seq(Tokens) /\ Len(t) <= TXCAP
  BY DEF Fed
<1>3. PICK M \in Nat : M = IF L = p THEN p + 1 ELSE L
  OBVIOUS
<1>4. Feeds(K, p + 1, M, t)
  BY <1>1, <1>2, <1>3, FeedsSkip
<1>5. p + 1 <= M
  BY <1>1, <1>3
<1>6. Supplied(K, d, M)
  <2> SUFFICES ASSUME NEW q \in 1 .. Len(K)
               PROVE  InOrderGiven(d[q]) /\ Given(d[q]) = Clamp(M - First(K, q), OutLen(K[q]))
    BY DEF Supplied
  <2>1. InOrderGiven(d[q]) /\ Given(d[q]) = Clamp(L - First(K, q), OutLen(K[q]))
    BY <1>1 DEF Supplied
  <2>2. PICK f \in Nat, h \in Nat : f = First(K, q) /\ h = OutLen(K[q])
    BY EntryPlace, OutPlace
  <2>3. ~(f < p + 1 /\ p + 1 <= f + h)
    BY <2>2 DEF OutAt, OutOf
  <2>4. Clamp(M - f, h) = Clamp(L - f, h)
    <3>1. CASE L = p
      <4>1. M = p + 1
        BY <1>3, <3>1
      <4>2. QED BY <2>3, <3>1, <4>1 DEF Clamp
    <3>2. CASE L # p
      BY <1>3, <3>2
    <3>3. QED BY <3>1, <3>2
  <2>5. QED BY <2>1, <2>2, <2>4
<1>7. QED BY <1>2, <1>4, <1>5, <1>6 DEF Fed

LEMMA FedTail ==
  ASSUME NEW K \in Queued, NEW p \in Nat, NEW d, NEW t, Fed(K, p, d, t), OutAt(K, p + 1), t # <<>>
  PROVE  Head(t) = Stream(K)[p + 1] /\ Fed(K, p + 1, d, Tail(t))
<1>1. PICK L \in Nat : p <= L /\ Supplied(K, d, L) /\ Feeds(K, p, L, t)
  BY DEF Fed
<1>2. t \in Seq(Tokens) /\ Len(t) <= TXCAP
  BY DEF Fed
<1>3. /\ p + 1 <= L /\ Head(t) = Stream(K)[p + 1] /\ Tail(t) \in Seq(Tokens)
      /\ Feeds(K, p + 1, L, Tail(t))
  BY <1>1, <1>2, FeedsTail
<1>4. Len(Tail(t)) <= TXCAP
  <2>1. Len(Tail(t)) = Len(t) - 1 /\ Len(t) \in Nat /\ TXCAP \in Nat
    BY <1>2, DriverAssumption
  <2>2. QED BY <1>2, <2>1
<1>5. QED BY <1>1, <1>3, <1>4 DEF Fed

(* An entry of the queue at work, with what does not change of it *)
LEMMA LikewiseEntry ==
  ASSUME NEW K \in Queued, NEW d, Likewise(K, d), NEW q \in 1 .. Len(K)
  PROVE  /\ d[q] \in Entries /\ K[q] \in Entries /\ SameTransfer(K[q], d[q])
         /\ OutLen(d[q]) = OutLen(K[q]) /\ queueLength(d[q]) = queueLength(K[q])
         /\ d \in Seq(Entries) /\ Len(d) = Len(K) /\ Len(K) \in Nat
<1>1. /\ d \in Seq(Entries) /\ Len(d) = Len(K) /\ SameTransfer(K[q], d[q]) /\ K \in Seq(Entries)
  BY DEF Likewise, Queued
<1>2. d[q] \in Entries /\ K[q] \in Entries /\ Len(K) \in Nat
  BY <1>1
<1>3. QED BY <1>1, <1>2 DEF OutLen, queueLength, SameTransfer

LEMMA FedNone ==
  ASSUME NEW K \in Queued, NEW p \in Nat, NEW d, Likewise(K, d), Fed(K, p, d, <<>>), OutAt(K, p + 1)
  PROVE  \E q \in 1 .. Len(K) : Unloaded(d[q])
<1>1. PICK L \in Nat : p <= L /\ Supplied(K, d, L) /\ Feeds(K, p, L, <<>>)
  BY DEF Fed
<1>2. L = p
  BY <1>1, FeedsNone
<1>3. PICK q \in 1 .. Len(K) : OutOf(K, q, p + 1)
  BY DEF OutAt
<1>4. InOrderGiven(d[q]) /\ Given(d[q]) = Clamp(p - First(K, q), OutLen(K[q]))
  BY <1>1, <1>2 DEF Supplied
<1>5. PICK f \in Nat, h \in Nat : f = First(K, q) /\ h = OutLen(K[q])
  BY EntryPlace, OutPlace
<1>6. f < p + 1 /\ p + 1 <= f + h
  BY <1>3, <1>5 DEF OutOf
<1>7. Clamp(p - f, h) < h
  BY <1>6 DEF Clamp
<1>8. Given(d[q]) < OutLen(d[q])
  BY <1>4, <1>5, <1>7, LikewiseEntry
<1>9. Unloaded(d[q])
  BY <1>4, <1>8, GivenType, LikewiseEntry
<1>10. QED BY <1>9

(* Entries whose bytes on the bus are counted are all in the FIFO, or were *)
LEMMA LoadedBefore ==
  ASSUME NEW K \in Queued, NEW p \in Nat, NEW d, NEW t, Likewise(K, d), Fed(K, p, d, t),
         NEW q \in 1 .. Len(K), First(K, q) + queueLength(K[q]) <= p
  PROVE  ~Unloaded(d[q])
<1>1. PICK L \in Nat : p <= L /\ Supplied(K, d, L) /\ Feeds(K, p, L, t)
  BY DEF Fed
<1>2. PICK f \in Nat, h \in Nat, l \in Nat :
        f = First(K, q) /\ h = OutLen(K[q]) /\ l = queueLength(K[q]) /\ h <= l
  BY EntryPlace, OutPlace
<1>3. InOrderGiven(d[q]) /\ Given(d[q]) = Clamp(L - f, h)
  BY <1>1, <1>2 DEF Supplied
<1>4. Clamp(L - f, h) = h
  BY <1>1, <1>2 DEF Clamp
<1>5. d[q] \in Entries /\ OutLen(d[q]) = h
  BY <1>2, LikewiseEntry
<1>6. ~(Given(d[q]) < OutLen(d[q]))
  BY <1>3, <1>4, <1>5
<1>7. QED BY <1>3, <1>5, <1>6, GivenType

--------------------
(* What fillTxFifo leaves of an entry as it was *)
SameWork(e, f) ==
  /\ SameTransfer(e, f) /\ e.data = f.data /\ (e.mode = 1 => e.position = f.position)
  /\ e.startCmdSent = f.startCmdSent /\ e.addrCmdSent = f.addrCmdSent
  /\ e.stopCmdSent = f.stopCmdSent /\ e.cmdBytesNeeded = f.cmdBytesNeeded

(* An entry with one byte more put in the FIFO *)
OneGiven(e, f) == SameWork(e, f) /\ InOrderGiven(f) /\ Given(f) = Given(e) + 1

LEMMA GivenAddress ==
  ASSUME NEW e \in Entries, InOrderGiven(e), e.addrSent < e.addrReq, NEW q \in Nat
  PROVE  /\ [e EXCEPT !.addrSent = e.addrSent + 1] \in Entries
         /\ OneGiven(e, [e EXCEPT !.addrSent = e.addrSent + 1])
         /\ Token("addr", q, e.addrSent + 1) \in Tokens
         /\ Token("addr", q, e.addrSent + 1) = ByteOf(e, q, Given(e) + 1)
<1>1. /\ e.addrReq \in Nat /\ e.addrSent \in Nat /\ e.length \in Nat /\ e.position \in Nat
      /\ e.mode \in {0, 1}
  BY DEF Entries
<1>2. PICK s, f : s = e.addrSent + 1 /\ f = [e EXCEPT !.addrSent = s]
  OBVIOUS
<1>3. s \in Nat /\ s <= e.addrReq
  BY <1>1, <1>2
<1>4. f \in Entries /\ f.addrSent = s /\ SameWork(e, f) /\ f.position = e.position
  BY <1>2, <1>3 DEF Entries, SameWork, SameTransfer
<1>5. f.addrReq = e.addrReq /\ f.length = e.length /\ f.mode = e.mode
  BY <1>4 DEF SameWork, SameTransfer
<1>6. e.position <= e.length /\ (e.mode = 0 => e.position = 0)
  BY DEF InOrderGiven
<1>7. InOrderGiven(f)
  BY <1>3, <1>4, <1>5, <1>6 DEF InOrderGiven
<1>8. Given(e) = e.addrSent
  BY DEF Given
<1>9. Given(f) = s
  <2>1. CASE s < e.addrReq
    BY <1>4, <1>5, <2>1 DEF Given
  <2>2. CASE ~(s < e.addrReq)
    <3>1. s = e.addrReq
      BY <1>1, <1>3, <2>2
    <3>2. Given(f) = e.addrReq + (IF e.mode = 0 THEN e.position ELSE 0)
      BY <1>4, <1>5, <2>2 DEF Given
    <3>3. QED BY <1>1, <1>6, <3>1, <3>2
  <2>3. QED BY <2>1, <2>2
<1>10. Token("addr", q, s) \in Tokens
  BY <1>3 DEF Token, Tokens, Kinds
<1>11. Token("addr", q, s) = ByteOf(e, q, s)
  BY <1>3 DEF ByteOf
<1>12. OneGiven(e, f)
  BY <1>2, <1>4, <1>7, <1>8, <1>9 DEF OneGiven
<1>13. QED BY <1>2, <1>4, <1>8, <1>10, <1>11, <1>12

LEMMA GivenData ==
  ASSUME NEW e \in Entries, InOrderGiven(e), ~(e.addrSent < e.addrReq), Unloaded(e), NEW q \in Nat
  PROVE  /\ [e EXCEPT !.position = e.position + 1] \in Entries
         /\ OneGiven(e, [e EXCEPT !.position = e.position + 1])
         /\ Token("write", q, e.position + 1) \in Tokens
         /\ Token("write", q, e.position + 1) = ByteOf(e, q, Given(e) + 1)
<1>1. /\ e.addrReq \in Nat /\ e.addrSent \in Nat /\ e.length \in Nat /\ e.position \in Nat
      /\ e.mode = 0 /\ e.position < e.length
  BY DEF Entries, Unloaded
<1>2. PICK s, f : s = e.position + 1 /\ f = [e EXCEPT !.position = s]
  OBVIOUS
<1>3. s \in Nat /\ s <= e.length
  BY <1>1, <1>2
<1>4. f \in Entries /\ f.position = s /\ SameWork(e, f) /\ f.addrSent = e.addrSent
  BY <1>1, <1>2, <1>3 DEF Entries, SameWork, SameTransfer
<1>5. f.addrReq = e.addrReq /\ f.length = e.length /\ f.mode = e.mode
  BY <1>4 DEF SameWork, SameTransfer
<1>6. InOrderGiven(f)
  BY <1>3, <1>4, <1>5 DEF InOrderGiven
<1>7. Given(e) = e.addrReq + e.position /\ Given(f) = e.addrReq + s
  BY <1>1, <1>4, <1>5 DEF Given
<1>8. Given(f) = Given(e) + 1
  BY <1>1, <1>2, <1>7
<1>9. Token("write", q, s) \in Tokens
  BY <1>3 DEF Token, Tokens, Kinds
<1>10. Token("write", q, s) = ByteOf(e, q, Given(e) + 1)
  <2>1. PICK a \in Nat : a = e.addrReq
    BY <1>1
  <2>2. Given(e) + 1 = a + s /\ ~(a + s <= a) /\ a + s - a = s
    BY <1>1, <1>2, <1>3, <1>7, <2>1
  <2>3. PICK d \in Nat : d = a + s
    BY <1>3
  <2>4. ~(d <= e.addrReq) /\ d - e.addrReq = s /\ d = Given(e) + 1
    <3>1. ~(d <= a) /\ d - a = s
      BY <1>3, <2>2, <2>3
    <3>2. d = Given(e) + 1
      BY <2>2, <2>3
    <3>3. QED BY <2>1, <3>1, <3>2
  <2>5. ByteOf(e, q, d) = Token("write", q, d - e.addrReq)
    BY <1>1, <2>4 DEF ByteOf
  <2>6. QED BY <2>4, <2>5
<1>11. OneGiven(e, f)
  BY <1>4, <1>6, <1>8 DEF OneGiven
<1>12. QED BY <1>2, <1>4, <1>9, <1>10, <1>11

(* The next byte of the queue goes to the end of the FIFO *)
LEMMA FedMore ==
  ASSUME NEW K \in Queued, NEW p \in Nat, NEW d, NEW t, Likewise(K, d), Fed(K, p, d, t),
         NEW a \in 1 .. Len(K), Unloaded(d[a]), \A q \in 1 .. a - 1 : ~Unloaded(d[q]),
         Len(t) < TXCAP, NEW f \in Entries, OneGiven(d[a], f), NEW e \in Tokens,
         e = ByteOf(d[a], a, Given(d[a]) + 1)
  PROVE  Likewise(K, [d EXCEPT ![a] = f]) /\ Fed(K, p, [d EXCEPT ![a] = f], Append(t, e))
<1>1. PICK L \in Nat : p <= L /\ Supplied(K, d, L) /\ Feeds(K, p, L, t)
  BY DEF Fed
<1>2. t \in Seq(Tokens) /\ TXCAP \in Nat /\ Len(t) \in Nat
  BY DriverAssumption DEF Fed
<1>3. PICK d2 : d2 = [d EXCEPT ![a] = f]
  OBVIOUS
<1>4. /\ d[a] \in Entries /\ K[a] \in Entries /\ SameTransfer(K[a], d[a])
      /\ OutLen(d[a]) = OutLen(K[a]) /\ queueLength(d[a]) = queueLength(K[a])
      /\ d \in Seq(Entries) /\ Len(d) = Len(K) /\ Len(K) \in Nat
  BY LikewiseEntry
<1>5. /\ d2 \in Seq(Entries) /\ Len(d2) = Len(K) /\ d2[a] = f
      /\ \A q \in 1 .. Len(K) : q # a => d2[q] = d[q]
  BY <1>3, <1>4
<1>6. SameTransfer(d[a], f) /\ InOrderGiven(f) /\ Given(f) = Given(d[a]) + 1
  BY DEF OneGiven, SameWork
<1>7. Likewise(K, d2)
  <2>1. SameTransfer(K[a], f)
    BY <1>4, <1>6 DEF SameTransfer
  <2>2. \A q \in 1 .. Len(K) : SameTransfer(K[q], d2[q])
    BY <1>5, <2>1 DEF Likewise
  <2>3. QED BY <1>5, <2>2 DEF Likewise
<1>8. PICK s \in Nat, h \in Nat, l \in Nat, n \in Nat :
        /\ s = First(K, a) /\ h = OutLen(K[a]) /\ l = queueLength(K[a]) /\ n = Given(d[a])
        /\ h <= l /\ n < h
  <2>1. InOrderGiven(d[a])
    BY <1>1 DEF Supplied
  <2>2. Given(d[a]) \in Nat /\ Given(d[a]) < OutLen(d[a])
    BY <1>4, <2>1, GivenType
  <2>3. QED BY <1>4, <2>2, EntryPlace, OutPlace
<1>9. n = Clamp(L - s, h)
  BY <1>1, <1>8 DEF Supplied
<1>10. PICK M \in Nat : M = s + n + 1
  BY <1>8
<1>11. L < M /\ (L < s => n = 0) /\ (s <= L => L = s + n)
  <2>1. CASE L < s
    <3>1. n = 0
      BY <1>9, <2>1 DEF Clamp
    <3>2. QED BY <1>10, <2>1, <3>1
  <2>2. CASE ~(L < s)
    <3>1. PICK x \in Nat : x = L - s
      BY <2>2
    <3>2. n = IF x > h THEN h ELSE x
      BY <1>9, <3>1 DEF Clamp
    <3>3. n = x
      BY <1>8, <3>2
    <3>4. QED BY <1>10, <2>2, <3>1, <3>3
  <2>3. QED BY <2>1, <2>2
<1>12. ASSUME NEW q \in 1 .. Len(K), q < a
       PROVE  First(K, q) + OutLen(K[q]) <= L
  <2>1. ~Unloaded(d[q]) /\ InOrderGiven(d[q]) /\ d[q] \in Entries /\ OutLen(d[q]) = OutLen(K[q])
    BY <1>1, <1>12, LikewiseEntry DEF Supplied
  <2>2. PICK u \in Nat, v \in Nat : u = First(K, q) /\ v = OutLen(K[q]) /\ v > 0
    BY EntryPlace, OutPlace
  <2>3. Given(d[q]) = v
    BY <2>1, <2>2, GivenType
  <2>4. Given(d[q]) = Clamp(L - u, v)
    BY <1>1, <2>2 DEF Supplied
  <2>5. u + v <= L
    BY <2>2, <2>3, <2>4 DEF Clamp
  <2>6. QED BY <2>2, <2>5
<1>13. ASSUME NEW q \in 1 .. Len(K), a < q PROVE M < First(K, q)
  <2>1. s + l < First(K, q) /\ First(K, q) \in Nat
    BY <1>8, <1>13, EntryOrder, EntryPlace
  <2>2. PICK u \in Nat : u = First(K, q)
    BY <2>1
  <2>3. n < h /\ h <= l
    BY <1>8
  <2>4. s + l < u
    BY <2>1, <2>2
  <2>5. M < u
    BY <1>10, <2>3, <2>4
  <2>6. QED BY <2>2, <2>5
<1>14. OutAt(K, M)
  <2>1. s < M /\ M <= s + h
    BY <1>8, <1>10, SMTT(30)
  <2>2. QED BY <1>8, <2>1 DEF OutAt, OutOf
<1>15. Gap(K, L, M)
  <2> SUFFICES ASSUME NEW j \in Nat, L < j, j < M, NEW q \in 1 .. Len(K), OutOf(K, q, j)
               PROVE  FALSE
    BY DEF Gap, OutAt
  <2>1. PICK u \in Nat, v \in Nat : u = First(K, q) /\ v = OutLen(K[q])
    BY EntryPlace, OutPlace
  <2>2. u < j /\ j <= u + v
    BY <2>1 DEF OutOf
  <2>3. CASE q < a
    <3>1. u + v <= L
      BY <1>12, <2>1, <2>3
    <3>2. QED BY <2>2, <3>1
  <2>4. CASE q = a
    <3>1. u = s
      BY <1>8, <2>1, <2>4
    <3>2. QED BY <1>10, <1>11, <2>2, <3>1
  <2>5. CASE a < q
    <3>1. M < u
      BY <1>13, <2>1, <2>5
    <3>2. QED BY <2>2, <3>1
  <2>6. QED BY <1>4, <2>3, <2>4, <2>5
<1>16. e = Stream(K)[M]
  <2>1. K \in Seq(Entries)
    BY DEF Queued
  <2>2. PICK k \in Nat : k = n + 1
    OBVIOUS
  <2>3. k \in 1 .. queueLength(K[a])
    BY <1>8, <2>2, SMTT(30)
  <2>4. Stream(K)[Off(K, a - 1) + 1 + k] = ByteOf(K[a], a, k)
    BY <2>1, <2>3, Positions
  <2>5. Off(K, a - 1) + 1 + k = M
    BY <1>8, <1>10, <2>2 DEF First
  <2>6. ByteOf(K[a], a, k) = ByteOf(d[a], a, k)
    BY <1>4 DEF SameTransfer, ByteOf
  <2>7. e = ByteOf(d[a], a, k)
    BY <1>8, <2>2
  <2>8. QED BY <2>4, <2>5, <2>6, <2>7
<1>17. Feeds(K, p, M, Append(t, e))
  BY <1>1, <1>2, <1>11, <1>14, <1>15, <1>16, FeedsMore
<1>18. Supplied(K, d2, M)
  <2> SUFFICES ASSUME NEW q \in 1 .. Len(K)
               PROVE  InOrderGiven(d2[q]) /\ Given(d2[q]) = Clamp(M - First(K, q), OutLen(K[q]))
    BY DEF Supplied
  <2>1. PICK u \in Nat, v \in Nat : u = First(K, q) /\ v = OutLen(K[q])
    BY EntryPlace, OutPlace
  <2>2. InOrderGiven(d[q]) /\ Given(d[q]) = Clamp(L - u, v)
    BY <1>1, <2>1 DEF Supplied
  <2>3. CASE q = a
    <3>1. u = s /\ v = h /\ d2[q] = f
      BY <1>5, <1>8, <2>1, <2>3
    <3>2. Clamp(M - s, h) = n + 1
      <4>1. n < h
        BY <1>8
      <4>2. M - s = n + 1
        BY <1>10
      <4>3. Clamp(n + 1, h) = n + 1
        BY <4>1 DEF Clamp
      <4>4. QED BY <4>2, <4>3
    <3>3. QED BY <1>6, <1>8, <2>1, <3>1, <3>2
  <2>4. CASE q < a
    <3>1. d2[q] = d[q] /\ u + v <= L
      BY <1>5, <1>12, <2>1, <2>4
    <3>2. Clamp(M - u, v) = Clamp(L - u, v)
      BY <1>11, <3>1 DEF Clamp
    <3>3. QED BY <2>1, <2>2, <3>1, <3>2
  <2>5. CASE a < q
    <3>1. d2[q] = d[q] /\ M < u
      BY <1>5, <1>13, <2>1, <2>5
    <3>2. Clamp(M - u, v) = Clamp(L - u, v)
      BY <1>11, <3>1 DEF Clamp
    <3>3. QED BY <2>1, <2>2, <3>1, <3>2
  <2>6. QED BY <1>4, <2>3, <2>4, <2>5
<1>19. Append(t, e) \in Seq(Tokens) /\ Len(Append(t, e)) <= TXCAP
  <2>1. Append(t, e) \in Seq(Tokens) /\ Len(Append(t, e)) = Len(t) + 1
    BY <1>2
  <2>2. QED BY <1>2, <2>1
<1>20. Fed(K, p, d2, Append(t, e))
  <2>1. p <= M
    BY <1>1, <1>11
  <2>2. QED BY <1>17, <1>18, <1>19, <2>1 DEF Fed
<1>21. QED BY <1>3, <1>7, <1>20

--------------------
(* What the two counters say when the handler has not yet served the last  *)
(* byte, and when it has.                                                  *)
Counts(K, p, int, qp, n) ==
  /\ n = 0 => qp = 1
  /\ IF "TRAN_COMP" \in int THEN p > 0 /\ ByteAt(K, p) /\ Counted(K, p - 1, qp, n)
     ELSE Counted(K, p, qp, n)

LEMMA CountsSkip ==
  ASSUME NEW K \in Queued, NEW p \in Nat, NEW int, NEW qp, NEW n, Counts(K, p, int, qp, n),
         "TRAN_COMP" \notin int, NEW int2, "TRAN_COMP" \notin int2, ~ByteAt(K, p + 1)
  PROVE  Counts(K, p + 1, int2, qp, n)
<1>1. Counted(K, p + 1, qp, n)
  BY CountedSkip DEF Counts
<1>2. QED BY <1>1 DEF Counts

LEMMA CountsByte ==
  ASSUME NEW K \in Queued, NEW p \in Nat, NEW int, NEW qp, NEW n, Counts(K, p, int, qp, n),
         "TRAN_COMP" \notin int, NEW int2, "TRAN_COMP" \in int2, ByteAt(K, p + 1)
  PROVE  Counts(K, p + 1, int2, qp, n)
<1>1. Counted(K, p, qp, n) /\ (n = 0 => qp = 1)
  BY DEF Counts
<1>2. PICK b \in Nat : b = p + 1
  OBVIOUS
<1>3. b - 1 = p /\ b > 0
  BY <1>2
<1>4. Counts(K, b, int2, qp, n)
  BY <1>1, <1>2, <1>3 DEF Counts
<1>5. QED BY <1>2, <1>4

LEMMA CountsType ==
  ASSUME NEW K \in Queued, NEW p \in Nat, NEW int, NEW qp, NEW n, Counts(K, p, int, qp, n)
  PROVE  /\ qp \in 1 .. Len(K) /\ n \in Nat /\ (n > 0 \/ qp = 1)
         /\ \A r \in 1 .. qp - 1 : MovedAt(K, r, p) = queueLength(K[r])
<1>1. PICK b \in Nat : b <= p /\ Counted(K, b, qp, n)
  <2>1. CASE "TRAN_COMP" \in int
    <3>1. p - 1 \in Nat /\ p - 1 <= p /\ Counted(K, p - 1, qp, n)
      BY <2>1 DEF Counts
    <3>2. QED BY <3>1
  <2>2. CASE "TRAN_COMP" \notin int
    BY <2>2 DEF Counts
  <2>3. QED BY <2>1, <2>2
<1>2. qp \in 1 .. Len(K) /\ n \in Nat
  <2>1. b \in Int
    OBVIOUS
  <2>2. QED BY <1>1, <2>1, CountedType
<1>3. n > 0 \/ qp = 1
  BY <1>2 DEF Counts
<1>4. ASSUME NEW r \in 1 .. qp - 1 PROVE MovedAt(K, r, p) = queueLength(K[r])
  <2>1. r \in 1 .. Len(K) /\ r < qp
    BY <1>2, EntryPlace
  <2>2. MovedAt(K, r, b) = queueLength(K[r])
    BY <1>1, <2>1 DEF Counted
  <2>3. PICK f \in Nat, l \in Nat : f = First(K, r) /\ l = queueLength(K[r]) /\ l > 0
    BY <2>1, EntryPlace
  <2>4. MovedAt(K, r, b) = Clamp(b - f, l) /\ MovedAt(K, r, p) = Clamp(p - f, l)
    <3>1. b \in Int /\ p \in Int
      OBVIOUS
    <3>2. QED BY <2>1, <2>3, <3>1, MovedType
  <2>5. b - f >= l
    BY <2>2, <2>3, <2>4 DEF Clamp
  <2>6. Clamp(p - f, l) = l
    BY <1>1, <2>5 DEF Clamp
  <2>7. QED BY <2>3, <2>4, <2>6
<1>5. QED BY <1>2, <1>3, <1>4

(* The counted byte is of the entry that the handler is at *)
LEMMA CountsAt ==
  ASSUME NEW K \in Queued, NEW p \in Nat, NEW int, NEW qp, NEW n, Counts(K, p, int, qp, n),
         "TRAN_COMP" \notin int, ByteAt(K, p)
  PROVE  In(K, qp, p) /\ n = p - First(K, qp)
<1>1. PICK r \in 1 .. Len(K) : In(K, r, p)
  BY DEF ByteAt
<1>2. PICK f \in Nat, l \in Nat : f = First(K, r) /\ l = queueLength(K[r])
  BY EntryPlace
<1>3. f < p /\ p <= f + l
  BY <1>1, <1>2 DEF In
<1>4. MovedAt(K, r, p) = Clamp(p - f, l)
  <2>1. p \in Int
    OBVIOUS
  <2>2. QED BY <1>2, <2>1, MovedType
<1>5. MovedAt(K, r, p) = p - f /\ p - f > 0
  BY <1>2, <1>3, <1>4 DEF Clamp
<1>6. Counted(K, p, qp, n) /\ (n = 0 => qp = 1)
  BY DEF Counts
<1>7. qp \in 1 .. Len(K) /\ n \in Nat /\ n = MovedAt(K, qp, p) /\ Len(K) \in Nat
  <2>1. p \in Int
    OBVIOUS
  <2>2. QED BY <1>6, <2>1, CountedType, EntryPlace
<1>8. ~(qp < r)
  BY <1>5, <1>6, <1>7 DEF Counted
<1>9. ~(r < qp)
  <2> SUFFICES ASSUME r < qp PROVE FALSE
    OBVIOUS
  <2>1. qp # 1 /\ n > 0
    BY <1>6, <1>7
  <2>2. f + l < First(K, qp) /\ First(K, qp) \in Nat
    BY <1>2, <1>7, EntryOrder, EntryPlace
  <2>3. PICK g \in Nat, m \in Nat : g = First(K, qp) /\ m = queueLength(K[qp])
    BY <1>7, EntryPlace
  <2>4. MovedAt(K, qp, p) = Clamp(p - g, m)
    <3>1. p \in Int
      OBVIOUS
    <3>2. QED BY <1>7, <2>3, <3>1, MovedType
  <2>5. Clamp(p - g, m) = 0
    BY <1>3, <2>2, <2>3 DEF Clamp
  <2>6. QED BY <1>7, <2>1, <2>4, <2>5
<1>10. r = qp
  BY <1>7, <1>8, <1>9
<1>11. QED BY <1>1, <1>2, <1>5, <1>7, <1>10

(* A byte is served: either it is one more of the same entry, or that is   *)
(* over and the byte is the first of the next                              *)
LEMMA CountsNext ==
  ASSUME NEW K \in Queued, NEW p \in Nat, NEW int, NEW qp, NEW n, Counts(K, p, int, qp, n),
         "TRAN_COMP" \in int, NEW int2, "TRAN_COMP" \notin int2
  PROVE  \/ n + 1 <= queueLength(K[qp]) /\ Counts(K, p, int2, qp, n + 1)
         \/ /\ n + 1 > queueLength(K[qp]) /\ qp + 1 \in 1 .. Len(K) /\ qp < Len(K)
            /\ Counts(K, p, int2, qp + 1, n + 1 - queueLength(K[qp]))
            /\ MovedAt(K, qp, p) = queueLength(K[qp])
<1>1. p > 0 /\ ByteAt(K, p) /\ Counted(K, p - 1, qp, n)
  BY DEF Counts
<1>2. PICK b \in Nat : b = p - 1 /\ b + 1 = p
  BY <1>1
<1>3. Counted(K, b, qp, n)
  BY <1>1, <1>2
<1>4. PICK r \in 1 .. Len(K) : In(K, r, b + 1)
  BY <1>1, <1>2 DEF ByteAt
<1>5. qp \in 1 .. Len(K) /\ n \in Nat /\ Len(K) \in Nat
  <2>1. b \in Int
    OBVIOUS
  <2>2. QED BY <1>3, <2>1, CountedType, EntryPlace
<1>6. CASE n + 1 <= queueLength(K[qp]) /\ Counted(K, b + 1, qp, n + 1)
  <2>1. n + 1 # 0
    BY <1>5
  <2>2. Counts(K, p, int2, qp, n + 1)
    BY <1>2, <1>6, <2>1 DEF Counts
  <2>3. QED BY <1>6, <2>2
<1>7. CASE n = queueLength(K[qp]) /\ qp + 1 \in 1 .. Len(K) /\ Counted(K, b + 1, qp + 1, 1)
  <2>1. n + 1 > queueLength(K[qp]) /\ n + 1 - queueLength(K[qp]) = 1 /\ qp < Len(K) /\ qp < qp + 1
    BY <1>5, <1>7
  <2>2. Counts(K, p, int2, qp + 1, n + 1 - queueLength(K[qp]))
    BY <1>2, <1>7, <2>1 DEF Counts
  <2>3. MovedAt(K, qp, p) = queueLength(K[qp])
    BY <1>2, <1>5, <1>7, <2>1 DEF Counted
  <2>4. QED BY <1>7, <2>1, <2>2, <2>3
<1>8. QED BY <1>3, <1>4, <1>6, <1>7, CountedNext

--------------------
(* What was read: in the buffers of the entries and in the receive FIFO.   *)
ReadAt(K, q, p) ==
  IF MovedAt(K, q, p) > K[q].addrReq THEN MovedAt(K, q, p) - K[q].addrReq ELSE 0

(* The bytes are the q-th entry's, numbered from i + 1 on *)
Numbered(t, q, i) == \A k \in 1 .. Len(t) : t[k].q = q /\ t[k].k = i + k

Stored(e, q) ==
  /\ Len(e.data) = IF e.mode = 1 THEN e.position ELSE 0
  /\ Numbered(e.data, q, 0)

Stores(K, p, d, qp, rx) ==
  /\ rx \in Seq(Tokens) /\ Numbered(rx, qp, d[qp].position) /\ (rx # <<>> => K[qp].mode = 1)
  /\ \A q \in 1 .. Len(K) :
       /\ Stored(d[q], q)
       /\ K[q].mode = 1 =>
            d[q].position + (IF q = qp THEN Len(rx) ELSE 0) = ReadAt(K, q, p)

LEMMA ReadAtType ==
  ASSUME NEW K \in Queued, NEW q \in 1 .. Len(K), NEW p \in Nat
  PROVE  ReadAt(K, q, p) \in Nat /\ ReadAt(K, q, p) <= K[q].length
<1>1. K[q].addrReq \in Nat /\ K[q].length \in Nat /\ queueLength(K[q]) = K[q].length + K[q].addrReq
  BY EntryPlace DEF queueLength, Entries
<1>2. MovedAt(K, q, p) \in Nat /\ MovedAt(K, q, p) <= queueLength(K[q])
  BY MovedType
<1>3. QED BY <1>1, <1>2 DEF ReadAt

LEMMA StoresSame ==
  ASSUME NEW K \in Queued, NEW p, NEW d, NEW qp, NEW rx, Stores(K, p, d, qp, rx), NEW b,
         \A q \in 1 .. Len(K) : K[q].mode = 1 => ReadAt(K, q, b) = ReadAt(K, q, p)
  PROVE  Stores(K, b, d, qp, rx)
BY DEF Stores

(* Only bytes read count *)
LEMMA ReadAtSkip ==
  ASSUME NEW K \in Queued, NEW p \in Nat, ~ByteAt(K, p + 1) \/ OutAt(K, p + 1),
         NEW q \in 1 .. Len(K), K[q].mode = 1
  PROVE  ReadAt(K, q, p + 1) = ReadAt(K, q, p)
<1>1. CASE ~In(K, q, p + 1)
  <2>1. MovedAt(K, q, p + 1) = MovedAt(K, q, p)
    BY <1>1, MovedStep
  <2>2. QED BY <2>1 DEF ReadAt
<1>2. CASE In(K, q, p + 1)
  <2>1. PICK r \in 1 .. Len(K) : OutOf(K, r, p + 1)
    BY <1>2 DEF ByteAt, OutAt
  <2>2. r = q
    <3>1. p + 1 \in Nat
      OBVIOUS
    <3>2. QED BY <1>2, <2>1, <3>1, OutIn, InOne
  <2>3. PICK f \in Nat, a \in Nat : f = First(K, q) /\ a = K[q].addrReq
    BY EntryPlace DEF Entries
  <2>4. OutLen(K[q]) = a
    BY <2>3 DEF OutLen
  <2>5. f < p + 1 /\ p + 1 <= f + a
    BY <2>1, <2>2, <2>3, <2>4 DEF OutOf
  <2>6. MovedAt(K, q, p) = p - f /\ MovedAt(K, q, p + 1) = p + 1 - f
    BY <1>2, <2>3, MovedStep
  <2>7. PICK m \in Nat, n \in Nat : m = p - f /\ n = p + 1 - f /\ m <= a /\ n <= a
    BY <2>5
  <2>8. QED BY <2>3, <2>6, <2>7, SMTT(30) DEF ReadAt
<1>3. QED BY <1>1, <1>2

(* Numbers of bytes *)
LEMMA OneFurther ==
  ASSUME NEW p \in Nat, NEW f \in Nat, NEW a \in Nat, a < p + 1 - f
  PROVE  /\ (IF p - f > a THEN p - f - a ELSE 0) = p - f - a
         /\ (IF p + 1 - f > a THEN p + 1 - f - a ELSE 0) = p + 1 - f - a
OBVIOUS

LEMMA OneMore ==
  \A p, f, a, m, n \in Nat : m + n = p - f - a => m + (n + 1) = p + 1 - f - a
OBVIOUS

(* Another byte read is in the FIFO after those before *)
LEMMA StoresRead ==
  ASSUME NEW K \in Queued, NEW p \in Nat, NEW d, Likewise(K, d), NEW qp \in 1 .. Len(K), NEW rx,
         Stores(K, p, d, qp, rx), In(K, qp, p + 1), K[qp].mode = 1,
         K[qp].addrReq < p + 1 - First(K, qp), NEW e \in Tokens, e.q = qp,
         e.k = p + 1 - First(K, qp) - K[qp].addrReq
  PROVE  Stores(K, p + 1, d, qp, Append(rx, e))
<1>1. First(K, qp) \in Nat /\ K[qp].addrReq \in Nat /\ d[qp].position \in Nat
  BY EntryPlace, LikewiseEntry DEF Entries
<1> PICK f \in Nat, a \in Nat, m \in Nat :
      f = First(K, qp) /\ a = K[qp].addrReq /\ m = d[qp].position
  BY <1>1
<1> PICK u : u = Append(rx, e)
  OBVIOUS
<1>2. rx \in Seq(Tokens) /\ Numbered(rx, qp, m) /\ m + Len(rx) = ReadAt(K, qp, p)
  BY DEF Stores
<1>3. PICK n \in Nat : n = Len(rx)
  BY <1>2
<1>4. u \in Seq(Tokens) /\ Len(u) = n + 1 /\ u[n + 1] = e /\ \A k \in 1 .. n : u[k] = rx[k]
  BY <1>2, <1>3
<1>5. MovedAt(K, qp, p) = p - f /\ MovedAt(K, qp, p + 1) = p + 1 - f
  BY MovedStep
<1>6. a < p + 1 - f
  OBVIOUS
<1>7. ReadAt(K, qp, p) = p - f - a /\ ReadAt(K, qp, p + 1) = p + 1 - f - a
  <2>1. /\ (IF p - f > a THEN p - f - a ELSE 0) = p - f - a
        /\ (IF p + 1 - f > a THEN p + 1 - f - a ELSE 0) = p + 1 - f - a
    BY <1>6, OneFurther
  <2>0. a = K[qp].addrReq
    OBVIOUS
  <2>2. ReadAt(K, qp, p) = IF p - f > a THEN p - f - a ELSE 0
    BY <1>5, <2>0 DEF ReadAt
  <2>3. ReadAt(K, qp, p + 1) = IF p + 1 - f > a THEN p + 1 - f - a ELSE 0
    <3>1. PICK y : y = MovedAt(K, qp, p + 1)
      OBVIOUS
    <3>2. ReadAt(K, qp, p + 1) = IF y > a THEN y - a ELSE 0
      BY <2>0, <3>1 DEF ReadAt
    <3>3. y = p + 1 - f
      BY <1>5, <3>1
    <3>4. y > a /\ y - a = p + 1 - f - a
      BY <1>6, <3>3
    <3>5. QED BY <3>2, <3>4, <1>6
  <2>4. QED BY <2>1, <2>2, <2>3, Zenon
<1>8. e.k = m + (n + 1) /\ m + (n + 1) = ReadAt(K, qp, p + 1)
  <2>1. e.k = p + 1 - f - a
    OBVIOUS
  <2>2. m + n = p - f - a
    BY <1>2, <1>3, <1>7
  <2>3. m + (n + 1) = p + 1 - f - a
    BY ONLY p \in Nat, f \in Nat, a \in Nat, m \in Nat, n \in Nat, <2>2, OneMore
  <2>4. QED BY <1>7, <2>1, <2>3
<1>9. Numbered(u, qp, m)
  <2> SUFFICES ASSUME NEW k \in 1 .. Len(u) PROVE u[k].q = qp /\ u[k].k = m + k
    BY DEF Numbered
  <2>1. CASE k = n + 1
    BY <1>4, <1>8, <2>1
  <2>2. CASE k # n + 1
    <3>1. k \in 1 .. n
      BY <1>4, <2>2
    <3>2. QED BY <1>2, <1>3, <1>4, <3>1 DEF Numbered
  <2>3. QED BY <2>1, <2>2
<1>10. ASSUME NEW q \in 1 .. Len(K)
       PROVE  /\ Stored(d[q], q)
              /\ K[q].mode = 1 =>
                   d[q].position + (IF q = qp THEN Len(u) ELSE 0) = ReadAt(K, q, p + 1)
  <2>1. /\ Stored(d[q], q)
        /\ K[q].mode = 1 =>
             d[q].position + (IF q = qp THEN Len(rx) ELSE 0) = ReadAt(K, q, p)
    BY DEF Stores
  <2>2. CASE q = qp
    BY <1>4, <1>8, <2>1, <2>2
  <2>3. CASE q # qp
    <3>1. ~In(K, q, p + 1)
      <4>1. p + 1 \in Nat
        OBVIOUS
      <4>2. QED BY <2>3, <4>1, InOne
    <3>2. MovedAt(K, q, p + 1) = MovedAt(K, q, p)
      BY <3>1, MovedStep
    <3>3. ReadAt(K, q, p + 1) = ReadAt(K, q, p)
      BY <3>2 DEF ReadAt
    <3>4. QED BY <2>1, <2>3, <3>3
  <2>4. QED BY <2>2, <2>3
<1>11. Stores(K, p + 1, d, qp, u)
  BY <1>4, <1>9, <1>10 DEF Stores
<1>12. QED BY <1>11

(* When the FIFO is empty, nothing of it is left for the next entry *)
LEMMA StoresNext ==
  ASSUME NEW K \in Queued, NEW p, NEW d, Likewise(K, d), NEW qp, Stores(K, p, d, qp, <<>>),
         NEW qp2 \in 1 .. Len(K)
  PROVE  Stores(K, p, d, qp2, <<>>)
<1>1. Len(<<>>) = 0 /\ <<>> \in Seq(Tokens)
  OBVIOUS
<1>2. Numbered(<<>>, qp2, d[qp2].position)
  BY <1>1 DEF Numbered
<1>3. QED BY <1>1, <1>2 DEF Stores

(* Neither fillTxFifo nor fillCmdQueue changes anything of it *)
SameRead(e, f) ==
  SameTransfer(e, f) /\ e.data = f.data /\ (e.mode = 1 => e.position = f.position)

LEMMA StoresWork ==
  ASSUME NEW K \in Queued, NEW p, NEW d, Likewise(K, d), NEW qp \in 1 .. Len(K), NEW rx,
         Stores(K, p, d, qp, rx), NEW d2, \A q \in 1 .. Len(K) : SameRead(d[q], d2[q])
  PROVE  Stores(K, p, d2, qp, rx)
<1>1. \A q \in 1 .. Len(K) :
        /\ d2[q].data = d[q].data /\ d2[q].mode = K[q].mode
        /\ K[q].mode = 1 => d2[q].position = d[q].position
        /\ d[q].mode = K[q].mode
  BY LikewiseEntry DEF SameRead, SameTransfer
<1>2. /\ rx \in Seq(Tokens) /\ Numbered(rx, qp, d[qp].position) /\ (rx # <<>> => K[qp].mode = 1)
      /\ \A q \in 1 .. Len(K) :
           /\ Stored(d[q], q)
           /\ K[q].mode = 1 =>
                d[q].position + (IF q = qp THEN Len(rx) ELSE 0) = ReadAt(K, q, p)
  BY DEF Stores
<1>3. Numbered(rx, qp, d2[qp].position)
  <2>1. CASE rx = <<>>
    <3>1. Len(rx) = 0
      BY <2>1
    <3>2. QED BY <3>1 DEF Numbered
  <2>2. CASE rx # <<>>
    BY <1>1, <1>2, <2>2
  <2>3. QED BY <2>1, <2>2
<1>4. \A q \in 1 .. Len(K) : Stored(d2[q], q)
  BY <1>1, <1>2 DEF Stored
<1>5. QED BY <1>1, <1>2, <1>3, <1>4 DEF Stores

--------------------
(* What the handler changes of the entries leaves the command list right.  *)
SameFlags(e, f) ==
  /\ SameTransfer(e, f)
  /\ e.startCmdSent = f.startCmdSent /\ e.addrCmdSent = f.addrCmdSent
  /\ e.stopCmdSent = f.stopCmdSent /\ e.cmdBytesNeeded = f.cmdBytesNeeded

LEMMA ReachedKept ==
  ASSUME NEW K \in Queued, NEW d, NEW d2, Likewise(K, d), Likewise(K, d2),
         \A q \in 1 .. Len(K) : SameFlags(d[q], d2[q]), NEW p, Reached(d, p)
  PROVE  Reached(d2, p)
<1>1. PICK q : Held(d, d, q, p)
  BY DEF Reached
<1>2. /\ d \in Seq(Entries) /\ d2 \in Seq(Entries) /\ Len(d) = Len(K) /\ Len(d2) = Len(K)
      /\ K \in Seq(Entries) /\ Len(K) \in Nat
  BY DEF Likewise, Queued
<1>3. /\ \A r \in 0 .. Len(K) : Off(d, r) = Off(K, r) /\ Off(d2, r) = Off(K, r)
      /\ \A r \in 1 .. Len(K) : queueLength(d[r]) = queueLength(K[r]) /\ queueLength(d2[r]) = queueLength(K[r])
  BY <1>2, LikewiseStream
<1>4. q \in 1 .. Len(K) /\ q - 1 \in 0 .. Len(K) /\ q \in 0 .. Len(K)
  BY <1>1, <1>2 DEF Held
<1>5. /\ \A r \in 1 .. q - 1 : d[r].stopCmdSent
      /\ \A r \in q + 1 .. Len(K) : Fresh(d[r])
      /\ EntryAt(d, d[q], q, p)
  BY <1>1, <1>2 DEF Held
<1>6. \A r \in 1 .. q - 1 : d2[r].stopCmdSent
  BY <1>4, <1>5, <1>2 DEF SameFlags
<1>7. \A r \in q + 1 .. Len(K) : Fresh(d2[r])
  BY <1>4, <1>5, <1>2 DEF SameFlags, Fresh, SameTransfer
<1>8. EntryAt(d2, d2[q], q, p)
  <2>1. /\ Fresh(d[q]) => Fresh(d2[q])
        /\ Underway(d[q]) => Underway(d2[q]) /\ d2[q].cmdBytesNeeded = d[q].cmdBytesNeeded
        /\ d[q].stopCmdSent => d2[q].stopCmdSent
    BY <1>4 DEF SameFlags, Fresh, Underway, SameTransfer
  <2>2. Off(d2, q - 1) = Off(d, q - 1) /\ Off(d2, q) = Off(d, q) /\ queueLength(d2[q]) = queueLength(d[q])
    BY <1>3, <1>4
  <2>3. QED BY <1>2, <1>5, <2>1, <2>2 DEF EntryAt
<1>9. Alike(d2, d2)
  BY <1>2 DEF Alike, SameEntry
<1>10. Held(d2, d2, q, p)
  BY <1>2, <1>4, <1>6, <1>7, <1>8, <1>9 DEF Held
<1>11. QED BY <1>10 DEF Reached

LEMMA RunningKept ==
  ASSUME NEW K \in Queued, NEW d, NEW d2, Likewise(K, d), Likewise(K, d2),
         \A q \in 1 .. Len(K) : SameFlags(d[q], d2[q]), NEW p, NEW c, Running(K, d, c, p)
  PROVE  Running(K, d2, c, p)
BY ReachedKept DEF Running

LEMMA WorkFlags == \A e, f : SameWork(e, f) => SameFlags(e, f)
BY DEF SameWork, SameFlags

--------------------
(* emptyRxFifo.                                                            *)
WithData(e, x, n) == [e EXCEPT !.data = x, !.position = n]

LEMMA WithDataIs ==
  ASSUME NEW e \in Entries, NEW x \in Seq(Tokens), NEW n \in Nat
  PROVE  /\ WithData(e, x, n) \in Entries /\ SameFlags(e, WithData(e, x, n))
         /\ WithData(e, x, n).data = x /\ WithData(e, x, n).position = n
         /\ WithData(e, x, n).addrSent = e.addrSent
BY DEF WithData, Entries, SameFlags, SameTransfer

(* Bytes numbered from i + 1 on, after the first i *)
LEMMA NumberedJoin ==
  ASSUME NEW a \in Seq(Tokens), NEW t \in Seq(Tokens), NEW q, NEW i \in Nat, Len(a) = i,
         Numbered(a, q, 0), Numbered(t, q, i)
  PROVE  a \o t \in Seq(Tokens) /\ Len(a \o t) = i + Len(t) /\ Numbered(a \o t, q, 0)
<1> PICK u : u = a \o t
  OBVIOUS
<1>1. Joined(u, a, t)
  BY TokensJoin
<1>2. PICK n \in Nat : n = Len(t)
  OBVIOUS
<1>3. u \in Seq(Tokens) /\ Len(u) = i + n /\ (\A k \in 1 .. i : u[k] = a[k]) /\ (\A k \in 1 .. n : u[i + k] = t[k])
  BY <1>1, <1>2 DEF Joined
<1>4. ASSUME NEW k \in 1 .. i + n PROVE u[k].q = q /\ u[k].k = 0 + k
  <2>1. CASE k <= i
    <3>1. k \in 1 .. i /\ k \in 1 .. Len(a)
      BY <2>1
    <3>2. QED BY <1>3, <3>1 DEF Numbered
  <2>2. CASE ~(k <= i)
    <3>1. PICK j \in 1 .. n : k = i + j
      <4>1. k - i \in 1 .. n /\ k = i + (k - i)
        BY <2>2
      <4>2. QED BY <4>1
    <3>2. u[k] = t[j] /\ t[j].q = q /\ t[j].k = i + j
      BY <1>2, <1>3, <3>1 DEF Numbered
    <3>3. QED BY <3>1, <3>2
  <2>3. QED BY <2>1, <2>2
<1>5. Numbered(u, q, 0)
  BY <1>3, <1>4 DEF Numbered
<1>6. QED BY <1>2, <1>3, <1>5

(* The receive FIFO fits into what is left of the entry's buffer *)
TakesAll(rx, e) ==
  /\ Min(Len(rx), e.length - e.position) = Len(rx)
  /\ SubSeq(rx, Len(rx) + 1, Len(rx)) = <<>> /\ SubSeq(rx, 1, Len(rx)) = rx

(* All that the FIFO holds belongs to the entry and fits into its buffer *)
LEMMA AllFits ==
  ASSUME NEW K \in Queued, NEW p \in Nat, NEW d, Likewise(K, d), NEW qp \in 1 .. Len(K), NEW rx,
         Stores(K, p, d, qp, rx), K[qp].mode = 1
  PROVE  /\ Len(rx) \in Nat /\ d[qp].position \in Nat /\ d[qp].position + Len(rx) \in Nat
         /\ d[qp].position + Len(rx) <= d[qp].length
         /\ d[qp].position + Len(rx) = ReadAt(K, qp, p)
         /\ TakesAll(rx, d[qp])
<1>1. d[qp] \in Entries /\ d[qp].length = K[qp].length
  BY LikewiseEntry DEF SameTransfer
<1>2. rx \in Seq(Tokens) /\ Len(rx) \in Nat /\ d[qp].position + Len(rx) = ReadAt(K, qp, p)
  BY DEF Stores
<1>3. d[qp].position \in Nat /\ d[qp].length \in Nat
  BY <1>1 DEF Entries
<1>4. ReadAt(K, qp, p) \in Nat /\ ReadAt(K, qp, p) <= K[qp].length
  BY ReadAtType
<1>5. SubSeq(rx, Len(rx) + 1, Len(rx)) = <<>> /\ SubSeq(rx, 1, Len(rx)) = rx
  BY <1>2
<1>6. PICK m \in Nat, n \in Nat, l \in Nat : m = d[qp].position /\ n = Len(rx) /\ l = d[qp].length
  BY <1>2, <1>3
<1>7. m + n <= l
  BY <1>1, <1>2, <1>4, <1>6
<1>8. Min(n, l - m) = n
  BY <1>7 DEF Min
<1>9. TakesAll(rx, d[qp])
  BY <1>5, <1>6, <1>8, Zenon DEF TakesAll
<1>10. QED BY <1>2, <1>4, <1>6, <1>7, <1>9

Emptying(d, qp, rx, f, d2) ==
  /\ f = WithData(d[qp], d[qp].data \o rx, d[qp].position + Len(rx))
  /\ d2 = [d EXCEPT ![qp] = f]

LEMMA Emptied ==
  ASSUME NEW K \in Queued, NEW p \in Nat, NEW d, Likewise(K, d), NEW qp \in 1 .. Len(K), NEW rx,
         Stores(K, p, d, qp, rx), K[qp].mode = 1, NEW f, NEW d2, Emptying(d, qp, rx, f, d2)
  PROVE  /\ Likewise(K, d2) /\ Stores(K, p, d2, qp, <<>>)
         /\ \A q \in 1 .. Len(K) : SameFlags(d[q], d2[q])
         /\ d2[qp].position = ReadAt(K, qp, p)
         /\ \A t : Fed(K, p, d, t) => Fed(K, p, d2, t)
         /\ \A q \in 1 .. Len(K) : d2[q].addrSent = d[q].addrSent /\ (K[q].mode = 0 => d2[q] = d[q])
<1>1. /\ d[qp] \in Entries /\ d \in Seq(Entries) /\ Len(d) = Len(K) /\ Len(K) \in Nat
      /\ \A q \in 1 .. Len(K) : d[q] \in Entries /\ SameTransfer(K[q], d[q])
  BY LikewiseEntry
<1>2. /\ Stored(d[qp], qp) /\ rx \in Seq(Tokens) /\ Numbered(rx, qp, d[qp].position)
      /\ d[qp].mode = 1
  BY <1>1 DEF Stores, SameTransfer
<1>3. PICK x, n : x = d[qp].data \o rx /\ n = d[qp].position + Len(rx)
  OBVIOUS
<1>4. /\ n \in Nat /\ n = ReadAt(K, qp, p) /\ n <= d[qp].length /\ d[qp].position \in Nat
      /\ d[qp].data \in Seq(Tokens)
  <2>1. d[qp].position \in Nat /\ d[qp].data \in Seq(Tokens)
    BY <1>1 DEF Entries
  <2>2. /\ d[qp].position + Len(rx) \in Nat /\ d[qp].position + Len(rx) <= d[qp].length
        /\ d[qp].position + Len(rx) = ReadAt(K, qp, p)
    BY AllFits
  <2>3. QED BY <1>3, <2>1, <2>2
<1>5. Len(d[qp].data) = d[qp].position /\ Numbered(d[qp].data, qp, 0)
  BY <1>2 DEF Stored
<1>6. x \in Seq(Tokens) /\ Len(x) = n /\ Numbered(x, qp, 0)
  BY <1>2, <1>3, <1>4, <1>5, NumberedJoin
<1>7. f = WithData(d[qp], x, n)
  BY <1>3, Zenon DEF Emptying
<1>8. /\ f \in Entries /\ SameFlags(d[qp], f) /\ f.data = x /\ f.position = n
      /\ f.addrSent = d[qp].addrSent
  <2>1. d[qp] \in Entries /\ x \in Seq(Tokens) /\ n \in Nat
    BY <1>1, <1>4, <1>6
  <2>2. PICK e \in Entries : e = d[qp]
    BY <2>1
  <2>3. /\ WithData(e, x, n) \in Entries /\ SameFlags(e, WithData(e, x, n))
        /\ WithData(e, x, n).data = x /\ WithData(e, x, n).position = n
        /\ WithData(e, x, n).addrSent = e.addrSent
    BY <2>1, WithDataIs, SMTT(30)
  <2>4. f = WithData(e, x, n)
    BY <1>7, <2>2
  <2>5. QED BY <2>2, <2>3, <2>4, Zenon
<1>9. /\ d2 \in Seq(Entries) /\ Len(d2) = Len(K) /\ d2[qp] = f
      /\ \A q \in 1 .. Len(K) : q # qp => d2[q] = d[q]
  BY <1>1, <1>8 DEF Emptying
<1>10. \A q \in 1 .. Len(K) : SameFlags(d[q], d2[q])
  <2> TAKE q \in 1 .. Len(K)
  <2>1. CASE q = qp
    BY <1>8, <1>9, <2>1
  <2>2. CASE q # qp
    BY <1>9, <2>2 DEF SameFlags, SameTransfer
  <2>3. QED BY <2>1, <2>2
<1>11. Likewise(K, d2)
  <2>1. \A q \in 1 .. Len(K) : SameTransfer(K[q], d2[q])
    BY <1>1, <1>10 DEF SameFlags, SameTransfer
  <2>2. QED BY <1>9, <2>1 DEF Likewise
<1>12. Stores(K, p, d2, qp, <<>>)
  <2>1. <<>> \in Seq(Tokens) /\ Len(<<>>) = 0 /\ Numbered(<<>>, qp, d2[qp].position)
    BY DEF Numbered
  <2>2. ASSUME NEW q \in 1 .. Len(K)
        PROVE  /\ Stored(d2[q], q)
               /\ K[q].mode = 1 => d2[q].position + (IF q = qp THEN Len(<<>>) ELSE 0) = ReadAt(K, q, p)
    <3>1. CASE q = qp
      <4>1. f.mode = 1
        BY <1>2, <1>8 DEF SameFlags, SameTransfer
      <4>2. Stored(f, qp)
        BY <1>6, <1>8, <4>1 DEF Stored
      <4>3. f.position + 0 = ReadAt(K, qp, p)
        BY <1>4, <1>8
      <4>4. QED BY <1>9, <2>1, <3>1, <4>2, <4>3
    <3>2. CASE q # qp
      <4>1. d2[q] = d[q]
        BY <1>9, <3>2
      <4>2. Stored(d[q], q) /\ (K[q].mode = 1 => d[q].position + 0 = ReadAt(K, q, p))
        BY <3>2 DEF Stores
      <4>3. QED BY <3>2, <4>1, <4>2
    <3>3. QED BY <3>1, <3>2
  <2>3. QED BY <2>1, <2>2 DEF Stores
<1>13. \A q \in 1 .. Len(K) : d2[q].addrSent = d[q].addrSent /\ (K[q].mode = 0 => d2[q] = d[q])
  BY <1>8, <1>9
<1>14. ASSUME NEW t, Fed(K, p, d, t) PROVE Fed(K, p, d2, t)
  <2>1. PICK L \in Nat : p <= L /\ Supplied(K, d, L) /\ Feeds(K, p, L, t)
    BY <1>14 DEF Fed
  <2>2. ASSUME NEW q \in 1 .. Len(K) PROVE InOrderGiven(d2[q]) /\ Given(d2[q]) = Given(d[q])
    <3>1. CASE q = qp
      <4>1. InOrderGiven(d[qp])
        BY <2>1 DEF Supplied
      <4>2. f.mode = 1 /\ f.addrReq = d[qp].addrReq /\ f.length = d[qp].length /\ f.addrSent = d[qp].addrSent
        BY <1>2, <1>8 DEF SameFlags, SameTransfer
      <4>3. InOrderGiven(f)
        BY <1>4, <1>8, <4>1, <4>2 DEF InOrderGiven
      <4>4. Given(f) = Given(d[qp])
        BY <1>2, <4>2 DEF Given
      <4>5. QED BY <1>9, <3>1, <4>3, <4>4
    <3>2. CASE q # qp
      BY <1>9, <2>1, <3>2 DEF Supplied
    <3>3. QED BY <3>1, <3>2
  <2>3. Supplied(K, d2, L)
    BY <2>1, <2>2 DEF Supplied
  <2>4. QED BY <1>14, <2>1, <2>3 DEF Fed
<1>15. d2[qp].position = ReadAt(K, qp, p)
  BY <1>4, <1>8, <1>9
<1>16. QED BY <1>10, <1>11, <1>12, <1>13, <1>14, <1>15

--------------------
(* The driver and the controller while a transaction is at work.           *)
Codes == {"OK", "ADDR_NAK", "DATA_NAK", "ARBITRATION"}

Driver ==
  [dq : Seq(Entries), queuePos : Nat, byteCnt : Nat, stage : {"DONE", "STARTUP", "RUNNING"},
   error : Codes, exitCode : SUBSET Bits, cmd : Seq(Cmds), tx : Seq(Tokens), rx : Seq(Tokens),
   int : SUBSET AllInts, ena : SUBSET AllInts, go : BOOLEAN, own : BOOLEAN, held : BOOLEAN]

(* The controller runs a list, or waits to be told what to do *)
Lists(K, p, d, go, c, int) ==
  /\ go => Running(K, d, c, p)
  /\ "END_DETECT" \in int => ~go /\ p < Len(Stream(K)) /\ Reached(d, p)
  /\ "TRANS_COMPLETE" \in int => ~go /\ p = Len(Stream(K)) /\ "TRAN_COMP" \notin int
  /\ "ACK_ERR" \in int => ~go /\ ByteAt(K, p)
  /\ "ARBITRATION" \in int => ~go

Loaded(d) == \A q \in 1 .. Len(d) : ~Unloaded(d[q])

(* END_DETECT is disabled once served if no more END follows, and TX_EMPTY *)
(* once there is nothing left to be put in the FIFO                        *)
Enabled(ena, d) ==
  AllInts \ {"END_DETECT", "TX_EMPTY"} \subseteq ena /\ ("TX_EMPTY" \notin ena => Loaded(d))

Works(K, s, p) ==
  /\ s \in Driver /\ Likewise(K, s.dq)
  /\ Counts(K, p, s.int, s.queuePos, s.byteCnt)
  /\ Lists(K, p, s.dq, s.go, s.cmd, s.int)
  /\ Enabled(s.ena, s.dq)
  /\ Fed(K, p, s.dq, s.tx)
  /\ Stores(K, p, s.dq, s.queuePos, s.rx) /\ Len(s.rx) <= RXCAP

(* What the handler's parts leave alone *)
SameCourse(s, t) ==
  /\ t.go = s.go /\ t.error = s.error /\ t.exitCode = s.exitCode /\ t.held = s.held /\ t.own = s.own

(* Interrupts that are served leave what the others say *)
LEMMA CountsSame ==
  ASSUME NEW K, NEW p, NEW int, NEW int2, "TRAN_COMP" \in int <=> "TRAN_COMP" \in int2,
         NEW qp, NEW n, Counts(K, p, int, qp, n)
  PROVE  Counts(K, p, int2, qp, n)
BY DEF Counts

LEMMA ListsLess ==
  ASSUME NEW K, NEW p, NEW d, NEW go, NEW c, NEW int, Lists(K, p, d, go, c, int),
         NEW int2, int2 \subseteq int
  PROVE  Lists(K, p, d, go, c, int2)
<1>1. \A i : i \in int2 => i \in int
  OBVIOUS
<1>2. QED BY <1>1 DEF Lists

LEMMA TransStartKeeps ==
  ASSUME NEW K \in Queued, NEW p \in Nat, NEW s, Works(K, s, p), NEW t, t = OnTransStart(s)
  PROVE  /\ Works(K, t, p) /\ t.int = s.int \ {"TRANS_START"} /\ SameCourse(s, t)
         /\ t.ena = s.ena /\ t.dq = s.dq /\ t.rx = s.rx /\ t.tx = s.tx /\ t.cmd = s.cmd
         /\ t.queuePos = s.queuePos /\ t.byteCnt = s.byteCnt
         /\ t.stage # "DONE" <=> s.stage # "DONE"
<1>1. s \in Driver
  BY DEF Works
<1>2. PICK i, g : i = s.int \ {"TRANS_START"} /\ g = IF s.stage = "STARTUP" THEN "RUNNING" ELSE s.stage
  OBVIOUS
<1>3. i \in SUBSET AllInts /\ g \in {"DONE", "STARTUP", "RUNNING"} /\ (g # "DONE" <=> s.stage # "DONE")
  BY <1>1, <1>2 DEF Driver
<1>4. t = [s EXCEPT !.stage = g, !.int = i]
  BY <1>2 DEF OnTransStart
<1>5. /\ t \in Driver /\ t.int = i /\ t.stage = g /\ t.dq = s.dq /\ t.queuePos = s.queuePos
      /\ t.byteCnt = s.byteCnt /\ t.error = s.error /\ t.exitCode = s.exitCode /\ t.cmd = s.cmd
      /\ t.tx = s.tx /\ t.rx = s.rx /\ t.ena = s.ena /\ t.go = s.go /\ t.own = s.own /\ t.held = s.held
  BY <1>1, <1>3, <1>4 DEF Driver
<1>6. i \subseteq s.int /\ ("TRAN_COMP" \in s.int <=> "TRAN_COMP" \in i)
  BY <1>2
<1>7. Counts(K, p, i, s.queuePos, s.byteCnt) /\ Lists(K, p, s.dq, s.go, s.cmd, i)
  BY <1>6, CountsSame, ListsLess DEF Works
<1>8. Works(K, t, p)
  BY <1>5, <1>7 DEF Works
<1>9. QED BY <1>2, <1>3, <1>5, <1>8 DEF SameCourse
LEMMA WorksAt ==
  ASSUME NEW K \in Queued, NEW p \in Nat, NEW s, Works(K, s, p)
  PROVE  /\ s \in Driver /\ s.queuePos \in 1 .. Len(K) /\ s.queuePos \in 1 .. Len(s.dq)
         /\ s.dq \in Seq(Entries) /\ Len(s.dq) = Len(K) /\ Len(K) \in Nat /\ s.byteCnt \in Nat
         /\ \A q \in 1 .. Len(K) :
              /\ s.dq[q] \in Entries /\ SameTransfer(K[q], s.dq[q])
              /\ s.dq[q].mode = K[q].mode /\ s.dq[q].addrReq = K[q].addrReq
              /\ s.dq[q].length = K[q].length /\ queueLength(s.dq[q]) = queueLength(K[q])
              /\ K[q].mode \in {0, 1}
<1>1. s \in Driver /\ Likewise(K, s.dq) /\ Counts(K, p, s.int, s.queuePos, s.byteCnt)
  BY DEF Works
<1>2. s.queuePos \in 1 .. Len(K)
  BY <1>1, CountsType
<1>3. s.dq \in Seq(Entries) /\ Len(s.dq) = Len(K) /\ Len(K) \in Nat
  BY <1>1, <1>2, LikewiseEntry
<1>4. s.byteCnt \in Nat
  BY <1>1 DEF Driver
<1>5. ASSUME NEW q \in 1 .. Len(K)
      PROVE  /\ s.dq[q] \in Entries /\ K[q] \in Entries /\ SameTransfer(K[q], s.dq[q])
             /\ queueLength(s.dq[q]) = queueLength(K[q])
  BY <1>1, LikewiseEntry
<1>6. ASSUME NEW q \in 1 .. Len(K)
      PROVE  /\ s.dq[q].mode = K[q].mode /\ s.dq[q].addrReq = K[q].addrReq
             /\ s.dq[q].length = K[q].length /\ K[q].mode \in {0, 1}
  BY <1>5 DEF SameTransfer, Entries
<1>7. QED BY <1>1, <1>2, <1>3, <1>4, <1>5, <1>6

(* emptyRxFifo moves n bytes, from the FIFO to the buffer                  *)
Taking(s, n, r, y, m) ==
  /\ ~(s.dq[s.queuePos].mode = 0)
  /\ n = Min(Len(s.rx), s.dq[s.queuePos].length - s.dq[s.queuePos].position)
  /\ r = SubSeq(s.rx, n + 1, Len(s.rx))
  /\ y = s.dq[s.queuePos].data \o SubSeq(s.rx, 1, n)
  /\ m = s.dq[s.queuePos].position + n

Taken(s, r, y, m) ==
  [s EXCEPT !.rx = r, !.dq = [s.dq EXCEPT ![s.queuePos] = WithData(s.dq[s.queuePos], y, m)]]

LEMMA EmptyIs ==
  ASSUME NEW s, NEW n, NEW r, NEW y, NEW m, Taking(s, n, r, y, m)
  PROVE  EmptyRxFifo(s) = Taken(s, r, y, m)
<1>1. EmptyRxFifo(s) =
        [s EXCEPT !.rx = SubSeq(s.rx, n + 1, Len(s.rx)),
                  !.dq[s.queuePos].data = s.dq[s.queuePos].data \o SubSeq(s.rx, 1, n),
                  !.dq[s.queuePos].position = s.dq[s.queuePos].position + n]
  BY Zenon DEF EmptyRxFifo, Taking
<1>2. EmptyRxFifo(s) =
        [s EXCEPT !.rx = r, !.dq[s.queuePos].data = y, !.dq[s.queuePos].position = m]
  BY <1>1, Zenon DEF Taking
<1>3. [s EXCEPT !.rx = r, !.dq[s.queuePos].data = y, !.dq[s.queuePos].position = m] =
        [s EXCEPT !.rx = r, !.dq = [s.dq EXCEPT ![s.queuePos] = WithData(s.dq[s.queuePos], y, m)]]
  <2>1. PICK q, e : q = s.queuePos /\ e = WithData(s.dq[s.queuePos], y, m)
    OBVIOUS
  <2>2. e = [s.dq[q] EXCEPT !.data = y, !.position = m]
    BY <2>1, Zenon DEF WithData
  <2>3. [s EXCEPT !.rx = r, !.dq[q].data = y, !.dq[q].position = m] =
          [s EXCEPT !.rx = r, !.dq = [s.dq EXCEPT ![q] = [s.dq[q] EXCEPT !.data = y, !.position = m]]]
    BY ONLY TRUE
  <2>4. QED BY <2>1, <2>2, <2>3, Zenon
<1>4. QED BY <1>2, <1>3, Zenon DEF Taken

LEMMA EmptyKeeps ==
  ASSUME NEW K \in Queued, NEW p \in Nat, NEW s, Works(K, s, p), NEW t, t = EmptyRxFifo(s)
  PROVE  /\ Works(K, t, p) /\ SameCourse(s, t) /\ t.rx = <<>>
         /\ t.int = s.int /\ t.ena = s.ena /\ t.stage = s.stage /\ t.tx = s.tx /\ t.cmd = s.cmd
         /\ t.queuePos = s.queuePos /\ t.byteCnt = s.byteCnt
         /\ K[s.queuePos].mode = 1 => t.dq[s.queuePos].position = ReadAt(K, s.queuePos, p)
<1>1. /\ s \in Driver /\ s.queuePos \in 1 .. Len(K) /\ s.queuePos \in 1 .. Len(s.dq)
      /\ s.dq[s.queuePos].mode = K[s.queuePos].mode /\ K[s.queuePos].mode \in {0, 1}
  BY WorksAt
<1>2. PICK q : q = s.queuePos
  OBVIOUS
<1>3. /\ Likewise(K, s.dq) /\ Stores(K, p, s.dq, q, s.rx) /\ Fed(K, p, s.dq, s.tx)
      /\ Enabled(s.ena, s.dq) /\ Lists(K, p, s.dq, s.go, s.cmd, s.int) /\ Len(s.rx) <= RXCAP
      /\ Counts(K, p, s.int, q, s.byteCnt)
  BY <1>2 DEF Works
<1>4. CASE K[q].mode = 0
  <2>1. t = s
    BY <1>1, <1>2, <1>4 DEF EmptyRxFifo
  <2>2. s.rx = <<>>
    BY <1>3, <1>4 DEF Stores
  <2>3. QED BY <1>2, <1>4, <2>1, <2>2 DEF SameCourse
<1>5. CASE K[q].mode = 1
  <2>1. PICK n : n = Len(s.rx)
    OBVIOUS
  <2>2. PICK f : f = WithData(s.dq[q], s.dq[q].data \o s.rx, s.dq[q].position + n)
    OBVIOUS
  <2>3. PICK d2 : d2 = [s.dq EXCEPT ![q] = f]
    OBVIOUS
  <2>4. /\ Min(Len(s.rx), s.dq[q].length - s.dq[q].position) = Len(s.rx)
        /\ SubSeq(s.rx, Len(s.rx) + 1, Len(s.rx)) = <<>> /\ SubSeq(s.rx, 1, Len(s.rx)) = s.rx
    <3>1. q \in 1 .. Len(K)
      BY <1>1, <1>2
    <3>2. PICK d, x : d = s.dq /\ x = s.rx
      OBVIOUS
    <3>3. Likewise(K, d) /\ Stores(K, p, d, q, x)
      BY <1>3, <3>2
    <3>4. TakesAll(x, d[q])
      BY <1>5, <3>1, <3>3, AllFits
    <3>5. QED BY <3>2, <3>4, Zenon DEF TakesAll
  <2>5. t = [s EXCEPT !.rx = <<>>, !.dq = d2]
    <3>1. ~(s.dq[s.queuePos].mode = 0)
      BY <1>1, <1>2, <1>5
    <3>2. n = Min(Len(s.rx), s.dq[s.queuePos].length - s.dq[s.queuePos].position)
      BY <1>2, <2>1, <2>4, Zenon
    <3>3. <<>> = SubSeq(s.rx, n + 1, Len(s.rx)) /\ SubSeq(s.rx, 1, n) = s.rx
      BY <2>1, <2>4, Zenon
    <3>4. PICK y, m : y = s.dq[s.queuePos].data \o SubSeq(s.rx, 1, n) /\ m = s.dq[s.queuePos].position + n
      OBVIOUS
    <3>5. EmptyRxFifo(s) =
            [s EXCEPT !.rx = <<>>, !.dq = [s.dq EXCEPT ![s.queuePos] = WithData(s.dq[s.queuePos], y, m)]]
      <4>1. PICK r : r = <<>>
        OBVIOUS
      <4>2. Taking(s, n, r, y, m)
        BY <3>1, <3>2, <3>3, <3>4, <4>1, Zenon DEF Taking
      <4>3. EmptyRxFifo(s) = Taken(s, r, y, m)
        BY <4>2, EmptyIs
      <4>4. QED BY <4>1, <4>3, Zenon DEF Taken
    <3>6. f = WithData(s.dq[s.queuePos], y, m)
      BY <1>2, <2>2, <3>3, <3>4, Zenon
    <3>7. QED BY <1>2, <2>3, <3>5, <3>6, Zenon
  <2>6. /\ Likewise(K, d2) /\ Stores(K, p, d2, q, <<>>)
        /\ \A r \in 1 .. Len(K) : SameFlags(s.dq[r], d2[r])
        /\ d2[q].position = ReadAt(K, q, p)
        /\ Fed(K, p, d2, s.tx)
        /\ \A r \in 1 .. Len(K) : d2[r].addrSent = s.dq[r].addrSent /\ (K[r].mode = 0 => d2[r] = s.dq[r])
    <3>1. q \in 1 .. Len(K)
      BY <1>1, <1>2
    <3>2. PICK d, x, u : d = s.dq /\ x = s.rx /\ u = s.tx
      OBVIOUS
    <3>3. Likewise(K, d) /\ Stores(K, p, d, q, x) /\ Fed(K, p, d, u)
      BY <1>3, <3>2
    <3>4. Emptying(d, q, x, f, d2)
      BY <2>1, <2>2, <2>3, <3>2, Zenon DEF Emptying
    <3>5. /\ Likewise(K, d2) /\ Stores(K, p, d2, q, <<>>)
          /\ \A r \in 1 .. Len(K) : SameFlags(d[r], d2[r])
          /\ d2[q].position = ReadAt(K, q, p)
          /\ \A v : Fed(K, p, d, v) => Fed(K, p, d2, v)
          /\ \A r \in 1 .. Len(K) : d2[r].addrSent = d[r].addrSent /\ (K[r].mode = 0 => d2[r] = d[r])
      BY <1>5, <3>1, <3>3, <3>4, Emptied
    <3>6. QED BY <3>2, <3>3, <3>5, Zenon
  <2>7. d2 \in Seq(Entries) /\ <<>> \in Seq(Tokens) /\ Len(d2) = Len(K) /\ Len(s.dq) = Len(K)
    BY <1>3, <2>6 DEF Likewise
  <2>8. /\ t \in Driver /\ t.dq = d2 /\ t.queuePos = q /\ t.rx = <<>>
        /\ t.byteCnt = s.byteCnt /\ t.error = s.error /\ t.exitCode = s.exitCode /\ t.cmd = s.cmd
        /\ t.tx = s.tx /\ t.int = s.int /\ t.ena = s.ena /\ t.go = s.go /\ t.own = s.own
        /\ t.held = s.held /\ t.stage = s.stage
    BY <1>1, <1>2, <2>5, <2>7 DEF Driver
  <2>9. Lists(K, p, d2, s.go, s.cmd, s.int)
    <3>1. s.go => Running(K, d2, s.cmd, p)
      BY <1>3, <2>6, RunningKept DEF Lists
    <3>2. "END_DETECT" \in s.int => Reached(d2, p)
      BY <1>3, <2>6, ReachedKept DEF Lists
    <3>3. QED BY <1>3, <3>1, <3>2 DEF Lists
  <2>10. Enabled(s.ena, d2)
    <3>1. ASSUME NEW r \in 1 .. Len(K), ~Unloaded(s.dq[r]) PROVE ~Unloaded(d2[r])
      BY <2>6, <3>1, WorksAt DEF Unloaded, SameFlags, SameTransfer
    <3>2. Loaded(s.dq) => Loaded(d2)
      BY <2>7, <3>1 DEF Loaded
    <3>3. QED BY <1>3, <3>2 DEF Enabled
  <2>11. Len(<<>>) <= RXCAP
    BY DriverAssumption
  <2>12. Works(K, t, p)
    BY <1>3, <2>6, <2>8, <2>9, <2>10, <2>11 DEF Works
  <2>13. QED BY <1>2, <2>6, <2>8, <2>12 DEF SameCourse
<1>6. QED BY <1>1, <1>2, <1>4, <1>5

LEMMA RxFullKeeps ==
  ASSUME NEW K \in Queued, NEW p \in Nat, NEW s, Works(K, s, p), NEW t, t = OnRxFull(s)
  PROVE  /\ Works(K, t, p) /\ SameCourse(s, t) /\ t.rx = <<>>
         /\ t.int = s.int /\ t.stage = s.stage /\ t.tx = s.tx /\ t.cmd = s.cmd
         /\ t.queuePos = s.queuePos /\ t.byteCnt = s.byteCnt
         /\ K[s.queuePos].mode = 1 => t.dq[s.queuePos].position = ReadAt(K, s.queuePos, p)
<1>1. PICK u : u = EmptyRxFifo(s)
  OBVIOUS
<1>2. /\ Works(K, u, p) /\ SameCourse(s, u) /\ u.rx = <<>>
      /\ u.int = s.int /\ u.ena = s.ena /\ u.stage = s.stage /\ u.tx = s.tx /\ u.cmd = s.cmd
      /\ u.queuePos = s.queuePos /\ u.byteCnt = s.byteCnt
      /\ K[s.queuePos].mode = 1 => u.dq[s.queuePos].position = ReadAt(K, s.queuePos, p)
  BY <1>1, EmptyKeeps, SMTT(30)
<1>3. PICK e : e = u.ena \union {"RX_FULL"}
  OBVIOUS
<1>4. t = [u EXCEPT !.ena = e]
  BY <1>1, <1>3 DEF OnRxFull
<1>5. u \in Driver /\ e \in SUBSET AllInts
  <2>1. u \in Driver
    BY <1>2 DEF Works
  <2>2. u.ena \in SUBSET AllInts /\ "RX_FULL" \in AllInts
    BY <2>1 DEF Driver, AllInts
  <2>3. QED BY <1>3, <2>1, <2>2
<1>6. /\ t \in Driver /\ t.ena = e /\ t.rx = u.rx
      /\ t.dq = u.dq /\ t.queuePos = u.queuePos /\ t.byteCnt = u.byteCnt /\ t.error = u.error
      /\ t.exitCode = u.exitCode /\ t.cmd = u.cmd /\ t.tx = u.tx /\ t.int = u.int /\ t.go = u.go
      /\ t.own = u.own /\ t.held = u.held /\ t.stage = u.stage
  BY <1>4, <1>5 DEF Driver
<1>7. Enabled(e, u.dq)
  <2>1. Enabled(u.ena, u.dq)
    BY <1>2 DEF Works
  <2>2. u.ena \subseteq e /\ ("TX_EMPTY" \notin e => "TX_EMPTY" \notin u.ena)
    BY <1>3
  <2>3. QED BY <2>1, <2>2 DEF Enabled
<1>8. Works(K, t, p)
  BY <1>2, <1>6, <1>7 DEF Works
<1>9. QED BY <1>2, <1>6, <1>8 DEF SameCourse

--------------------
(* fillTxFifo.                                                             *)

(* An entry that has moved whole *)
LEMMA MovedAll ==
  ASSUME NEW K \in Queued, NEW q \in 1 .. Len(K), NEW p \in Nat, MovedAt(K, q, p) = queueLength(K[q])
  PROVE  First(K, q) + queueLength(K[q]) <= p
<1>1. p \in Int
  OBVIOUS
<1>2. MovedAt(K, q, p) = Clamp(p - First(K, q), queueLength(K[q]))
  BY <1>1, MovedType
<1>3. PICK f \in Nat, l \in Nat : f = First(K, q) /\ l = queueLength(K[q]) /\ l > 0
  BY EntryPlace
<1>4. Clamp(p - f, l) = l
  BY <1>2, <1>3
<1>5. f + l <= p
  BY <1>3, <1>4 DEF Clamp
<1>6. QED BY <1>3, <1>5

LEMMA BeforeLoaded ==
  ASSUME NEW K \in Queued, NEW p \in Nat, NEW s, Works(K, s, p), NEW q \in 1 .. s.queuePos - 1
  PROVE  ~Unloaded(s.dq[q])
<1>1. s.queuePos \in 1 .. Len(K) /\ Len(K) \in Nat
  BY WorksAt
<1>2. q \in 1 .. Len(K)
  BY <1>1
<1>3. MovedAt(K, q, p) = queueLength(K[q])
  BY CountsType DEF Works
<1>4. First(K, q) + queueLength(K[q]) <= p
  BY <1>2, <1>3, MovedAll
<1>5. QED BY <1>2, <1>4, LoadedBefore DEF Works

Waiting(s) == {q \in s.queuePos .. Len(s.dq) : Unloaded(s.dq[q])}

(* The byte and the entry it is taken from *)
Loading(s, a, f, e) ==
  IF s.dq[a].addrSent < s.dq[a].addrReq
  THEN /\ e = Token("addr", a, s.dq[a].addrSent + 1)
       /\ f = [s.dq[a] EXCEPT !.addrSent = s.dq[a].addrSent + 1]
  ELSE /\ e = Token("write", a, s.dq[a].position + 1)
       /\ f = [s.dq[a] EXCEPT !.position = s.dq[a].position + 1]

LoadedOne(s, a, f, e) == [s EXCEPT !.tx = Append(s.tx, e), !.dq = [s.dq EXCEPT ![a] = f]]

LEMMA LoadIs ==
  ASSUME NEW s, NEW a, a = CHOOSE q \in Waiting(s) : \A r \in Waiting(s) : q <= r
  PROVE  /\ TxFull(s) \/ Waiting(s) = {} => LoadByte(s) = s
         /\ ~(TxFull(s) \/ Waiting(s) = {}) =>
              \E f, e : Loading(s, a, f, e) /\ LoadByte(s) = LoadedOne(s, a, f, e)
<1>1. CASE TxFull(s) \/ Waiting(s) = {}
  BY <1>1, Zenon DEF LoadByte, Waiting
<1>2. CASE ~(TxFull(s) \/ Waiting(s) = {}) /\ s.dq[a].addrSent < s.dq[a].addrReq
  <2>1. LoadByte(s) = [s EXCEPT !.tx = Append(@, Token("addr", a, s.dq[a].addrSent + 1)),
                                !.dq[a].addrSent = @ + 1]
    BY <1>2, Zenon DEF LoadByte, Waiting
  <2>2. PICK n, e : n = s.dq[a].addrSent + 1 /\ e = Token("addr", a, s.dq[a].addrSent + 1)
    OBVIOUS
  <2>3. LoadByte(s) = [s EXCEPT !.tx = Append(@, e), !.dq[a].addrSent = n]
    BY <2>1, <2>2, Zenon
  <2>4. PICK f : f = [s.dq[a] EXCEPT !.addrSent = n]
    OBVIOUS
  <2>5. LoadByte(s) = LoadedOne(s, a, f, e)
    BY <2>3, <2>4, Zenon DEF LoadedOne
  <2>6. Loading(s, a, f, e)
    BY <1>2, <2>2, <2>4, Zenon DEF Loading
  <2>7. QED BY <1>2, <2>5, <2>6
<1>3. CASE ~(TxFull(s) \/ Waiting(s) = {}) /\ ~(s.dq[a].addrSent < s.dq[a].addrReq)
  <2>1. LoadByte(s) = [s EXCEPT !.tx = Append(@, Token("write", a, s.dq[a].position + 1)),
                                !.dq[a].position = @ + 1]
    BY <1>3, Zenon DEF LoadByte, Waiting
  <2>2. PICK n, e : n = s.dq[a].position + 1 /\ e = Token("write", a, s.dq[a].position + 1)
    OBVIOUS
  <2>3. LoadByte(s) = [s EXCEPT !.tx = Append(@, e), !.dq[a].position = n]
    BY <2>1, <2>2, Zenon
  <2>4. PICK f : f = [s.dq[a] EXCEPT !.position = n]
    OBVIOUS
  <2>5. LoadByte(s) = LoadedOne(s, a, f, e)
    BY <2>3, <2>4, Zenon DEF LoadedOne
  <2>6. Loading(s, a, f, e)
    BY <1>3, <2>2, <2>4, Zenon DEF Loading
  <2>7. QED BY <1>3, <2>5, <2>6
<1>4. QED BY <1>1, <1>2, <1>3

(* Nothing is left to load, or the FIFO is full, or one byte more is in it *)
LEMMA LoadKeeps ==
  ASSUME NEW K \in Queued, NEW p \in Nat, NEW s, Works(K, s, p), NEW t, t = LoadByte(s)
  PROVE  /\ Works(K, t, p) /\ SameCourse(s, t)
         /\ t.int = s.int /\ t.ena = s.ena /\ t.stage = s.stage /\ t.rx = s.rx /\ t.cmd = s.cmd
         /\ t.queuePos = s.queuePos /\ t.byteCnt = s.byteCnt
         /\ \/ t = s /\ (Loaded(s.dq) \/ Len(s.tx) >= TXCAP)
            \/ Len(t.tx) = Len(s.tx) + 1
<1> DEFINE a == CHOOSE q \in Waiting(s) : \A r \in Waiting(s) : q <= r
<1>1. /\ s \in Driver /\ s.queuePos \in 1 .. Len(K)
      /\ s.dq \in Seq(Entries) /\ Len(s.dq) = Len(K) /\ Len(K) \in Nat
  BY WorksAt
<1>2. CASE Waiting(s) = {}
  <2>1. t = s
    BY <1>2, LoadIs
  <2>2. ASSUME NEW q \in 1 .. Len(s.dq) PROVE ~Unloaded(s.dq[q])
    <3>1. CASE q < s.queuePos
      <4>1. q \in 1 .. s.queuePos - 1
        BY <1>1, <3>1
      <4>2. QED BY <4>1, BeforeLoaded
    <3>2. CASE ~(q < s.queuePos)
      <4>1. q \in s.queuePos .. Len(s.dq)
        BY <1>1, <3>2
      <4>2. QED BY <1>2, <4>1 DEF Waiting
    <3>3. QED BY <3>1, <3>2
  <2>3. Loaded(s.dq)
    BY <2>2 DEF Loaded
  <2>4. QED BY <2>1, <2>3 DEF SameCourse
<1>3. CASE TxFull(s)
  <2>1. t = s
    BY <1>3, LoadIs
  <2>2. QED BY <1>3, <2>1 DEF TxFull, SameCourse
<1>4. CASE ~(TxFull(s) \/ Waiting(s) = {})
  <2>1. PICK f, e : Loading(s, a, f, e) /\ t = LoadedOne(s, a, f, e)
    BY <1>4, LoadIs
  <2>2. a \in Waiting(s) /\ \A r \in Waiting(s) : a <= r
    <3>1. Waiting(s) \subseteq Nat /\ Waiting(s) # {}
      BY <1>1, <1>4 DEF Waiting
    <3>2. \E q \in Waiting(s) : \A r \in Waiting(s) : q <= r
      BY <3>1, Least
    <3>3. QED BY <3>2
  <2> HIDE DEF a
  <2>3. a \in 1 .. Len(K) /\ Unloaded(s.dq[a])
    BY <1>1, <2>2 DEF Waiting
  <2>4. ASSUME NEW q \in 1 .. a - 1 PROVE ~Unloaded(s.dq[q])
    <3>1. CASE q < s.queuePos
      <4>1. q \in 1 .. s.queuePos - 1
        BY <1>1, <3>1
      <4>2. QED BY <4>1, BeforeLoaded
    <3>2. CASE ~(q < s.queuePos)
      <4>1. q \in s.queuePos .. Len(s.dq) /\ ~(a <= q)
        BY <1>1, <2>3, <3>2
      <4>2. QED BY <2>2, <4>1 DEF Waiting
    <3>3. QED BY <3>1, <3>2
  <2>5. PICK d, x : d = s.dq /\ x = s.tx
    OBVIOUS
  <2>6. Likewise(K, d) /\ Fed(K, p, d, x) /\ Len(x) < TXCAP /\ x \in Seq(Tokens) /\ Len(x) \in Nat
    <3>1. Likewise(K, d) /\ Fed(K, p, d, x)
      BY <2>5 DEF Works
    <3>2. x \in Seq(Tokens) /\ Len(x) \in Nat
      BY <3>1 DEF Fed
    <3>3. Len(x) < TXCAP
      BY <1>4, <2>5, <3>2, DriverAssumption DEF TxFull
    <3>4. QED BY <3>1, <3>2, <3>3
  <2>7. d[a] \in Entries /\ InOrderGiven(d[a]) /\ Unloaded(d[a]) /\ a \in Nat
    <3>1. d[a] \in Entries /\ a \in Nat
      BY <1>1, <2>3, <2>5
    <3>2. InOrderGiven(d[a])
      BY <2>3, <2>6 DEF Fed, Supplied
    <3>3. QED BY <2>3, <2>5, <3>1, <3>2
  <2>8. f \in Entries /\ OneGiven(d[a], f) /\ e \in Tokens /\ e = ByteOf(d[a], a, Given(d[a]) + 1)
    <3>1. PICK g : g = d[a]
      OBVIOUS
    <3>2. g \in Entries /\ InOrderGiven(g) /\ Unloaded(g)
      BY <2>7, <3>1
    <3>3. CASE g.addrSent < g.addrReq
      <4>1. e = Token("addr", a, g.addrSent + 1) /\ f = [g EXCEPT !.addrSent = g.addrSent + 1]
        BY <2>1, <2>5, <3>1, <3>3, Zenon DEF Loading
      <4>2. f \in Entries /\ OneGiven(g, f) /\ e \in Tokens /\ e = ByteOf(g, a, Given(g) + 1)
        BY <2>7, <3>2, <3>3, <4>1, GivenAddress, Zenon
      <4>3. QED BY <3>1, <4>2
    <3>4. CASE ~(g.addrSent < g.addrReq)
      <4>1. e = Token("write", a, g.position + 1) /\ f = [g EXCEPT !.position = g.position + 1]
        BY <2>1, <2>5, <3>1, <3>4, Zenon DEF Loading
      <4>2. f \in Entries /\ OneGiven(g, f) /\ e \in Tokens /\ e = ByteOf(g, a, Given(g) + 1)
        BY <2>7, <3>2, <3>4, <4>1, GivenData, Zenon
      <4>3. QED BY <3>1, <4>2
    <3>5. QED BY <3>3, <3>4
  <2>9. PICK d2, x2 : d2 = [d EXCEPT ![a] = f] /\ x2 = Append(x, e)
    OBVIOUS
  <2>10. Likewise(K, d2) /\ Fed(K, p, d2, x2)
    <3>1. \A q \in 1 .. a - 1 : ~Unloaded(d[q])
      BY <2>4, <2>5
    <3>2. Likewise(K, [d EXCEPT ![a] = f]) /\ Fed(K, p, [d EXCEPT ![a] = f], Append(x, e))
      BY <2>3, <2>6, <2>7, <2>8, <3>1, FedMore
    <3>3. QED BY <2>9, <3>2, Zenon
  <2>11. x2 \in Seq(Tokens) /\ Len(x2) = Len(x) + 1 /\ d2 \in Seq(Entries) /\ Len(d2) = Len(K)
    BY <2>6, <2>8, <2>9, <2>10 DEF Likewise
  <2>12. t = [s EXCEPT !.tx = x2, !.dq = d2]
    BY <2>1, <2>5, <2>9, Zenon DEF LoadedOne
  <2>13. /\ t \in Driver /\ t.dq = d2 /\ t.tx = x2 /\ t.queuePos = s.queuePos
         /\ t.byteCnt = s.byteCnt /\ t.error = s.error /\ t.exitCode = s.exitCode /\ t.cmd = s.cmd
         /\ t.rx = s.rx /\ t.int = s.int /\ t.ena = s.ena /\ t.go = s.go /\ t.own = s.own
         /\ t.held = s.held /\ t.stage = s.stage
    BY <1>1, <2>11, <2>12 DEF Driver
  <2>14. \A q \in 1 .. Len(K) : SameWork(d[q], d2[q])
    <3> TAKE q \in 1 .. Len(K)
    <3>1. CASE q = a
      BY <1>1, <2>5, <2>8, <2>9, <3>1 DEF OneGiven
    <3>2. CASE q # a
      <4>1. d2[q] = d[q]
        BY <1>1, <2>5, <2>9, <3>2
      <4>2. QED BY <4>1 DEF SameWork, SameTransfer
    <3>3. QED BY <3>1, <3>2
  <2>15. \A q \in 1 .. Len(K) : SameFlags(d[q], d2[q])
    BY <2>14, WorkFlags
  <2>16. Stores(K, p, d2, s.queuePos, s.rx)
    <3>1. \A q \in 1 .. Len(K) : SameRead(d[q], d2[q])
      BY <2>14 DEF SameWork, SameRead
    <3>2. QED BY <1>1, <2>5, <2>6, <3>1, StoresWork DEF Works
  <2>17. Lists(K, p, d2, s.go, s.cmd, s.int)
    <3>0. Lists(K, p, d, s.go, s.cmd, s.int)
      BY <2>5 DEF Works
    <3>1. s.go => Running(K, d2, s.cmd, p)
      BY <2>6, <2>10, <2>15, <3>0, RunningKept DEF Lists
    <3>2. "END_DETECT" \in s.int => Reached(d2, p)
      BY <2>6, <2>10, <2>15, <3>0, ReachedKept DEF Lists
    <3>3. QED BY <3>0, <3>1, <3>2 DEF Lists
  <2>18. Enabled(s.ena, d2)
    <3>1. ~Loaded(s.dq)
      BY <1>1, <2>3 DEF Loaded
    <3>2. Enabled(s.ena, s.dq)
      BY DEF Works
    <3>3. QED BY <3>1, <3>2 DEF Enabled
  <2>19. Works(K, t, p)
    BY <2>10, <2>13, <2>16, <2>17, <2>18 DEF Works
  <2>20. QED BY <2>5, <2>11, <2>13, <2>19 DEF SameCourse
<1>5. QED BY <1>2, <1>3, <1>4

LEMMA LoadedStays ==
  ASSUME NEW K \in Queued, NEW p \in Nat, NEW s, Works(K, s, p), Loaded(s.dq)
  PROVE  LoadByte(s) = s
<1>1. s.queuePos \in 1 .. Len(K) /\ Len(s.dq) = Len(K) /\ Len(K) \in Nat
  BY WorksAt
<1>2. Waiting(s) = {}
  BY <1>1 DEF Waiting, Loaded
<1>3. QED BY <1>2, LoadIs

(* The states that the loop of fillTxFifo goes through *)
LoadsRun(s, N, r) ==
  r[0] = s /\ Repeat(LoadByte, s, N) = r[N] /\ \A k \in 1 .. N : r[k] = LoadByte(r[k - 1])

LEMMA LoadsAre ==
  ASSUME NEW s, NEW N \in Nat PROVE \E r : LoadsRun(s, N, r)
<1> DEFINE Good(n, g) ==
             g = [k \in 0 .. n |->
                    IF k = 0 THEN s ELSE CHOOSE t \in {LoadByte(u) : u \in {g[k - 1]}} : TRUE]
           T == {n \in Nat : \E g : Good(n, g)}
<1>1. 0 \in T
  <2>1. Good(0, [k \in 0 .. 0 |-> s])
    OBVIOUS
  <2>2. QED BY <2>1
<1>2. ASSUME NEW n \in Nat, n \in T PROVE n + 1 \in T
  <2>1. PICK g : Good(n, g)
    BY <1>2
  <2> DEFINE h == [k \in 0 .. n + 1 |-> IF k = n + 1 THEN LoadByte(g[n]) ELSE g[k]]
  <2>2. ASSUME NEW k \in 0 .. n + 1
        PROVE  h[k] = IF k = 0 THEN s ELSE CHOOSE t \in {LoadByte(u) : u \in {h[k - 1]}} : TRUE
    <3>1. \A x : (CHOOSE t \in {LoadByte(u) : u \in {x}} : TRUE) = LoadByte(x)
      OBVIOUS
    <3>2. \A j \in 0 .. n : g[j] = IF j = 0 THEN s ELSE LoadByte(g[j - 1])
      BY <2>1, <3>1
    <3>3. h[k] = IF k = 0 THEN s ELSE LoadByte(h[k - 1])
      BY <3>2
    <3>4. QED BY <3>1, <3>3, Zenon
  <2>3. Good(n + 1, h)
    BY <2>2
  <2> HIDE DEF Good
  <2>4. QED BY <2>3
<1>3. PICK g : Good(N, g)
  <2> HIDE DEF T
  <2>1. \A n \in 0 .. N : n \in T
    BY <1>1, <1>2, Induct
  <2>2. N \in T
    BY <2>1
  <2>3. QED BY <2>2 DEF T
<1> DEFINE r == CHOOSE r : Good(N, r)
<1>4. Good(N, r)
  BY <1>3
<1>5. Repeat(LoadByte, s, N) = r[N]
  BY DEF Repeat, Then
<1> HIDE DEF r
<1>6. r[0] = s /\ \A k \in 1 .. N : r[k] = LoadByte(r[k - 1])
  BY <1>4
<1>7. QED BY <1>5, <1>6 DEF LoadsRun

(* After k of them *)
LoadedSo(K, p, s, t, k) ==
  /\ Works(K, t, p) /\ SameCourse(s, t)
  /\ t.int = s.int /\ t.ena = s.ena /\ t.stage = s.stage /\ t.rx = s.rx /\ t.cmd = s.cmd
  /\ t.queuePos = s.queuePos /\ t.byteCnt = s.byteCnt
  /\ Loaded(t.dq) \/ Len(t.tx) >= TXCAP \/ Len(t.tx) >= k

LEMMA LoadedMore ==
  ASSUME NEW K \in Queued, NEW p \in Nat, NEW s, NEW t, NEW k \in Nat, LoadedSo(K, p, s, t, k)
  PROVE  LoadedSo(K, p, s, LoadByte(t), k + 1)
<1>1. PICK u : u = LoadByte(t)
  OBVIOUS
<1>2. Works(K, t, p)
  BY DEF LoadedSo
<1>3. /\ Works(K, u, p) /\ SameCourse(t, u)
      /\ u.int = t.int /\ u.ena = t.ena /\ u.stage = t.stage /\ u.rx = t.rx /\ u.cmd = t.cmd
      /\ u.queuePos = t.queuePos /\ u.byteCnt = t.byteCnt
      /\ \/ u = t /\ (Loaded(t.dq) \/ Len(t.tx) >= TXCAP)
         \/ Len(u.tx) = Len(t.tx) + 1
  BY <1>1, <1>2, LoadKeeps
<1>4. PICK m \in Nat : m = Len(t.tx)
  BY <1>2 DEF Works, Fed
<1>5. PICK n \in Nat : n = Len(u.tx)
  BY <1>3 DEF Works, Fed
<1>6. TXCAP \in Nat
  BY DriverAssumption
<1>7. Loaded(u.dq) \/ n >= TXCAP \/ n >= k + 1
  <2>1. CASE u = t /\ (Loaded(t.dq) \/ m >= TXCAP)
    BY <1>4, <1>5, <2>1
  <2>2. CASE n = m + 1
    <3>1. Loaded(t.dq) \/ m >= TXCAP \/ m >= k
      BY <1>4 DEF LoadedSo
    <3>2. CASE Loaded(t.dq)
      BY <1>1, <1>2, <2>2, <3>2, LoadedStays
    <3>3. CASE m >= TXCAP \/ m >= k
      BY <1>6, <2>2, <3>3
    <3>4. QED BY <3>1, <3>2, <3>3
  <2>3. QED BY <1>3, <1>4, <1>5, <2>1, <2>2
<1>8. SameCourse(s, u)
  BY <1>3 DEF LoadedSo, SameCourse
<1>9. LoadedSo(K, p, s, u, k + 1)
  BY <1>3, <1>5, <1>7, <1>8 DEF LoadedSo
<1>10. QED BY <1>1, <1>9

LEMMA FillTxKeeps ==
  ASSUME NEW K \in Queued, NEW p \in Nat, NEW s, Works(K, s, p), NEW t, t = FillTxFifo(s)
  PROVE  /\ Works(K, t, p) /\ SameCourse(s, t)
         /\ t.int = s.int /\ t.stage = s.stage /\ t.rx = s.rx /\ t.cmd = s.cmd
         /\ t.queuePos = s.queuePos /\ t.byteCnt = s.byteCnt
<1>1. TXCAP \in Nat /\ TXCAP + 1 \in Nat
  BY DriverAssumption
<1>2. PICK N \in Nat : N = TXCAP + 1
  BY <1>1
<1> PICK r : LoadsRun(s, N, r)
  BY LoadsAre
<1>3. /\ r[0] = s /\ Repeat(LoadByte, s, N) = r[N]
      /\ \A k \in 1 .. N : r[k] = LoadByte(r[k - 1])
  BY DEF LoadsRun
<1> DEFINE T == {k \in Nat : LoadedSo(K, p, s, r[k], k)}
<1>4. 0 \in T
  <2>1. Len(s.tx) \in Nat
    BY DEF Works, Fed
  <2>2. LoadedSo(K, p, s, s, 0)
    BY <2>1 DEF LoadedSo, SameCourse
  <2>3. QED BY <1>3, <2>2
<1>5. ASSUME NEW k \in Nat, k < N, k \in T PROVE k + 1 \in T
  <2>1. k + 1 \in 1 .. N /\ (k + 1) - 1 = k
    BY <1>5
  <2>2. r[k + 1] = LoadByte(r[k])
    BY <1>3, <2>1
  <2>3. LoadedSo(K, p, s, r[k], k)
    BY <1>5
  <2>4. LoadedSo(K, p, s, LoadByte(r[k]), k + 1)
    BY <2>3, LoadedMore
  <2>5. QED BY <2>2, <2>4
<1>6. LoadedSo(K, p, s, r[N], N)
  <2> HIDE DEF T
  <2>1. \A k \in 0 .. N : k \in T
    BY <1>4, <1>5, Induct
  <2>2. N \in T
    BY <2>1
  <2>3. QED BY <2>2 DEF T
<1>7. PICK u : u = r[N]
  OBVIOUS
<1>8. PICK e : e = Refillable(u)
  OBVIOUS
<1>9. t = [u EXCEPT !.ena = e]
  BY <1>2, <1>3, <1>7, <1>8, Zenon DEF FillTxFifo
<1>10. Works(K, u, p) /\ LoadedSo(K, p, s, u, N)
  BY <1>6, <1>7 DEF LoadedSo
<1>11. u \in Driver /\ Len(u.tx) \in Nat /\ Len(u.tx) <= TXCAP /\ Enabled(u.ena, u.dq)
  BY <1>10 DEF Works, Fed
<1>12. Len(u.tx) < TXCAP => Loaded(u.dq)
  <2>1. Loaded(u.dq) \/ Len(u.tx) >= TXCAP \/ Len(u.tx) >= N
    BY <1>10 DEF LoadedSo
  <2>2. QED BY <1>1, <1>2, <1>11, <2>1
<1>13. e \in SUBSET AllInts /\ Enabled(e, u.dq)
  <2>1. e = u.ena \/ (e = u.ena \ {"TX_EMPTY"} /\ Loaded(u.dq))
    BY <1>8, <1>12 DEF Refillable
  <2>2. u.ena \in SUBSET AllInts
    BY <1>11 DEF Driver
  <2>3. CASE e = u.ena
    BY <1>11, <2>2, <2>3
  <2>4. CASE e = u.ena \ {"TX_EMPTY"} /\ Loaded(u.dq)
    BY <1>11, <2>2, <2>4 DEF Enabled
  <2>5. QED BY <2>1, <2>3, <2>4
<1>14. /\ t \in Driver /\ t.ena = e /\ t.rx = u.rx
       /\ t.dq = u.dq /\ t.queuePos = u.queuePos /\ t.byteCnt = u.byteCnt /\ t.error = u.error
       /\ t.exitCode = u.exitCode /\ t.cmd = u.cmd /\ t.tx = u.tx /\ t.int = u.int /\ t.go = u.go
       /\ t.own = u.own /\ t.held = u.held /\ t.stage = u.stage
  BY <1>9, <1>11, <1>13 DEF Driver
<1>15. Works(K, t, p)
  BY <1>10, <1>13, <1>14 DEF Works
<1>16. QED BY <1>10, <1>14, <1>15 DEF LoadedSo, SameCourse

--------------------
(* A byte was moved.                                                       *)
Counting(s, i, n) == [s EXCEPT !.int = i, !.byteCnt = n]

Recounted(s, i, n, d, r, e) ==
  [s EXCEPT !.int = i, !.byteCnt = n, !.dq = d, !.rx = r, !.ena = e]

(* emptyRxFifo does not look at what is counted *)
LEMMA RxFullCounting ==
  ASSUME NEW s \in Driver, ~(s.dq[s.queuePos].mode = 0), NEW i, NEW n,
         NEW u, u = OnRxFull(s), u \in Driver, NEW v, v = OnRxFull(Counting(s, i, n))
  PROVE  v = Recounted(s, i, n, u.dq, u.rx, u.ena)
<1>1. PICK t : t = Counting(s, i, n)
  OBVIOUS
<1>2. /\ t.dq = s.dq /\ t.rx = s.rx /\ t.ena = s.ena /\ t.int = i /\ t.byteCnt = n
      /\ t.queuePos = s.queuePos /\ t.stage = s.stage /\ t.error = s.error
      /\ t.exitCode = s.exitCode /\ t.cmd = s.cmd /\ t.tx = s.tx /\ t.go = s.go
      /\ t.own = s.own /\ t.held = s.held
  BY <1>1 DEF Counting, Driver
<1>3. PICK k : k = Min(Len(s.rx), s.dq[s.queuePos].length - s.dq[s.queuePos].position)
  OBVIOUS
<1>4. PICK r, y, m :
        /\ r = SubSeq(s.rx, k + 1, Len(s.rx))
        /\ y = s.dq[s.queuePos].data \o SubSeq(s.rx, 1, k)
        /\ m = s.dq[s.queuePos].position + k
  OBVIOUS
<1>5. Taking(s, k, r, y, m)
  BY <1>3, <1>4, Zenon DEF Taking
<1>6. Taking(t, k, r, y, m)
  BY <1>2, <1>5, Zenon DEF Taking
<1>7. EmptyRxFifo(s) = Taken(s, r, y, m) /\ EmptyRxFifo(t) = Taken(t, r, y, m)
  BY <1>5, <1>6, EmptyIs
<1>8. PICK d2, e : /\ d2 = [s.dq EXCEPT ![s.queuePos] = WithData(s.dq[s.queuePos], y, m)]
                   /\ e = s.ena \union {"RX_FULL"}
  OBVIOUS
<1>9. EmptyRxFifo(s) = [s EXCEPT !.rx = r, !.dq = d2] /\ EmptyRxFifo(t) = [t EXCEPT !.rx = r, !.dq = d2]
  BY <1>2, <1>7, <1>8, Zenon DEF Taken
<1>10. PICK a, b : a = [s EXCEPT !.rx = r, !.dq = d2] /\ b = [t EXCEPT !.rx = r, !.dq = d2]
  OBVIOUS
<1>11. u = [a EXCEPT !.ena = @ \union {"RX_FULL"}] /\ v = [b EXCEPT !.ena = @ \union {"RX_FULL"}]
  BY <1>1, <1>9, <1>10, Zenon DEF OnRxFull
<1>12. a.ena = s.ena /\ b.ena = s.ena
  BY <1>1, <1>10 DEF Driver, Counting
<1>13. u = [a EXCEPT !.ena = e] /\ v = [b EXCEPT !.ena = e]
  BY <1>8, <1>11, <1>12, Zenon
<1>14. u.dq = d2 /\ u.rx = r /\ u.ena = e
  BY <1>10, <1>13 DEF Driver
<1>15. t = [s EXCEPT !.int = i, !.byteCnt = n]
  BY <1>1 DEF Counting
<1>16. v = [s EXCEPT !.int = i, !.byteCnt = n, !.dq = d2, !.rx = r, !.ena = e]
  BY <1>10, <1>13, <1>15 DEF Driver
<1>17. QED BY <1>14, <1>16, Zenon DEF Recounted
Passed(s, v, n) ==
  [v EXCEPT !.byteCnt = n - queueLength(s.dq[s.queuePos]), !.queuePos = @ + 1,
            !.ena = IF s.queuePos < Len(s.dq) THEN @ \union {"TX_EMPTY"} ELSE @]

LEMMA TranCompIs ==
  ASSUME NEW s, NEW i, i = s.int \ {"TRAN_COMP"}, NEW n, n = s.byteCnt + 1
  PROVE  /\ ~EntryPassed(s.dq[s.queuePos], n) => OnTranComp(s) = Counting(s, i, n)
         /\ EntryPassed(s.dq[s.queuePos], n) =>
              OnTranComp(s) = Passed(s, LastBytes(Counting(s, i, n)), n)
BY Zenon DEF OnTranComp, Counting, Passed

PassedTo(s, i, m, d, r, e, z) ==
  [s EXCEPT !.int = i, !.byteCnt = m, !.dq = d, !.rx = r, !.ena = e, !.queuePos = z]

LEMMA PassedIs ==
  ASSUME NEW s \in Driver, NEW i \in SUBSET AllInts, NEW m \in Nat, NEW d \in Seq(Entries),
         NEW r \in Seq(Tokens), NEW e \in SUBSET AllInts, NEW z \in Nat, NEW t,
         t = PassedTo(s, i, m, d, r, e, z)
  PROVE  /\ t \in Driver /\ t.int = i /\ t.byteCnt = m /\ t.queuePos = z
         /\ t.dq = d /\ t.error = s.error /\ t.exitCode = s.exitCode /\ t.cmd = s.cmd
         /\ t.tx = s.tx /\ t.rx = r /\ t.ena = e /\ t.go = s.go /\ t.own = s.own
         /\ t.held = s.held /\ t.stage = s.stage
BY DEF Driver, PassedTo

LEMMA TranCompKeeps ==
  ASSUME NEW K \in Queued, NEW p \in Nat, NEW s, Works(K, s, p), "TRAN_COMP" \in s.int,
         NEW t, t = OnTranComp(s)
  PROVE  /\ Works(K, t, p) /\ SameCourse(s, t) /\ t.int = s.int \ {"TRAN_COMP"}
         /\ t.stage = s.stage /\ t.tx = s.tx /\ t.cmd = s.cmd
<1>1. /\ s \in Driver /\ s.queuePos \in 1 .. Len(K) /\ Len(s.dq) = Len(K) /\ Len(K) \in Nat
      /\ s.byteCnt \in Nat /\ queueLength(s.dq[s.queuePos]) = queueLength(K[s.queuePos])
      /\ s.dq[s.queuePos].mode = K[s.queuePos].mode /\ K[s.queuePos].mode \in {0, 1}
  BY WorksAt
<1>2. PICK i, n, q : i = s.int \ {"TRAN_COMP"} /\ n = s.byteCnt + 1 /\ q = s.queuePos
  OBVIOUS
<1>3. i \in SUBSET AllInts /\ n \in Nat /\ "TRAN_COMP" \notin i /\ i \subseteq s.int
  BY <1>1, <1>2 DEF Driver
<1>4. Counts(K, p, s.int, q, s.byteCnt) /\ Lists(K, p, s.dq, s.go, s.cmd, s.int)
  BY <1>2 DEF Works
<1>5. Lists(K, p, s.dq, s.go, s.cmd, i)
  BY <1>3, <1>4, ListsLess
<1>7. queueLength(K[q]) \in Nat
  BY <1>1, <1>2, EntryPlace
<1>6. \/ n <= queueLength(K[q]) /\ Counts(K, p, i, q, n)
      \/ /\ n > queueLength(K[q]) /\ q + 1 \in 1 .. Len(K) /\ q < Len(K)
         /\ Counts(K, p, i, q + 1, n - queueLength(K[q]))
  <2>1. PICK b : b = s.byteCnt
    OBVIOUS
  <2>2. Counts(K, p, s.int, q, b)
    BY <1>4, <2>1
  <2>3. \/ b + 1 <= queueLength(K[q]) /\ Counts(K, p, i, q, b + 1)
        \/ /\ b + 1 > queueLength(K[q]) /\ q + 1 \in 1 .. Len(K) /\ q < Len(K)
           /\ Counts(K, p, i, q + 1, b + 1 - queueLength(K[q]))
    BY <1>3, <2>2, CountsNext
  <2>4. n = b + 1
    BY <1>2, <2>1
  <2>5. CASE b + 1 <= queueLength(K[q]) /\ Counts(K, p, i, q, b + 1)
    BY <2>4, <2>5
  <2>6. CASE /\ b + 1 > queueLength(K[q]) /\ q + 1 \in 1 .. Len(K) /\ q < Len(K)
             /\ Counts(K, p, i, q + 1, b + 1 - queueLength(K[q]))
    <3>1. PICK l : l = queueLength(K[q])
      OBVIOUS
    <3>2. /\ b + 1 > l /\ q + 1 \in 1 .. Len(K) /\ q < Len(K)
          /\ Counts(K, p, i, q + 1, b + 1 - l)
      BY <2>6, <3>1
    <3>3. b + 1 - l = n - l /\ n > l
      BY <1>1, <1>3, <1>7, <2>1, <2>4, <2>6, <3>1, SMTT(30)
    <3>5. Counts(K, p, i, q + 1, n - l)
      BY <3>2, <3>3, Zenon
    <3>4. QED BY <3>1, <3>2, <3>3, <3>5
  <2>7. QED BY <2>3, <2>5, <2>6
<1>8. CASE n <= queueLength(K[q]) /\ Counts(K, p, i, q, n)
  <2>1. ~EntryPassed(s.dq[s.queuePos], n)
    BY <1>1, <1>2, <1>3, <1>7, <1>8 DEF EntryPassed
  <2>2. t = Counting(s, i, n)
    BY <1>1, <1>2, <2>1, TranCompIs
  <2>3. /\ t \in Driver /\ t.int = i /\ t.byteCnt = n /\ t.queuePos = s.queuePos
        /\ t.dq = s.dq /\ t.error = s.error /\ t.exitCode = s.exitCode /\ t.cmd = s.cmd
        /\ t.tx = s.tx /\ t.rx = s.rx /\ t.ena = s.ena /\ t.go = s.go /\ t.own = s.own
        /\ t.held = s.held /\ t.stage = s.stage
    BY <1>1, <1>3, <2>2 DEF Driver, Counting
  <2>4. Works(K, t, p)
    BY <1>2, <1>5, <1>8, <2>3 DEF Works
  <2>5. QED BY <1>2, <2>3, <2>4 DEF SameCourse
<1>9. CASE /\ n > queueLength(K[q]) /\ q + 1 \in 1 .. Len(K) /\ q < Len(K)
           /\ Counts(K, p, i, q + 1, n - queueLength(K[q]))
  <2>1. EntryPassed(s.dq[s.queuePos], n)
    BY <1>1, <1>2, <1>3, <1>7, <1>9 DEF EntryPassed
  <2>2. PICK v : v = LastBytes(Counting(s, i, n))
    OBVIOUS
  <2>3. PICK d, r, e :
          /\ v = Recounted(s, i, n, d, r, e)
          /\ d \in Seq(Entries) /\ e \in SUBSET AllInts /\ r = <<>>
          /\ Likewise(K, d) /\ Enabled(e, d) /\ Fed(K, p, d, s.tx) /\ Stores(K, p, d, q, <<>>)
          /\ Lists(K, p, d, s.go, s.cmd, s.int)
    <3>1. Counting(s, i, n).dq = s.dq /\ Counting(s, i, n).queuePos = s.queuePos
      BY <1>1 DEF Counting, Driver
    <3>2. CASE K[q].mode = 1
      <4>1. PICK u : u = OnRxFull(s)
        OBVIOUS
      <4>2. Works(K, u, p) /\ SameCourse(s, u) /\ u.rx = <<>> /\ u.tx = s.tx /\ u.cmd = s.cmd
            /\ u.int = s.int /\ u.queuePos = q
        BY <1>2, <4>1, RxFullKeeps
      <4>3. v = OnRxFull(Counting(s, i, n))
        BY <1>1, <1>2, <2>2, <3>1, <3>2, Zenon DEF LastBytes
      <4>4. u \in Driver
        BY <4>2 DEF Works
      <4>5. ~(s.dq[s.queuePos].mode = 0)
        BY <1>1, <1>2, <3>2
      <4>6. v = Recounted(s, i, n, u.dq, u.rx, u.ena)
        BY <1>1, <4>1, <4>3, <4>4, <4>5, RxFullCounting
      <4>7. u.dq \in Seq(Entries) /\ u.ena \in SUBSET AllInts
        BY <4>4 DEF Driver
      <4>8. /\ Likewise(K, u.dq) /\ Enabled(u.ena, u.dq) /\ Fed(K, p, u.dq, s.tx)
            /\ Stores(K, p, u.dq, q, <<>>)
        <5>1. u.rx = <<>> /\ u.tx = s.tx /\ u.queuePos = q
          BY <4>2
        <5>2. QED BY <4>2, <5>1 DEF Works
      <4>9. Lists(K, p, u.dq, s.go, s.cmd, s.int)
        BY <4>2 DEF Works, SameCourse
      <4>10. QED BY <4>2, <4>6, <4>7, <4>8, <4>9
    <3>3. CASE K[q].mode = 0
      <4>1. s.rx = <<>>
        BY <1>2, <3>3 DEF Works, Stores
      <4>2. v = Counting(s, i, n)
        <5>1. ~(Counting(s, i, n).dq[Counting(s, i, n).queuePos].mode = 1)
          BY <1>1, <1>2, <3>1, <3>3
        <5>2. QED BY <2>2, <5>1, Zenon DEF LastBytes
      <4>3. v = Recounted(s, i, n, s.dq, s.rx, s.ena)
        BY <1>1, <4>2 DEF Counting, Recounted, Driver
      <4>4. s.dq \in Seq(Entries) /\ s.ena \in SUBSET AllInts
        BY <1>1 DEF Driver
      <4>5. Likewise(K, s.dq) /\ Enabled(s.ena, s.dq) /\ Fed(K, p, s.dq, s.tx) /\ Stores(K, p, s.dq, q, s.rx)
        BY <1>2 DEF Works
      <4>6. QED BY <1>4, <4>1, <4>3, <4>4, <4>5
    <3>4. QED BY <1>1, <1>2, <3>2, <3>3
  <2>4. PICK m : m = n - queueLength(K[q])
    OBVIOUS
  <2>5. m \in Nat /\ q + 1 \in Nat
    BY <1>3, <1>7, <1>9, <2>4
  <2> PICK z \in Nat : z = q + 1
    BY <2>5
  <2>6. PICK e2 : e2 = IF s.queuePos < Len(s.dq) THEN e \union {"TX_EMPTY"} ELSE e
    OBVIOUS
  <2>7. e2 \in SUBSET AllInts /\ Enabled(e2, d)
    <3>1. "TX_EMPTY" \in AllInts
      BY DEF AllInts
    <3>2. CASE e2 = e \union {"TX_EMPTY"}
      <4>1. e2 \in SUBSET AllInts /\ e \subseteq e2 /\ "TX_EMPTY" \in e2
        BY <2>3, <3>1, <3>2
      <4>2. QED BY <2>3, <4>1 DEF Enabled
    <3>3. CASE e2 = e
      BY <2>3, <3>3
    <3>4. QED BY <2>6, <3>2, <3>3
  <2>8. t = [v EXCEPT !.byteCnt = m, !.queuePos = z, !.ena = e2]
    <3>1. t = Passed(s, v, n)
      BY <1>1, <1>2, <2>1, <2>2, TranCompIs
    <3>2. v.queuePos = q /\ v.ena = e
      BY <1>1, <1>2, <2>3 DEF Driver, Recounted
    <3>3. m = n - queueLength(s.dq[s.queuePos])
      BY <1>1, <1>2, <2>4
    <3>4. QED BY <2>6, <3>1, <3>2, <3>3, Zenon DEF Passed
  <2>9. t = PassedTo(s, i, m, d, r, e2, z)
    BY <1>1, <2>3, <2>8 DEF Driver, Recounted, PassedTo
  <2>10. r \in Seq(Tokens) /\ d \in Seq(Entries)
    BY <2>3
  <2>11. /\ t \in Driver /\ t.int = i /\ t.byteCnt = m /\ t.queuePos = z
         /\ t.dq = d /\ t.error = s.error /\ t.exitCode = s.exitCode /\ t.cmd = s.cmd
         /\ t.tx = s.tx /\ t.rx = r /\ t.ena = e2 /\ t.go = s.go /\ t.own = s.own
         /\ t.held = s.held /\ t.stage = s.stage
    BY <1>1, <1>3, <2>5, <2>7, <2>9, <2>10, PassedIs
  <2>12. Lists(K, p, d, s.go, s.cmd, i)
    BY <1>3, <2>3, ListsLess
  <2>13. Stores(K, p, d, q + 1, r)
    <3>1. q + 1 \in 1 .. Len(K)
      BY <1>9
    <3>2. Stores(K, p, d, q + 1, <<>>)
      BY <2>3, <3>1, StoresNext
    <3>3. QED BY <2>3, <3>2
  <2>14. Len(r) <= RXCAP
    BY <2>3, DriverAssumption
  <2>15. Works(K, t, p)
    <3>1. Counts(K, p, i, q + 1, m)
      BY <1>9, <2>4
    <3>2. QED BY <2>3, <2>7, <2>11, <2>12, <2>13, <2>14, <3>1 DEF Works
  <2>16. QED BY <1>2, <2>11, <2>15 DEF SameCourse
<1>10. QED BY <1>6, <1>8, <1>9

--------------------
(* A refill of the command list.                                           *)
LEMMA LikewiseQueued ==
  ASSUME NEW K \in Queued, NEW d, Likewise(K, d)
  PROVE  d \in Queued /\ Len(d) = Len(K) /\ (K \in Seq(Entries) => Likewise(d, K))
<1>1. K # <<>> /\ K \in Seq(Entries) /\ \A q \in 1 .. Len(K) : K[q].stop <=> q = Len(K)
  BY DEF Queued
<1>2. d \in Seq(Entries) /\ Len(d) = Len(K) /\ \A q \in 1 .. Len(K) : SameTransfer(K[q], d[q])
  BY DEF Likewise
<1>3. d # <<>>
  BY <1>1, <1>2
<1>4. \A q \in 1 .. Len(d) : d[q].stop <=> q = Len(d)
  BY <1>1, <1>2 DEF SameTransfer
<1>5. d \in Queued
  BY <1>2, <1>3, <1>4 DEF Queued
<1>6. Likewise(d, K)
  BY <1>1, <1>2 DEF Likewise, SameTransfer
<1>7. QED BY <1>2, <1>5, <1>6

(* Where the flags say that the queue is, it is not yet at its end *)
LEMMA Unfinished ==
  ASSUME NEW K \in Queued, NEW d, Likewise(K, d), NEW q, NEW p \in Nat, Held(d, d, q, p),
         p < Len(Stream(K))
  PROVE  /\ q \in 1 .. Len(K) /\ ~d[q].stopCmdSent
         /\ p <= First(K, q) + queueLength(K[q])
<1>1. K \in Seq(Entries) /\ d \in Seq(Entries) /\ Len(d) = Len(K)
  BY DEF Queued, Likewise
<1>2. q \in 1 .. Len(K) /\ q - 1 \in 0 .. Len(K) /\ q \in 0 .. Len(K) /\ EntryAt(d, d[q], q, p)
      /\ Len(K) \in Nat
  BY <1>1 DEF Held
<1>3. Off(d, q - 1) = Off(K, q - 1) /\ Off(d, q) = Off(K, q) /\ queueLength(d[q]) = queueLength(K[q])
  BY <1>1, <1>2, LikewiseStream
<1>4. Len(Stream(K)) = Off(K, Len(K))
  BY <1>1, StreamAt
<1>5. d[q] \in Entries /\ Off(K, q - 1) \in Nat /\ queueLength(K[q]) \in Nat
  BY <1>1, <1>2, EntryEnds
<1>6. d[q].cmdBytesNeeded \in Nat
  BY <1>5 DEF Entries
<1>7. \/ Fresh(d[q]) /\ p = Off(K, q - 1)
      \/ Underway(d[q]) /\ p = Off(K, q - 1) + 1 + queueLength(K[q]) - d[q].cmdBytesNeeded
      \/ d[q].stopCmdSent /\ q = Len(K) /\ p = Off(K, q)
  BY <1>1, <1>2, <1>3 DEF EntryAt
<1>8. ~(d[q].stopCmdSent /\ q = Len(K) /\ p = Off(K, q))
  BY <1>4
<1>9. ~d[q].stopCmdSent
  BY <1>7, <1>8 DEF Fresh, Underway
<1>10. PICK o \in Nat, l \in Nat, b \in Nat : o = Off(K, q - 1) /\ l = queueLength(K[q]) /\ b = d[q].cmdBytesNeeded
  BY <1>5, <1>6
<1>11. p = o \/ p = o + 1 + l - b
  BY <1>7, <1>8, <1>10
<1>12. p <= o + 1 + l
  BY <1>10, <1>11
<1>13. p <= First(K, q) + queueLength(K[q])
  BY <1>10, <1>12 DEF First
<1>14. QED BY <1>2, <1>9, <1>13

LEMMA RefillRuns ==
  ASSUME NEW K \in Queued, NEW d, Likewise(K, d), NEW p \in Nat, p < Len(Stream(K)),
         NEW a \in Nat \ {0}, NEW q, a <= q, Held(d, d, q, p),
         NEW d2, NEW c, d2 = FillCmdQueue(d, a).dq, c = FillCmdQueue(d, a).cmd
  PROVE  /\ Alike(d, d2) /\ Likewise(K, d2) /\ Running(K, d2, c, p)
         /\ c \in Seq(Cmds) /\ Ended(c) /\ \E pe : Laid(K, p, c, pe)
<1>1. ~d[q].stopCmdSent
  BY Unfinished
<1>2. d \in Queued /\ Likewise(d, K) /\ Len(d) = Len(K)
  BY LikewiseQueued DEF Queued
<1>3. Refilled(d, p, d2, c)
  BY <1>1, <1>2, FillStep
<1>4. PICK q2, p2 : Held(d, d2, q2, p2) /\ Laid(d, p, c, p2)
  BY <1>3 DEF Refilled
<1>5. Ended(c)
  BY <1>3 DEF Refilled
<1>6. Alike(d, d2)
  BY <1>4 DEF Held
<1>7. Likewise(K, d2)
  <2>1. d2 \in Seq(Entries) /\ Len(d2) = Len(K) /\ \A r \in 1 .. Len(K) : SameEntry(d[r], d2[r])
    BY <1>2, <1>6 DEF Alike
  <2>2. \A r \in 1 .. Len(K) : SameTransfer(K[r], d[r])
    BY DEF Likewise
  <2>3. \A r \in 1 .. Len(K) : SameTransfer(K[r], d2[r])
    BY <2>1, <2>2 DEF SameTransfer, SameEntry
  <2>4. QED BY <2>1, <2>3 DEF Likewise
<1>8. Laid(K, p, c, p2)
  BY <1>2, <1>4, LikewiseLaid
<1>9. Reached(d2, p2)
  BY <1>2, <1>4, AlikeHeld DEF Reached
<1>10. Fits(c) /\ Ready(c) /\ c \in Seq(Cmds)
  BY <1>5 DEF Ended, Fits, Ready
<1>11. Running(K, d2, c, p)
  BY <1>8, <1>9, <1>10 DEF Running
<1>12. QED BY <1>5, <1>6, <1>7, <1>8, <1>10, <1>11

(* The flags change, and what the FIFOs hold and held stays *)
LEMMA AlikeKeeps ==
  ASSUME NEW K \in Queued, NEW p \in Nat, NEW d, Likewise(K, d), NEW d2, Alike(d, d2)
  PROVE  /\ \A t : Fed(K, p, d, t) => Fed(K, p, d2, t)
         /\ \A qp \in 1 .. Len(K) : \A rx : Stores(K, p, d, qp, rx) => Stores(K, p, d2, qp, rx)
         /\ Loaded(d) => Loaded(d2)
<1>1. Len(d) = Len(K) /\ Len(d2) = Len(K) /\ \A q \in 1 .. Len(K) : SameEntry(d[q], d2[q])
  BY DEF Likewise, Alike
<1>2. ASSUME NEW q \in 1 .. Len(K)
      PROVE  /\ InOrderGiven(d[q]) => InOrderGiven(d2[q])
             /\ Given(d2[q]) = Given(d[q]) /\ (Unloaded(d2[q]) <=> Unloaded(d[q]))
             /\ SameRead(d[q], d2[q])
  BY <1>1 DEF SameEntry, InOrderGiven, Given, Unloaded, SameRead, SameTransfer
<1>3. ASSUME NEW t, Fed(K, p, d, t) PROVE Fed(K, p, d2, t)
  <2>1. PICK L \in Nat : p <= L /\ Supplied(K, d, L) /\ Feeds(K, p, L, t)
    BY <1>3 DEF Fed
  <2>2. Supplied(K, d2, L)
    BY <1>2, <2>1 DEF Supplied
  <2>3. QED BY <1>3, <2>1, <2>2 DEF Fed
<1>4. ASSUME NEW qp \in 1 .. Len(K), NEW rx, Stores(K, p, d, qp, rx) PROVE Stores(K, p, d2, qp, rx)
  BY <1>2, <1>4, StoresWork
<1>5. Loaded(d) => Loaded(d2)
  BY <1>1, <1>2 DEF Loaded
<1>6. QED BY <1>3, <1>4, <1>5

(* The entry that the handler is at is not after the one to go on with *)
LEMMA CountsReached ==
  ASSUME NEW K \in Queued, NEW d, Likewise(K, d), NEW p \in Nat, p < Len(Stream(K)),
         NEW int, "TRAN_COMP" \notin int, NEW qp, NEW n, Counts(K, p, int, qp, n),
         NEW q, Held(d, d, q, p)
  PROVE  qp \in Nat \ {0} /\ qp <= q
<1>1. q \in 1 .. Len(K) /\ p <= First(K, q) + queueLength(K[q])
  BY Unfinished
<1>2. qp \in 1 .. Len(K) /\ n \in Nat /\ (n > 0 \/ qp = 1)
  BY CountsType
<1>3. CASE qp = 1
  BY <1>1, <1>3
<1>4. CASE n > 0
  <2>1. Counted(K, p, qp, n)
    BY DEF Counts
  <2>2. MovedAt(K, qp, p) = n
    BY <1>2, <2>1 DEF Counted
  <2>3. MovedAt(K, qp, p) = Clamp(p - First(K, qp), queueLength(K[qp]))
    <3>1. p \in Int
      OBVIOUS
    <3>2. QED BY <1>2, <3>1, MovedType
  <2>4. PICK f \in Nat, l \in Nat : f = First(K, qp) /\ l = queueLength(K[qp])
    BY <1>2, EntryPlace
  <2>5. Clamp(p - f, l) > 0
    BY <1>4, <2>2, <2>3, <2>4
  <2>6. f < p
    BY <2>4, <2>5 DEF Clamp
  <2>7. PICK g \in Nat, m \in Nat : g = First(K, q) /\ m = queueLength(K[q])
    BY <1>1, EntryPlace
  <2>8. ~(q < qp)
    <3> SUFFICES ASSUME q < qp PROVE FALSE
      OBVIOUS
    <3>1. g + m < f
      BY <1>1, <1>2, <2>4, <2>7, EntryOrder
    <3>2. QED BY <1>1, <2>6, <2>7, <3>1
  <2>9. QED BY <1>1, <1>2, <2>8
<1>5. QED BY <1>2, <1>3, <1>4

Listed(s, d, c, g, i, e) == [s EXCEPT !.dq = d, !.cmd = c, !.go = g, !.int = i, !.ena = e]

LEMMA ListedIs ==
  ASSUME NEW s \in Driver, NEW d \in Seq(Entries), NEW c \in Seq(Cmds), NEW g \in BOOLEAN,
         NEW i \in SUBSET AllInts, NEW e \in SUBSET AllInts, NEW t, t = Listed(s, d, c, g, i, e)
  PROVE  /\ t \in Driver /\ t.dq = d /\ t.cmd = c /\ t.go = g /\ t.int = i /\ t.ena = e
         /\ t.queuePos = s.queuePos /\ t.byteCnt = s.byteCnt /\ t.error = s.error
         /\ t.exitCode = s.exitCode /\ t.tx = s.tx /\ t.rx = s.rx /\ t.own = s.own
         /\ t.held = s.held /\ t.stage = s.stage
BY DEF Driver, Listed

LEMMA EndDetectKeeps ==
  ASSUME NEW K \in Queued, NEW p \in Nat, NEW s, Works(K, s, p), "END_DETECT" \in s.int,
         "TRAN_COMP" \notin s.int, "ACK_ERR" \notin s.int, "ARBITRATION" \notin s.int,
         NEW t, t = OnEndDetect(s)
  PROVE  /\ Works(K, t, p) /\ t.error = s.error /\ t.exitCode = s.exitCode /\ t.stage = s.stage
         /\ "TRAN_COMP" \notin t.int
<1>1. /\ s \in Driver /\ s.queuePos \in 1 .. Len(K) /\ Len(s.dq) = Len(K)
  BY WorksAt
<1>2. PICK d, a : d = s.dq /\ a = s.queuePos
  OBVIOUS
<1>3. /\ Likewise(K, d) /\ Counts(K, p, s.int, a, s.byteCnt)
      /\ Lists(K, p, d, s.go, s.cmd, s.int) /\ Fed(K, p, d, s.tx) /\ Stores(K, p, d, a, s.rx)
      /\ Enabled(s.ena, d) /\ Len(s.rx) <= RXCAP
  BY <1>2 DEF Works
<1>4. p < Len(Stream(K)) /\ Reached(d, p)
  BY <1>3 DEF Lists
<1>5. PICK q : Held(d, d, q, p)
  BY <1>4 DEF Reached
<1>6. a \in Nat \ {0} /\ a <= q
  BY <1>3, <1>4, <1>5, CountsReached
<1>7. PICK d2, c : d2 = FillCmdQueue(d, a).dq /\ c = FillCmdQueue(d, a).cmd
  OBVIOUS
<1>8. Alike(d, d2) /\ Likewise(K, d2) /\ Running(K, d2, c, p) /\ c \in Seq(Cmds)
  BY <1>3, <1>4, <1>5, <1>6, <1>7, RefillRuns
<1>9. PICK ops : ops = {c[k].op : k \in 1 .. Len(c)}
  OBVIOUS
<1>10. PICK g, i, e : /\ g = Yes /\ i = (s.int \ {"END_DETECT"}) \union {"TRANS_START"}
                      /\ e = (s.ena \ {"END_DETECT"}) \union NeededInts(ops)
  OBVIOUS
<1>11. t = Listed(s, d2, c, g, i, e)
  <2>1. OnEndDetect(s) =
          [s EXCEPT !.dq = d2, !.cmd = c, !.go = Yes, !.int = (@ \ {"END_DETECT"}) \union {"TRANS_START"},
                    !.ena = (@ \ {"END_DETECT"}) \union NeededInts(ops)]
    BY <1>2, <1>7, <1>9, ZenonT(60) DEF OnEndDetect, Yes
  <2>2. QED BY <1>10, <2>1, Zenon DEF Listed
<1>12. g \in BOOLEAN /\ g
  BY <1>10 DEF Yes
<1>13. i \in SUBSET AllInts /\ e \in SUBSET AllInts
  <2>1. s.int \in SUBSET AllInts /\ s.ena \in SUBSET AllInts
    BY <1>1 DEF Driver
  <2>2. "TRANS_START" \in AllInts /\ NeededInts(ops) \subseteq AllInts
    BY DEF AllInts, NeededInts
  <2>3. QED BY <1>10, <2>1, <2>2
<1>14. d2 \in Seq(Entries)
  BY <1>8 DEF Likewise
<1>15. /\ t \in Driver /\ t.dq = d2 /\ t.cmd = c /\ t.go = g /\ t.int = i /\ t.ena = e
       /\ t.queuePos = s.queuePos /\ t.byteCnt = s.byteCnt /\ t.error = s.error
       /\ t.exitCode = s.exitCode /\ t.tx = s.tx /\ t.rx = s.rx /\ t.own = s.own
       /\ t.held = s.held /\ t.stage = s.stage
  <2>1. c \in Seq(Cmds) /\ g \in BOOLEAN
    BY <1>8, <1>12
  <2> HIDE <1>10, <1>7, <1>9
  <2>2. QED BY <1>1, <1>11, <1>13, <1>14, <2>1, ListedIs
<1>16. Counts(K, p, i, a, s.byteCnt)
  <2>1. "TRAN_COMP" \in s.int <=> "TRAN_COMP" \in i
    BY <1>10
  <2>2. QED BY <1>3, <2>1, CountsSame
<1>17. Lists(K, p, d2, g, c, i)
  <2>1. "END_DETECT" \notin i /\ "ACK_ERR" \notin i /\ "ARBITRATION" \notin i
    BY <1>10
  <2>2. "TRANS_COMPLETE" \notin i
    <3>1. p # Len(Stream(K))
      BY <1>4
    <3>2. "TRANS_COMPLETE" \notin s.int
      BY <1>3, <3>1 DEF Lists
    <3>3. QED BY <1>10, <3>2
  <2>3. QED BY <1>8, <2>1, <2>2 DEF Lists
<1>18. Enabled(e, d2)
  <2>1. Loaded(d) => Loaded(d2)
    BY <1>3, <1>8, AlikeKeeps
  <2>2. "TX_EMPTY" \notin e => "TX_EMPTY" \notin s.ena
    BY <1>10
  <2>3. AllInts \ {"END_DETECT", "TX_EMPTY"} \subseteq e
    BY <1>3, <1>10 DEF Enabled
  <2>4. QED BY <1>3, <2>1, <2>2, <2>3 DEF Enabled
<1>19. Fed(K, p, d2, s.tx)
  BY <1>3, <1>8, AlikeKeeps
<1>20. Stores(K, p, d2, a, s.rx)
  <2>1. a \in 1 .. Len(K)
    BY <1>1, <1>2
  <2>2. QED BY <1>3, <1>8, <2>1, AlikeKeeps
<1>21. Works(K, t, p)
  BY <1>2, <1>3, <1>8, <1>15, <1>16, <1>17, <1>18, <1>19, <1>20 DEF Works
<1>22. "TRAN_COMP" \notin t.int
  BY <1>10, <1>15
<1>23. QED BY <1>15, <1>21, <1>22

--------------------
(* The passes of the handler.  What they share, Served, keeps the driver at*)
(* work and serves the byte that was moved, if there was one.              *)

Course(s, t) == t.error = s.error /\ t.exitCode = s.exitCode

(* At work, every interrupt that follows a byte or the end is enabled      *)
LEMMA ActiveIs ==
  ASSUME NEW s, NEW d, Enabled(s.ena, d), NEW x \in {"TRAN_COMP", "ACK_ERR", "TRANS_COMPLETE", "ARBITRATION"}
  PROVE  x \in Active(s) <=> x \in s.int
<1>1. x \in s.ena
  BY DEF Enabled, AllInts
<1>2. x \notin Levels(s)
  BY DEF Levels
<1>3. QED BY <1>1, <1>2 DEF Active

LEMMA ActiveEnd ==
  ASSUME NEW s, "END_DETECT" \in Active(s)
  PROVE  "END_DETECT" \in s.int
BY DEF Active, Levels

LEMMA ServedKeeps ==
  ASSUME NEW K \in Queued, NEW p \in Nat, NEW s, Works(K, s, p), NEW t, t = Served(s, Active(s))
  PROVE  /\ Works(K, t, p) /\ Course(s, t) /\ t.int \subseteq s.int /\ "TRAN_COMP" \notin t.int
         /\ \A x \in {"ACK_ERR", "TRANS_COMPLETE", "ARBITRATION", "END_DETECT"} :
              x \in s.int => x \in t.int
         /\ t.stage # "DONE" <=> s.stage # "DONE"
         /\ "TRAN_COMP" \notin s.int => t.queuePos = s.queuePos /\ t.byteCnt = s.byteCnt
<1>1. PICK A : A = Active(s)
  OBVIOUS
<1>2. PICK s1 : s1 = IF "TRANS_START" \in A THEN OnTransStart(s) ELSE s
  OBVIOUS
<1>3. PICK s2 : s2 = IF "TX_EMPTY" \in A THEN FillTxFifo(s1) ELSE s1
  OBVIOUS
<1>4. PICK s3 : s3 = IF "RX_FULL" \in A THEN OnRxFull(s2) ELSE s2
  OBVIOUS
<1>5. t = IF "TRAN_COMP" \in A THEN OnTranComp(s3) ELSE s3
  BY <1>1, <1>2, <1>3, <1>4, Zenon DEF Served
<1>6. "TRAN_COMP" \in A <=> "TRAN_COMP" \in s.int
  BY <1>1, ActiveIs DEF Works
<1>7. /\ Works(K, s1, p) /\ Course(s, s1) /\ s.int \ {"TRANS_START"} \subseteq s1.int /\ s1.int \subseteq s.int
      /\ s1.stage # "DONE" <=> s.stage # "DONE"
      /\ s1.queuePos = s.queuePos /\ s1.byteCnt = s.byteCnt
  <2>1. CASE "TRANS_START" \in A
    <3>1. s1 = OnTransStart(s)
      BY <1>2, <2>1
    <3>2. QED BY <3>1, TransStartKeeps DEF SameCourse, Course
  <2>2. CASE "TRANS_START" \notin A
    BY <1>2, <2>2 DEF Course
  <2>3. QED BY <2>1, <2>2
<1>8. /\ Works(K, s2, p) /\ Course(s, s2) /\ s2.int = s1.int
      /\ s2.stage # "DONE" <=> s.stage # "DONE"
      /\ s2.queuePos = s.queuePos /\ s2.byteCnt = s.byteCnt
  <2>1. CASE "TX_EMPTY" \in A
    <3>1. s2 = FillTxFifo(s1)
      BY <1>3, <2>1
    <3>2. QED BY <1>7, <3>1, FillTxKeeps DEF SameCourse, Course
  <2>2. CASE "TX_EMPTY" \notin A
    BY <1>3, <1>7, <2>2 DEF Course
  <2>3. QED BY <2>1, <2>2
<1>9. /\ Works(K, s3, p) /\ Course(s, s3) /\ s3.int = s1.int
      /\ s3.stage # "DONE" <=> s.stage # "DONE"
      /\ s3.queuePos = s.queuePos /\ s3.byteCnt = s.byteCnt
  <2>1. CASE "RX_FULL" \in A
    <3>1. s3 = OnRxFull(s2)
      BY <1>4, <2>1
    <3>2. QED BY <1>8, <3>1, RxFullKeeps DEF SameCourse, Course
  <2>2. CASE "RX_FULL" \notin A
    BY <1>4, <1>8, <2>2 DEF Course
  <2>3. QED BY <2>1, <2>2
<1>10. CASE "TRAN_COMP" \in s.int
  <2>1. t = OnTranComp(s3) /\ "TRAN_COMP" \in s3.int
    BY <1>5, <1>6, <1>7, <1>9, <1>10
  <2>2. /\ Works(K, t, p) /\ SameCourse(s3, t) /\ t.int = s3.int \ {"TRAN_COMP"} /\ t.stage = s3.stage
    BY <1>9, <2>1, TranCompKeeps
  <2>3. QED BY <1>7, <1>9, <1>10, <2>2 DEF SameCourse, Course
<1>11. CASE "TRAN_COMP" \notin s.int
  <2>1. t = s3
    BY <1>5, <1>6, <1>11
  <2>2. QED BY <1>7, <1>9, <1>11, <2>1
<1>12. QED BY <1>10, <1>11

(* A pass that is not the last keeps the driver at work                    *)
LEMMA PassKeeps ==
  ASSUME NEW K \in Queued, NEW p \in Nat, NEW s, Works(K, s, p),
         Active(s) \intersect Fatal = {}, NEW t,
         t = IF "END_DETECT" \in Active(s) THEN OnEndDetect(Served(s, Active(s)))
             ELSE Served(s, Active(s))
  PROVE  /\ Works(K, t, p) /\ Course(s, t) /\ t.stage # "DONE" <=> s.stage # "DONE"
         /\ "TRAN_COMP" \notin t.int
<1>1. PICK u : u = Served(s, Active(s))
  OBVIOUS
<1>2. /\ Works(K, u, p) /\ Course(s, u) /\ u.int \subseteq s.int /\ "TRAN_COMP" \notin u.int
      /\ "END_DETECT" \in s.int => "END_DETECT" \in u.int
      /\ u.stage # "DONE" <=> s.stage # "DONE"
  BY <1>1, ServedKeeps
<1>3. "ACK_ERR" \notin s.int /\ "ARBITRATION" \notin s.int
  BY ActiveIs DEF Works, Fatal
<1>4. CASE "END_DETECT" \in Active(s)
  <2>1. t = OnEndDetect(u) /\ "END_DETECT" \in u.int
    BY <1>1, <1>2, <1>4, ActiveEnd
  <2>2. "ACK_ERR" \notin u.int /\ "ARBITRATION" \notin u.int
    BY <1>2, <1>3
  <2>3. /\ Works(K, t, p) /\ t.error = u.error /\ t.exitCode = u.exitCode /\ t.stage = u.stage
        /\ "TRAN_COMP" \notin t.int
    BY <1>2, <2>1, <2>2, EndDetectKeeps
  <2>4. QED BY <1>2, <2>3 DEF Course
<1>5. CASE "END_DETECT" \notin Active(s)
  BY <1>1, <1>2, <1>5
<1>6. QED BY <1>4, <1>5

--------------------
(* What is left of a transaction that the handler has finished.            *)

ErrorBits(error) ==
  IF error = "OK" THEN {}
  ELSE IF error = "ADDR_NAK" THEN {"NAK", "ERROR"}
  ELSE IF error = "DATA_NAK" THEN {"DATA_NAK", "ERROR"} ELSE {"ARBITRATION", "ERROR"}
Whole(K, s, p) ==
  /\ p = Len(Stream(K)) /\ s.queuePos = Len(K)
  /\ \A q \in 1 .. Len(K) : s.dq[q].position = s.dq[q].length
PassedMoved(K, qp, p) ==
  /\ qp \in 1 .. Len(K)
  /\ \A r \in 1 .. qp - 1 : MovedAt(K, r, p) = queueLength(K[r])
NakAt(K, error, p) == p > 0 /\ (error = "ADDR_NAK" <=> Stream(K)[p].kind = "addr")
Ends(K, s, p) ==
  /\ s.exitCode = {"DONE"} \union ErrorBits(s.error)
  /\ s.error = "OK" => Whole(K, s, p)
  /\ s.error \in {"ADDR_NAK", "DATA_NAK"} => NakAt(K, s.error, p)
Advanced(s) == s.queuePos > 1 \/ s.byteCnt > 0
Few(s) == Len(s.tx) <= TXCAP /\ Len(s.rx) <= RXCAP

LEMMA WorksPassed ==
  ASSUME NEW K \in Queued, NEW p \in Nat, NEW s, Works(K, s, p)
  PROVE  PassedMoved(K, s.queuePos, p) /\ Few(s) /\ Likewise(K, s.dq) /\ s \in Driver
<1>1. Counts(K, p, s.int, s.queuePos, s.byteCnt) /\ Fed(K, p, s.dq, s.tx) /\ Likewise(K, s.dq)
      /\ s \in Driver /\ Len(s.rx) <= RXCAP
  BY DEF Works
<1>2. PassedMoved(K, s.queuePos, p)
  BY <1>1, CountsType DEF PassedMoved
<1>3. QED BY <1>1, <1>2 DEF Fed, Few

(* Once a byte has been counted, the first entry or a later one says so    *)
LEMMA AdvancedStays ==
  ASSUME NEW K \in Queued, NEW p \in Nat, NEW s, NEW t, Works(K, s, p), Works(K, t, p),
         Advanced(s), "TRAN_COMP" \notin t.int
  PROVE  Advanced(t)
<1>1. PICK qp, n, tq, m : qp = s.queuePos /\ n = s.byteCnt /\ tq = t.queuePos /\ m = t.byteCnt
  OBVIOUS
<1>2. Counts(K, p, s.int, qp, n) /\ Counts(K, p, t.int, tq, m)
  BY <1>1 DEF Works
<1>3. qp \in 1 .. Len(K) /\ n \in Nat /\ tq \in 1 .. Len(K) /\ m \in Nat
  BY <1>2, CountsType
<1>4. 1 \in 1 .. Len(K) /\ Len(K) \in Nat
  <2>1. K \in Seq(Entries) /\ K # <<>>
    BY DEF Queued
  <2>2. Len(K) \in Nat
    BY <2>1
  <2>3. QED BY <1>3, <2>2
<1>5. PICK f \in Nat, l \in Nat : f = First(K, 1) /\ l = queueLength(K[1]) /\ l > 0
  BY <1>4, EntryPlace
<1>6. Counted(K, p, tq, m)
  BY <1>2 DEF Counts
<1>7. PICK b \in Int : b <= p /\ Counted(K, b, qp, n)
  <2>1. CASE "TRAN_COMP" \in s.int
    <3>1. p - 1 \in Int /\ p - 1 <= p
      OBVIOUS
    <3>2. Counted(K, p - 1, qp, n)
      BY <1>2, <2>1 DEF Counts
    <3>3. QED BY <3>1, <3>2
  <2>2. CASE "TRAN_COMP" \notin s.int
    <3>1. p \in Int /\ p <= p
      OBVIOUS
    <3>2. Counted(K, p, qp, n)
      BY <1>2, <2>2 DEF Counts
    <3>3. QED BY <3>1, <3>2
  <2>3. QED BY <2>1, <2>2
<1>8. MovedAt(K, 1, b) > 0
  <2>1. CASE qp > 1
    <3>1. MovedAt(K, 1, b) = l
      BY <1>4, <1>5, <1>7, <2>1 DEF Counted
    <3>2. QED BY <1>5, <3>1
  <2>2. CASE qp = 1
    <3>1. n > 0
      BY <1>1, <2>2 DEF Advanced
    <3>2. MovedAt(K, 1, b) = n
      BY <1>4, <1>7, <2>2 DEF Counted
    <3>3. QED BY <3>1, <3>2
  <2>3. QED BY <1>3, <2>1, <2>2
<1>9. Clamp(b - f, l) > 0
  BY <1>4, <1>5, <1>8, MovedType
<1>10. Clamp(p - f, l) > 0
  BY <1>5, <1>7, <1>9 DEF Clamp
<1>11. MovedAt(K, 1, p) > 0
  <2>1. p \in Int
    OBVIOUS
  <2>2. QED BY <1>4, <1>5, <1>10, <2>1, MovedType
<1>12. CASE tq = 1
  <2>1. MovedAt(K, 1, p) = m
    BY <1>4, <1>6, <1>12 DEF Counted
  <2>2. QED BY <1>1, <1>11, <2>1 DEF Advanced
<1>13. CASE tq # 1
  BY <1>1, <1>3, <1>13 DEF Advanced
<1>14. QED BY <1>12, <1>13

Exited(s, i, stage, error, code) ==
  [s EXCEPT !.ena = i, !.int = i, !.stage = stage, !.error = error, !.exitCode = code]

LEMMA ExitedIs ==
  ASSUME NEW s \in Driver, NEW i \in SUBSET AllInts, NEW stage \in {"DONE", "STARTUP", "RUNNING"},
         NEW error \in Codes, NEW code \in SUBSET Bits, NEW t, t = Exited(s, i, stage, error, code)
  PROVE  /\ t \in Driver /\ t.stage = stage /\ t.error = error /\ t.exitCode = code
         /\ t.dq = s.dq /\ t.queuePos = s.queuePos /\ t.byteCnt = s.byteCnt
         /\ t.tx = s.tx /\ t.rx = s.rx
BY DEF Driver, Exited

(* i2cIsrExit: the FIFO is emptied first                                   *)
ExitsAt(K, u, v, t, p, error) ==
  /\ Works(K, v, p) /\ v.queuePos = u.queuePos /\ v.byteCnt = u.byteCnt /\ v.rx = <<>>
  /\ t \in Driver /\ t.stage = "DONE" /\ t.error = error
  /\ t.exitCode = {"DONE"} \union ErrorBits(error)
  /\ t.dq = v.dq /\ t.queuePos = v.queuePos /\ t.byteCnt = v.byteCnt /\ t.tx = v.tx /\ t.rx = v.rx

LEMMA ExitIs ==
  ASSUME NEW K \in Queued, NEW p \in Nat, NEW u, Works(K, u, p), NEW error \in Codes,
         NEW code, code = ErrorBits(error), NEW t, t = IsrExit(u, code, error)
  PROVE  \E v : ExitsAt(K, u, v, t, p, error)
<1>1. PICK v : v = IF u.dq[u.queuePos].mode = 1 THEN EmptyRxFifo(u) ELSE u
  OBVIOUS
<1>2. Works(K, v, p) /\ v.queuePos = u.queuePos /\ v.byteCnt = u.byteCnt /\ v.rx = <<>>
  <2>1. CASE u.dq[u.queuePos].mode = 1
    <3>1. v = EmptyRxFifo(u)
      BY <1>1, <2>1
    <3>2. QED BY <3>1, EmptyKeeps
  <2>2. CASE u.dq[u.queuePos].mode # 1
    <3>1. v = u
      BY <1>1, <2>2
    <3>2. K[u.queuePos].mode # 1
      BY <2>2, WorksAt
    <3>3. u.rx = <<>>
      BY <3>2 DEF Works, Stores
    <3>4. QED BY <3>1, <3>3
  <2>3. QED BY <2>1, <2>2
<1>3. PICK i, stage, bits : i = {} /\ stage = "DONE" /\ bits = {"DONE"} \union code
  OBVIOUS
<1>4. t = Exited(v, i, stage, error, bits)
  <2>1. t = [v EXCEPT !.ena = {}, !.int = {}, !.stage = "DONE", !.error = error,
                      !.exitCode = {"DONE"} \union code]
    BY <1>1, Zenon DEF IsrExit
  <2>2. QED BY <1>3, <2>1, Zenon DEF Exited
<1>5. i \in SUBSET AllInts /\ stage \in {"DONE", "STARTUP", "RUNNING"} /\ bits \in SUBSET Bits
  BY <1>3 DEF ErrorBits, Bits
<1>6. v \in Driver
  BY <1>2 DEF Works
<1>7. /\ t \in Driver /\ t.stage = stage /\ t.error = error /\ t.exitCode = bits
      /\ t.dq = v.dq /\ t.queuePos = v.queuePos /\ t.byteCnt = v.byteCnt
      /\ t.tx = v.tx /\ t.rx = v.rx
  <2> HIDE <1>1, <1>3
  <2>1. QED BY <1>4, <1>5, <1>6, ExitedIs
<1>8. QED BY <1>2, <1>3, <1>7 DEF ExitsAt

--------------------
(* At the end of the queue all is counted, supplied and stored             *)
LEMMA EndMoved ==
  ASSUME NEW K \in Queued, NEW r \in 1 .. Len(K), NEW p, p = Len(Stream(K))
  PROVE  MovedAt(K, r, p) = queueLength(K[r]) /\ First(K, r) + queueLength(K[r]) <= p
<1>1. PICK f \in Nat, l \in Nat, n \in Nat :
        f = First(K, r) /\ l = queueLength(K[r]) /\ n = Len(Stream(K)) /\ f + l < n
  BY EntryPlace
<1>2. p \in Int /\ p \in Nat
  BY <1>1
<1>3. MovedAt(K, r, p) = Clamp(p - f, l)
  BY <1>1, <1>2, MovedType
<1>4. Clamp(p - f, l) = l
  BY <1>1, <1>2 DEF Clamp
<1>5. QED BY <1>1, <1>2, <1>3, <1>4

LEMMA EndCounted ==
  ASSUME NEW K \in Queued, NEW p, p = Len(Stream(K)), NEW qp, NEW n, Counted(K, p, qp, n)
  PROVE  qp = Len(K)
<1>1. qp \in 1 .. Len(K) /\ Len(K) \in Nat
  BY EntryPlace DEF Counted
<1>2. SUFFICES ASSUME qp # Len(K) PROVE FALSE
  OBVIOUS
<1>3. PICK z : z = qp + 1
  OBVIOUS
<1>4. z \in 1 .. Len(K) /\ ~(z < qp) /\ z # qp
  BY <1>1, <1>2, <1>3
<1>5. MovedAt(K, z, p) = 0
  BY <1>4 DEF Counted
<1>6. MovedAt(K, z, p) = queueLength(K[z]) /\ queueLength(K[z]) > 0
  BY <1>4, EndMoved, EntryPlace
<1>7. QED BY <1>5, <1>6

LEMMA WholeAtEnd ==
  ASSUME NEW K \in Queued, NEW p \in Nat, NEW v, Works(K, v, p), p = Len(Stream(K)),
         Counted(K, p, v.queuePos, v.byteCnt), v.rx = <<>>
  PROVE  Whole(K, v, p)
<1>1. v.queuePos = Len(K)
  BY EndCounted
<1>2. Likewise(K, v.dq) /\ Fed(K, p, v.dq, v.tx) /\ Stores(K, p, v.dq, v.queuePos, v.rx)
  BY DEF Works
<1>3. ASSUME NEW q \in 1 .. Len(K) PROVE v.dq[q].position = v.dq[q].length
  <2>1. PICK e : e = v.dq[q]
    OBVIOUS
  <2>2. /\ e \in Entries /\ e.mode = K[q].mode /\ e.length = K[q].length
        /\ K[q].mode \in {0, 1} /\ e.addrReq = K[q].addrReq
    BY <2>1, WorksAt
  <2>3. /\ e.length \in Nat /\ e.addrReq \in Nat /\ e.position \in Nat
        /\ queueLength(K[q]) = e.length + e.addrReq
    BY <2>2 DEF Entries, queueLength
  <2>4. MovedAt(K, q, p) = queueLength(K[q]) /\ First(K, q) + queueLength(K[q]) <= p
    BY EndMoved
  <2>5. CASE K[q].mode = 1
    <3>1. e.position + (IF q = v.queuePos THEN Len(v.rx) ELSE 0) = ReadAt(K, q, p)
      BY <1>2, <2>1, <2>5 DEF Stores
    <3>2. Len(v.rx) = 0
      OBVIOUS
    <3>3. e.position = ReadAt(K, q, p)
      BY <2>3, <3>1, <3>2
    <3>4. ReadAt(K, q, p) = e.length
      BY <2>2, <2>3, <2>4 DEF ReadAt
    <3>5. QED BY <2>1, <3>3, <3>4
  <2>6. CASE K[q].mode = 0
    <3>1. ~Unloaded(e)
      BY <1>2, <2>1, <2>4, LoadedBefore
    <3>2. InOrderGiven(e)
      BY <1>2, <2>1 DEF Fed, Supplied
    <3>3. e.position <= e.length /\ ~(e.position < e.length)
      BY <2>2, <2>6, <3>1, <3>2 DEF Unloaded, InOrderGiven
    <3>4. QED BY <2>1, <2>3, <3>3
  <2>7. QED BY <2>2, <2>5, <2>6
<1>4. QED BY <1>1, <1>3 DEF Whole

(* The byte not acknowledged is the n-th of the entry the handler is at    *)
LEMMA NakIs ==
  ASSUME NEW K \in Queued, NEW p \in Nat, NEW u, Works(K, u, p), ByteAt(K, p),
         "TRAN_COMP" \notin u.int, \A q \in 1 .. Len(K) : K[q].addrReq \in {1, 2},
         NEW error, error = IF AddressNaked(u) THEN "ADDR_NAK" ELSE "DATA_NAK"
  PROVE  NakAt(K, error, p)
<1>1. PICK q, n : q = u.queuePos /\ n = u.byteCnt
  OBVIOUS
<1>2. Counts(K, p, u.int, q, n)
  BY <1>1 DEF Works
<1>3. In(K, q, p) /\ n = p - First(K, q)
  BY <1>2, CountsAt
<1>4. q \in 1 .. Len(K) /\ u.dq[q].addrReq = K[q].addrReq /\ K[q].addrReq \in {1, 2}
  BY <1>1, WorksAt
<1>5. PICK f \in Nat, l \in Nat : f = First(K, q) /\ l = queueLength(K[q])
  BY <1>4, EntryPlace
<1>6. f < p /\ p <= f + l
  BY <1>3, <1>5 DEF In
<1>7. n = p - f /\ n \in 1 .. l /\ p = f + n
  BY <1>3, <1>5, <1>6
<1>8. Stream(K)[p] = ByteOf(K[q], q, n)
  <2>1. K \in Seq(Entries)
    BY DEF Queued
  <2>2. Stream(K)[Off(K, q - 1) + 1 + n] = ByteOf(K[q], q, n)
    BY <1>4, <1>5, <1>7, <2>1, Positions
  <2>3. QED BY <1>5, <1>7, <2>2 DEF First
<1>9. Stream(K)[p].kind = "addr" <=> n <= K[q].addrReq
  BY <1>8 DEF ByteOf, Token
<1>10. AddressNaked(u) <=> n <= K[q].addrReq
  <2>1. AddressNaked(u) <=> n = 1 \/ (n = 2 /\ K[q].addrReq = 2)
    BY <1>1, <1>4 DEF AddressNaked
  <2>2. QED BY <1>4, <1>7, <2>1
<1>11. QED BY <1>6, <1>9, <1>10 DEF NakAt

(* The last pass of the handler                                            *)
LEMMA FinishKeeps ==
  ASSUME NEW K \in Queued, NEW p \in Nat, NEW s, Works(K, s, p),
         \A q \in 1 .. Len(K) : K[q].addrReq \in {1, 2},
         Active(s) \intersect Fatal # {}, NEW u, u = Served(s, Active(s)), NEW t,
         t = IF "ACK_ERR" \in Active(s) THEN OnAckErr(u)
             ELSE IF "TRANS_COMPLETE" \in Active(s) THEN IsrExit(u, {}, "OK")
             ELSE IsrExit(u, {"ARBITRATION", "ERROR"}, "ARBITRATION")
  PROVE  /\ t \in Driver /\ t.stage = "DONE" /\ Likewise(K, t.dq) /\ Few(t)
         /\ PassedMoved(K, t.queuePos, p) /\ Ends(K, t, p)
         /\ Stores(K, p, t.dq, t.queuePos, t.rx) /\ (Advanced(s) => Advanced(t))
<1>1. /\ Works(K, u, p) /\ "TRAN_COMP" \notin u.int /\ u.int \subseteq s.int
      /\ \A x \in {"ACK_ERR", "TRANS_COMPLETE", "ARBITRATION", "END_DETECT"} :
           x \in s.int => x \in u.int
  BY ONLY K \in Queued, p \in Nat, Works(K, s, p), u = Served(s, Active(s)), ServedKeeps
<1>2. \A x \in {"ACK_ERR", "TRANS_COMPLETE", "ARBITRATION"} : x \in Active(s) <=> x \in u.int
  BY <1>1, ActiveIs DEF Works
<1>3. \E v, error :
        /\ error \in Codes /\ ExitsAt(K, u, v, t, p, error)
        /\ error \in {"ADDR_NAK", "DATA_NAK"} => NakAt(K, error, p)
        /\ error = "OK" => p = Len(Stream(K))
  <2>1. CASE "ACK_ERR" \in Active(s)
    <3>1. PICK error : error = IF AddressNaked(u) THEN "ADDR_NAK" ELSE "DATA_NAK"
      OBVIOUS
    <3>2. error \in Codes /\ error # "OK"
      BY <3>1 DEF Codes
    <3>3. t = OnAckErr(u)
      BY <2>1
    <3>4. t = IsrExit(u, ErrorBits(error), error)
      <4>1. CASE AddressNaked(u)
        <5>1. error = "ADDR_NAK" /\ ErrorBits(error) = {"NAK", "ERROR"}
          BY <3>1, <4>1 DEF ErrorBits
        <5>2. OnAckErr(u) = IsrExit(u, {"NAK", "ERROR"}, "ADDR_NAK")
          BY <4>1 DEF OnAckErr
        <5>3. QED BY <3>3, <5>1, <5>2
      <4>2. CASE ~AddressNaked(u)
        <5>1. error = "DATA_NAK" /\ ErrorBits(error) = {"DATA_NAK", "ERROR"}
          BY <3>1, <4>2 DEF ErrorBits
        <5>2. OnAckErr(u) = IsrExit(u, {"DATA_NAK", "ERROR"}, "DATA_NAK")
          BY <4>2 DEF OnAckErr
        <5>3. QED BY <3>3, <5>1, <5>2
      <4>3. QED BY <4>1, <4>2
    <3>5. ByteAt(K, p)
      BY <1>1, <1>2, <2>1 DEF Works, Lists
    <3>6. NakAt(K, error, p)
      BY <1>1, <3>1, <3>5, NakIs
    <3>7. \E v : ExitsAt(K, u, v, t, p, error)
      BY <1>1, <3>2, <3>4, ExitIs
    <3>8. QED BY <3>2, <3>6, <3>7
  <2>2. CASE "ACK_ERR" \notin Active(s) /\ "TRANS_COMPLETE" \in Active(s)
    <3>1. PICK error : error = "OK"
      OBVIOUS
    <3>2. t = IsrExit(u, ErrorBits(error), error) /\ error \in Codes
      BY <2>2, <3>1 DEF ErrorBits, Codes
    <3>3. \E v : ExitsAt(K, u, v, t, p, error)
      BY <1>1, <3>2, ExitIs
    <3>4. p = Len(Stream(K))
      BY <1>1, <1>2, <2>2 DEF Works, Lists
    <3>5. QED BY <3>1, <3>2, <3>3, <3>4
  <2>3. CASE "ACK_ERR" \notin Active(s) /\ "TRANS_COMPLETE" \notin Active(s)
    <3>1. PICK error : error = "ARBITRATION"
      OBVIOUS
    <3>2. t = IsrExit(u, ErrorBits(error), error) /\ error \in Codes
      BY <2>3, <3>1 DEF ErrorBits, Codes
    <3>3. \E v : ExitsAt(K, u, v, t, p, error)
      BY <1>1, <3>2, ExitIs
    <3>4. QED BY <3>1, <3>2, <3>3
  <2>4. QED BY <2>1, <2>2, <2>3
<1>4. PICK v, error :
        /\ error \in Codes /\ ExitsAt(K, u, v, t, p, error)
        /\ error \in {"ADDR_NAK", "DATA_NAK"} => NakAt(K, error, p)
        /\ error = "OK" => p = Len(Stream(K))
  BY <1>3
<1>5. /\ Works(K, v, p) /\ v.queuePos = u.queuePos /\ v.byteCnt = u.byteCnt /\ v.rx = <<>>
      /\ t \in Driver /\ t.stage = "DONE" /\ t.error = error
      /\ t.exitCode = {"DONE"} \union ErrorBits(error)
      /\ t.dq = v.dq /\ t.queuePos = v.queuePos /\ t.byteCnt = v.byteCnt /\ t.tx = v.tx /\ t.rx = v.rx
  BY <1>4 DEF ExitsAt
<1>6. Likewise(K, t.dq) /\ Few(t) /\ PassedMoved(K, t.queuePos, p)
  BY <1>5, WorksPassed DEF Few
<1>7. error = "OK" => Whole(K, t, p)
  <2> SUFFICES ASSUME error = "OK" PROVE Whole(K, t, p)
    OBVIOUS
  <2>1. p = Len(Stream(K))
    BY <1>4
  <2>2. Counted(K, p, v.queuePos, v.byteCnt)
    <3>1. Counts(K, p, u.int, u.queuePos, u.byteCnt)
      BY <1>1 DEF Works
    <3>2. QED BY <1>1, <1>5, <3>1 DEF Counts
  <2>3. Whole(K, v, p)
    BY <1>5, <2>1, <2>2, WholeAtEnd
  <2>4. QED BY <1>5, <2>3 DEF Whole
<1>8. Ends(K, t, p)
  BY <1>4, <1>5, <1>7 DEF Ends
<1>9. Stores(K, p, t.dq, t.queuePos, t.rx)
  BY <1>5 DEF Works
<1>10. Advanced(s) => Advanced(t)
  BY <1>1, <1>5, AdvancedStays DEF Advanced
<1>11. QED BY <1>5, <1>6, <1>8, <1>9, <1>10

--------------------
(* The controller's steps.  With nothing to serve every byte is counted,   *)
(* and the FIFOs have room and, unless all is in them already, bytes.      *)

LEMMA NothingActive ==
  ASSUME NEW K \in Queued, NEW p \in Nat, NEW s, Works(K, s, p), Active(s) = {}
  PROVE  /\ "TRAN_COMP" \notin s.int /\ Len(s.rx) < RXTHR /\ Len(s.rx) < RXCAP
         /\ s.tx = <<>> => Loaded(s.dq)
<1>1. Enabled(s.ena, s.dq) /\ s.tx \in Seq(Tokens) /\ s.rx \in Seq(Tokens)
  BY DEF Works, Fed, Stores
<1>2. "TRAN_COMP" \notin s.int
  BY <1>1, ActiveIs
<1>3. RXTHR \in Nat /\ RXCAP \in Nat /\ RXTHR <= RXCAP /\ TXTHR \in Nat /\ 0 <= TXTHR
  BY DriverAssumption
<1>4. Len(s.rx) < RXTHR
  <2>1. "RX_FULL" \in s.ena
    BY <1>1 DEF Enabled, AllInts
  <2>2. "RX_FULL" \notin Levels(s)
    BY <2>1 DEF Active
  <2>3. ~(Len(s.rx) >= RXTHR)
    BY <2>2 DEF Levels
  <2>4. Len(s.rx) \in Nat
    BY <1>1
  <2>5. QED BY <1>3, <2>3, <2>4
<1>5. s.tx = <<>> => Loaded(s.dq)
  <2> SUFFICES ASSUME s.tx = <<>> PROVE Loaded(s.dq)
    OBVIOUS
  <2>1. Len(s.tx) <= TXTHR
    BY <1>3
  <2>2. "TX_EMPTY" \in Levels(s)
    BY <2>1 DEF Levels
  <2>3. "TX_EMPTY" \notin s.ena
    BY <2>2 DEF Active
  <2>4. QED BY <1>1, <2>3 DEF Enabled
<1>6. QED
  <2>1. Len(s.rx) \in Nat
    BY <1>1
  <2>2. QED BY <1>2, <1>3, <1>4, <1>5, <2>1

(* While the commands run no interrupt says that they have stopped         *)
LEMMA GoingInts ==
  ASSUME NEW K, NEW p, NEW d, NEW c, NEW int, NEW go, go, Lists(K, p, d, go, c, int)
  PROVE  /\ Running(K, d, c, p)
         /\ \A x \in {"END_DETECT", "TRANS_COMPLETE", "ACK_ERR", "ARBITRATION"} : x \notin int
BY DEF Lists

LEMMA NotOut ==
  ASSUME NEW K \in Queued, NEW j \in Nat, ~ByteAt(K, j) PROVE ~OutAt(K, j)
BY OutIn DEF OutAt, ByteAt

(* A byte is written                                                       *)
LEMMA WriteHead ==
  ASSUME NEW K \in Queued, NEW p \in Nat, NEW s, Works(K, s, p), Active(s) = {}, s.go,
         s.cmd # <<>>, Head(s.cmd).op = "WRITE", Head(s.cmd).n > 0
  PROVE  /\ s.tx # <<>> /\ Head(s.tx) = Stream(K)[p + 1] /\ Fed(K, p + 1, s.dq, Tail(s.tx))
         /\ Running(K, s.dq, OneLess(s.cmd), p + 1) /\ p + 1 < Len(Stream(K))
         /\ ByteAt(K, p + 1) /\ OutAt(K, p + 1)
<1>1. /\ Likewise(K, s.dq) /\ Fed(K, p, s.dq, s.tx) /\ Lists(K, p, s.dq, s.go, s.cmd, s.int)
  BY DEF Works
<1>2. Running(K, s.dq, s.cmd, p)
  BY <1>1, GoingInts
<1>3. PICK pe : Fits(s.cmd) /\ Ready(s.cmd) /\ Laid(K, p, s.cmd, pe) /\ Reached(s.dq, pe)
  BY <1>2 DEF Running
<1>4. PICK c : c = Head(s.cmd)
  OBVIOUS
<1>5. c \in Cmds /\ Place(K, c, p)
  BY <1>3, <1>4, RunningHead
<1>6. c.op \in Moves /\ c.n > 0 /\ c.op = "WRITE"
  BY <1>4 DEF Moves
<1>7. /\ c.q \in 1 .. Len(K) /\ In(K, c.q, p + 1) /\ p + 1 < Len(Stream(K))
      /\ p + 1 - First(K, c.q) <= OutLen(K[c.q])
  BY <1>5, <1>6, PlaceByte
<1>8. ByteAt(K, p + 1)
  BY <1>7 DEF ByteAt
<1>9. OutAt(K, p + 1)
  <2>1. PICK f \in Nat, l \in Nat, q \in 1 .. Len(K) : q = c.q /\ f = First(K, q) /\ l = OutLen(K[q])
    BY <1>7, EntryPlace, OutPlace
  <2>2. f < p + 1 /\ p + 1 - f <= l
    BY <1>7, <2>1 DEF In
  <2>3. p + 1 <= f + l
    BY <2>1, <2>2
  <2>4. OutOf(K, q, p + 1)
    BY <2>1, <2>2, <2>3 DEF OutOf
  <2>5. QED BY <1>7, <2>1, <2>4 DEF OutAt
<1>10. s.tx # <<>>
  <2> SUFFICES ASSUME s.tx = <<>> PROVE FALSE
    OBVIOUS
  <2>1. Loaded(s.dq)
    BY NothingActive
  <2>2. Fed(K, p, s.dq, <<>>)
    BY <1>1
  <2>3. \E q \in 1 .. Len(K) : Unloaded(s.dq[q])
    BY <1>1, <1>9, <2>2, FedNone
  <2>4. Len(s.dq) = Len(K)
    BY <1>1 DEF Likewise
  <2>5. QED BY <2>1, <2>3, <2>4 DEF Loaded
<1>11. Head(s.tx) = Stream(K)[p + 1] /\ Fed(K, p + 1, s.dq, Tail(s.tx))
  BY <1>1, <1>9, <1>10, FedTail
<1>12. Running(K, s.dq, OneLess(s.cmd), p + 1)
  <2>1. Fits(OneLess(s.cmd)) /\ Ready(OneLess(s.cmd)) /\ Laid(K, p + 1, OneLess(s.cmd), pe)
    BY <1>3, <1>4, <1>6, LaidLess
  <2>2. QED BY <1>3, <1>7, <2>1 DEF Running
<1>13. QED BY <1>7, <1>8, <1>9, <1>10, <1>11, <1>12

MoveInts(s, outcome) ==
  s.int \union {"TRAN_COMP"}
    \union (IF outcome = "nak" THEN {"ACK_ERR"} ELSE {})
    \union (IF outcome = "lost" THEN {"ARBITRATION"} ELSE {})
Stopped(s, c, g, o, i) == [s EXCEPT !.cmd = c, !.go = g, !.own = o, !.int = i]
WithCmd(s, c) == [s EXCEPT !.cmd = c]
WithStart(s, c, o) == [s EXCEPT !.cmd = c, !.own = o]
WithTx(s, x) == [s EXCEPT !.tx = x]
WithRx(s, r) == [s EXCEPT !.rx = r]
Wrote(s, outcome) == [ByteDone(s, outcome) EXCEPT !.tx = IF @ = <<>> THEN @ ELSE Tail(@)]
ReadIn(s, byte) ==
  [ByteDone(s, "ok") EXCEPT !.rx = IF Len(@) < RXCAP THEN Append(@, byte) ELSE @]

LEMMA StoppedIs ==
  ASSUME NEW s \in Driver, NEW c \in Seq(Cmds), NEW g \in BOOLEAN, NEW o \in BOOLEAN,
         NEW i \in SUBSET AllInts, NEW t, t = Stopped(s, c, g, o, i)
  PROVE  /\ t \in Driver /\ t.cmd = c /\ t.go = g /\ t.int = i /\ t.tx = s.tx /\ t.rx = s.rx
         /\ t.dq = s.dq /\ t.queuePos = s.queuePos /\ t.byteCnt = s.byteCnt /\ t.error = s.error
         /\ t.exitCode = s.exitCode /\ t.ena = s.ena /\ t.stage = s.stage
BY DEF Driver, Stopped

LEMMA WithCmdIs ==
  ASSUME NEW s \in Driver, NEW c \in Seq(Cmds), NEW t, t = WithCmd(s, c)
  PROVE  /\ t \in Driver /\ t.cmd = c /\ t.go = s.go /\ t.int = s.int /\ t.tx = s.tx /\ t.rx = s.rx
         /\ t.dq = s.dq /\ t.queuePos = s.queuePos /\ t.byteCnt = s.byteCnt /\ t.error = s.error
         /\ t.exitCode = s.exitCode /\ t.ena = s.ena /\ t.stage = s.stage
BY DEF Driver, WithCmd

LEMMA WithStartIs ==
  ASSUME NEW s \in Driver, NEW c \in Seq(Cmds), NEW o \in BOOLEAN, NEW t, t = WithStart(s, c, o)
  PROVE  /\ t \in Driver /\ t.cmd = c /\ t.go = s.go /\ t.int = s.int /\ t.tx = s.tx /\ t.rx = s.rx
         /\ t.dq = s.dq /\ t.queuePos = s.queuePos /\ t.byteCnt = s.byteCnt /\ t.error = s.error
         /\ t.exitCode = s.exitCode /\ t.ena = s.ena /\ t.stage = s.stage
BY DEF Driver, WithStart

LEMMA WithTxIs ==
  ASSUME NEW s \in Driver, NEW x \in Seq(Tokens), NEW t, t = WithTx(s, x)
  PROVE  /\ t \in Driver /\ t.cmd = s.cmd /\ t.go = s.go /\ t.int = s.int /\ t.tx = x /\ t.rx = s.rx
         /\ t.dq = s.dq /\ t.queuePos = s.queuePos /\ t.byteCnt = s.byteCnt /\ t.error = s.error
         /\ t.exitCode = s.exitCode /\ t.ena = s.ena /\ t.stage = s.stage
BY DEF Driver, WithTx

LEMMA WithRxIs ==
  ASSUME NEW s \in Driver, NEW r \in Seq(Tokens), NEW t, t = WithRx(s, r)
  PROVE  /\ t \in Driver /\ t.cmd = s.cmd /\ t.go = s.go /\ t.int = s.int /\ t.tx = s.tx /\ t.rx = r
         /\ t.dq = s.dq /\ t.queuePos = s.queuePos /\ t.byteCnt = s.byteCnt /\ t.error = s.error
         /\ t.exitCode = s.exitCode /\ t.ena = s.ena /\ t.stage = s.stage
BY DEF Driver, WithRx

LEMMA ByteDoneIs ==
  ASSUME NEW s \in Driver, OneLess(s.cmd) \in Seq(Cmds), NEW outcome, NEW u, u = ByteDone(s, outcome)
  PROVE  /\ u \in Driver /\ u.cmd = OneLess(s.cmd) /\ (u.go <=> outcome = "ok")
         /\ u.int = MoveInts(s, outcome) /\ u.tx = s.tx /\ u.rx = s.rx
         /\ u.dq = s.dq /\ u.queuePos = s.queuePos /\ u.byteCnt = s.byteCnt /\ u.error = s.error
         /\ u.exitCode = s.exitCode /\ u.ena = s.ena /\ u.stage = s.stage
<1>1. PICK c, g, i : c = OneLess(s.cmd) /\ g = (outcome = "ok") /\ i = MoveInts(s, outcome)
  OBVIOUS
<1>2. u = Stopped(s, c, g, g, i)
  BY <1>1, Zenon DEF ByteDone, Stopped, MoveInts
<1>3. c \in Seq(Cmds) /\ g \in BOOLEAN /\ i \in SUBSET AllInts
  <2>1. g \in BOOLEAN
    BY <1>1
  <2>2. s.int \in SUBSET AllInts
    BY DEF Driver
  <2>3. i \in SUBSET AllInts
    BY <1>1, <2>2 DEF MoveInts, AllInts
  <2>4. QED BY <1>1, <2>1, <2>3
<1>4. /\ u \in Driver /\ u.cmd = c /\ u.go = g /\ u.int = i /\ u.tx = s.tx /\ u.rx = s.rx
      /\ u.dq = s.dq /\ u.queuePos = s.queuePos /\ u.byteCnt = s.byteCnt /\ u.error = s.error
      /\ u.exitCode = s.exitCode /\ u.ena = s.ena /\ u.stage = s.stage
  <2> HIDE <1>1
  <2>1. QED BY <1>2, <1>3, StoppedIs
<1>5. u.go <=> outcome = "ok"
  BY <1>1, <1>4
<1>6. QED BY <1>1, <1>4, <1>5

LEMMA WroteIs ==
  ASSUME NEW s \in Driver, OneLess(s.cmd) \in Seq(Cmds), NEW outcome, s.tx # <<>>,
         NEW t, t = Wrote(s, outcome)
  PROVE  /\ t \in Driver /\ t.cmd = OneLess(s.cmd) /\ (t.go <=> outcome = "ok")
         /\ t.int = MoveInts(s, outcome) /\ t.tx = Tail(s.tx) /\ t.rx = s.rx
         /\ t.dq = s.dq /\ t.queuePos = s.queuePos /\ t.byteCnt = s.byteCnt /\ t.error = s.error
         /\ t.exitCode = s.exitCode /\ t.ena = s.ena /\ t.stage = s.stage
<1>1. PICK u, x : u = ByteDone(s, outcome) /\ x = Tail(s.tx)
  OBVIOUS
<1>2. /\ u \in Driver /\ u.cmd = OneLess(s.cmd) /\ (u.go <=> outcome = "ok")
      /\ u.int = MoveInts(s, outcome) /\ u.tx = s.tx /\ u.rx = s.rx
      /\ u.dq = s.dq /\ u.queuePos = s.queuePos /\ u.byteCnt = s.byteCnt /\ u.error = s.error
      /\ u.exitCode = s.exitCode /\ u.ena = s.ena /\ u.stage = s.stage
  BY <1>1, ByteDoneIs
<1>3. t = WithTx(u, x)
  <2>1. t = [u EXCEPT !.tx = IF u.tx = <<>> THEN u.tx ELSE Tail(u.tx)]
    BY <1>1, Zenon DEF Wrote
  <2>2. (IF u.tx = <<>> THEN u.tx ELSE Tail(u.tx)) = x
    BY <1>1, <1>2
  <2>3. QED BY <2>1, <2>2, Zenon DEF WithTx
<1>4. x \in Seq(Tokens)
  <2>1. s.tx \in Seq(Tokens)
    BY DEF Driver
  <2>2. QED BY <1>1, <2>1
<1>5. /\ t \in Driver /\ t.cmd = u.cmd /\ t.go = u.go /\ t.int = u.int /\ t.tx = x /\ t.rx = u.rx
      /\ t.dq = u.dq /\ t.queuePos = u.queuePos /\ t.byteCnt = u.byteCnt /\ t.error = u.error
      /\ t.exitCode = u.exitCode /\ t.ena = u.ena /\ t.stage = u.stage
  <2> HIDE <1>1
  <2>1. u \in Driver
    BY <1>2
  <2>2. QED BY ONLY <1>3, <1>4, <2>1, WithTxIs
<1>6. QED BY <1>1, <1>2, <1>5

LEMMA ReadInIs ==
  ASSUME NEW s \in Driver, OneLess(s.cmd) \in Seq(Cmds), Len(s.rx) < RXCAP, NEW byte \in Tokens,
         NEW t, t = ReadIn(s, byte)
  PROVE  /\ t \in Driver /\ t.cmd = OneLess(s.cmd) /\ t.go
         /\ t.int = MoveInts(s, "ok") /\ t.tx = s.tx /\ t.rx = Append(s.rx, byte)
         /\ t.dq = s.dq /\ t.queuePos = s.queuePos /\ t.byteCnt = s.byteCnt /\ t.error = s.error
         /\ t.exitCode = s.exitCode /\ t.ena = s.ena /\ t.stage = s.stage
<1>1. PICK u, x, outcome : u = ByteDone(s, outcome) /\ x = Append(s.rx, byte) /\ outcome = "ok"
  OBVIOUS
<1>2. /\ u \in Driver /\ u.cmd = OneLess(s.cmd) /\ (u.go <=> outcome = "ok")
      /\ u.int = MoveInts(s, outcome) /\ u.tx = s.tx /\ u.rx = s.rx
      /\ u.dq = s.dq /\ u.queuePos = s.queuePos /\ u.byteCnt = s.byteCnt /\ u.error = s.error
      /\ u.exitCode = s.exitCode /\ u.ena = s.ena /\ u.stage = s.stage
  BY <1>1, ByteDoneIs
<1>3. t = WithRx(u, x)
  <2>1. t = [u EXCEPT !.rx = IF Len(u.rx) < RXCAP THEN Append(u.rx, byte) ELSE u.rx]
    BY <1>1, Zenon DEF ReadIn
  <2>2. (IF Len(u.rx) < RXCAP THEN Append(u.rx, byte) ELSE u.rx) = x
    BY <1>1, <1>2
  <2>3. QED BY <2>1, <2>2, Zenon DEF WithRx
<1>4. x \in Seq(Tokens)
  <2>1. s.rx \in Seq(Tokens)
    BY DEF Driver
  <2>2. QED BY <1>1, <2>1
<1>5. /\ t \in Driver /\ t.cmd = u.cmd /\ t.go = u.go /\ t.int = u.int /\ t.tx = u.tx /\ t.rx = x
      /\ t.dq = u.dq /\ t.queuePos = u.queuePos /\ t.byteCnt = u.byteCnt /\ t.error = u.error
      /\ t.exitCode = u.exitCode /\ t.ena = u.ena /\ t.stage = u.stage
  <2> HIDE <1>1
  <2>1. u \in Driver
    BY <1>2
  <2>2. QED BY ONLY <1>3, <1>4, <2>1, WithRxIs
<1>6. QED BY <1>1, <1>2, <1>5

(* After a byte: it is to be counted, and the controller goes on unless it *)
(* was not acknowledged or lost                                            *)
LEMMA MoveLists ==
  ASSUME NEW K, NEW p \in Nat, NEW d, NEW s, Lists(K, p, d, s.go, s.cmd, s.int), s.go,
         NEW c, Running(K, d, c, p + 1), ByteAt(K, p + 1), NEW outcome, NEW go,
         go <=> outcome = "ok", NEW int, int = MoveInts(s, outcome)
  PROVE  /\ Lists(K, p + 1, d, go, c, int) /\ "TRAN_COMP" \in int
<1>1. \A x \in {"END_DETECT", "TRANS_COMPLETE", "ACK_ERR", "ARBITRATION"} : x \notin s.int
  BY DEF Lists
<1>2. "END_DETECT" \notin int /\ "TRANS_COMPLETE" \notin int
  BY <1>1 DEF MoveInts
<1>3. "ACK_ERR" \in int => outcome = "nak"
  BY <1>1 DEF MoveInts
<1>4. "ARBITRATION" \in int => outcome = "lost"
  BY <1>1 DEF MoveInts
<1>5. "TRAN_COMP" \in int
  BY DEF MoveInts
<1>6. QED BY <1>2, <1>3, <1>4, <1>5 DEF Lists

LEMMA WriteWorks ==
  ASSUME NEW K \in Queued, NEW p \in Nat, NEW s, Works(K, s, p), Active(s) = {}, s.go,
         s.cmd # <<>>, Head(s.cmd).op = "WRITE", Head(s.cmd).n > 0,
         NEW outcome, NEW t, t = Wrote(s, outcome)
  PROVE  /\ Works(K, t, p + 1) /\ Course(s, t) /\ t.stage = s.stage
         /\ t.queuePos = s.queuePos /\ t.byteCnt = s.byteCnt
         /\ s.tx # <<>> /\ Head(s.tx) = Stream(K)[p + 1] /\ p + 1 < Len(Stream(K))
<1>1. PICK b \in Nat : b = p + 1
  OBVIOUS
<1>2. /\ s.tx # <<>> /\ Head(s.tx) = Stream(K)[b] /\ Fed(K, b, s.dq, Tail(s.tx))
      /\ Running(K, s.dq, OneLess(s.cmd), b) /\ b < Len(Stream(K))
      /\ ByteAt(K, b) /\ OutAt(K, b)
  BY <1>1, WriteHead
<1>3. s \in Driver /\ Likewise(K, s.dq) /\ Enabled(s.ena, s.dq) /\ Len(s.rx) <= RXCAP
      /\ Counts(K, p, s.int, s.queuePos, s.byteCnt)
      /\ Lists(K, p, s.dq, s.go, s.cmd, s.int) /\ Stores(K, p, s.dq, s.queuePos, s.rx)
  BY DEF Works
<1>4. "TRAN_COMP" \notin s.int
  BY NothingActive
<1>5. OneLess(s.cmd) \in Seq(Cmds)
  BY <1>2 DEF Running, Fits
<1>6. /\ t \in Driver /\ t.cmd = OneLess(s.cmd) /\ (t.go <=> outcome = "ok")
      /\ t.int = MoveInts(s, outcome) /\ t.tx = Tail(s.tx) /\ t.rx = s.rx
      /\ t.dq = s.dq /\ t.queuePos = s.queuePos /\ t.byteCnt = s.byteCnt /\ t.error = s.error
      /\ t.exitCode = s.exitCode /\ t.ena = s.ena /\ t.stage = s.stage
  BY ONLY t = Wrote(s, outcome), <1>2, <1>3, <1>5, WroteIs
<1>7. Lists(K, b, s.dq, t.go, OneLess(s.cmd), t.int) /\ "TRAN_COMP" \in t.int
  BY <1>1, <1>2, <1>3, <1>6, MoveLists, ZenonT(60)
<1>8. Counts(K, b, t.int, s.queuePos, s.byteCnt)
  BY <1>1, <1>2, <1>3, <1>4, <1>7, CountsByte
<1>9. Stores(K, b, s.dq, s.queuePos, s.rx)
  <2>1. ASSUME NEW q \in 1 .. Len(K), K[q].mode = 1 PROVE ReadAt(K, q, b) = ReadAt(K, q, p)
    BY <1>1, <1>2, <2>1, ReadAtSkip
  <2>2. QED BY <1>3, <2>1, StoresSame
<1>10. Works(K, t, b)
  BY <1>2, <1>3, <1>6, <1>7, <1>8, <1>9 DEF Works
<1>11. QED BY <1>1, <1>2, <1>6, <1>10 DEF Course

(* A byte is read, of the entry that the handler is at                     *)
LEMMA ReadWorks ==
  ASSUME NEW K \in Queued, NEW p \in Nat, NEW s, Works(K, s, p), Active(s) = {}, s.go,
         s.cmd # <<>>, Head(s.cmd).op = "READ", Head(s.cmd).n > 0,
         NEW byte, byte = ByteToken(K[Head(s.cmd).q], Head(s.cmd).q,
                                    p + 1 - First(K, Head(s.cmd).q), Head(s.cmd).nak),
         NEW t, t = ReadIn(s, byte)
  PROVE  /\ Works(K, t, p + 1) /\ Course(s, t) /\ t.stage = s.stage
         /\ t.queuePos = s.queuePos /\ t.byteCnt = s.byteCnt
         /\ byte = Stream(K)[p + 1] /\ p + 1 < Len(Stream(K))
<1>1. PICK b \in Nat : b = p + 1
  OBVIOUS
<1>2. s \in Driver /\ Likewise(K, s.dq) /\ Enabled(s.ena, s.dq) /\ Len(s.rx) <= RXCAP
      /\ Counts(K, p, s.int, s.queuePos, s.byteCnt) /\ Fed(K, p, s.dq, s.tx)
      /\ Lists(K, p, s.dq, s.go, s.cmd, s.int) /\ Stores(K, p, s.dq, s.queuePos, s.rx)
  BY DEF Works
<1>3. "TRAN_COMP" \notin s.int /\ Len(s.rx) < RXCAP
  BY NothingActive
<1>4. Running(K, s.dq, s.cmd, p)
  BY <1>2, GoingInts
<1>5. PICK pe : Fits(s.cmd) /\ Ready(s.cmd) /\ Laid(K, p, s.cmd, pe) /\ Reached(s.dq, pe)
  BY <1>4 DEF Running
<1>6. PICK c, q : c = Head(s.cmd) /\ q = c.q
  OBVIOUS
<1>7. c \in Cmds /\ Place(K, c, p)
  BY <1>5, <1>6, RunningHead
<1>8. c.op \in Moves /\ c.n > 0 /\ c.op = "READ"
  BY <1>6 DEF Moves
<1>9. /\ q \in 1 .. Len(K) /\ In(K, q, b) /\ b < Len(Stream(K))
      /\ Stream(K)[b] = ByteToken(K[q], q, b - First(K, q), c.nak)
      /\ K[q].mode = 1 /\ K[q].addrReq < b - First(K, q)
  <2>1. /\ c.q \in 1 .. Len(K) /\ In(K, c.q, p + 1) /\ p + 1 < Len(Stream(K))
        /\ Stream(K)[p + 1] = ByteToken(K[c.q], c.q, p + 1 - First(K, c.q), c.nak)
        /\ K[c.q].mode = 1 /\ K[c.q].addrReq < p + 1 - First(K, c.q)
    BY <1>7, <1>8, PlaceByte
  <2>2. In(K, q, b)
    BY <1>1, <1>6, <2>1
  <2>3. b < Len(Stream(K))
    BY <1>1, <2>1
  <2>4. PICK f \in Nat : f = First(K, c.q)
    BY <2>1, EntryPlace
  <2>5. p + 1 - First(K, c.q) = b - f /\ b - First(K, q) = b - f
    BY <1>1, <1>6, <2>4
  <2>6. Stream(K)[b] = ByteToken(K[q], q, b - First(K, q), c.nak)
    BY <1>1, <1>6, <2>1, <2>5
  <2>7. K[q].addrReq < b - First(K, q)
    BY <1>6, <2>1, <2>5
  <2>8. QED BY <1>6, <2>1, <2>2, <2>3, <2>6, <2>7
<1>10. ByteAt(K, b)
  BY <1>9 DEF ByteAt
<1>11. PICK f \in Nat, l \in Nat, a \in Nat :
         f = First(K, q) /\ l = queueLength(K[q]) /\ a = K[q].addrReq /\ a > 0
  <2>1. K[q] \in Entries
    BY <1>9, EntryPlace
  <2>2. K[q].addrReq \in Nat /\ K[q].addrReq > 0
    BY <2>1 DEF Entries
  <2>3. QED BY <1>9, <2>2, EntryPlace
<1>12. f < b /\ b <= f + l /\ a < b - f
  BY <1>9, <1>11 DEF In
<1>13. q = s.queuePos
  <2>1. f < p /\ p <= f + l
    BY <1>1, <1>11, <1>12
  <2>2. In(K, q, p)
    BY <1>11, <2>1 DEF In
  <2>3. ByteAt(K, p)
    BY <1>9, <2>2 DEF ByteAt
  <2>4. In(K, s.queuePos, p)
    BY <1>2, <1>3, <2>3, CountsAt
  <2>5. s.queuePos \in 1 .. Len(K)
    BY WorksAt
  <2>6. QED BY <1>9, <2>2, <2>4, <2>5, InOne
<1>14. byte = Stream(K)[b]
  <2>1. p + 1 - First(K, Head(s.cmd).q) = b - f /\ b - First(K, q) = b - f
    BY <1>1, <1>6, <1>11
  <2>2. byte = ByteToken(K[q], q, b - First(K, q), c.nak)
    BY <1>6, <2>1
  <2>3. QED BY <1>9, <2>2
<1>15. byte = ByteToken(K[q], q, b - f, c.nak)
  BY <1>9, <1>11, <1>14, SMTT(30)
<1>16. byte \in Tokens /\ byte.q = q /\ byte.k = b - f - a
  <2>1. ~(b - f <= K[q].addrReq)
    BY <1>11, <1>12
  <2>2. byte = Token(IF c.nak THEN "nak" ELSE "read", q, b - f - a)
    BY <1>9, <1>11, <1>15, <2>1, SMTT(30) DEF ByteToken
  <2>3. q \in Nat /\ b - f - a \in Int
    BY <1>9, <1>11
  <2>4. QED BY <2>2, <2>3 DEF Token, Tokens, Kinds
<1>17. OneLess(s.cmd) \in Seq(Cmds) /\ Running(K, s.dq, OneLess(s.cmd), b)
  <2>1. Fits(OneLess(s.cmd)) /\ Ready(OneLess(s.cmd)) /\ Laid(K, b, OneLess(s.cmd), pe)
    BY <1>1, <1>5, <1>6, <1>8, LaidLess
  <2>2. QED BY <1>5, <1>9, <2>1 DEF Running, Fits
<1>18. /\ t \in Driver /\ t.cmd = OneLess(s.cmd) /\ t.go
       /\ t.int = MoveInts(s, "ok") /\ t.tx = s.tx /\ t.rx = Append(s.rx, byte)
       /\ t.dq = s.dq /\ t.queuePos = s.queuePos /\ t.byteCnt = s.byteCnt /\ t.error = s.error
       /\ t.exitCode = s.exitCode /\ t.ena = s.ena /\ t.stage = s.stage
  BY ONLY t = ReadIn(s, byte), <1>2, <1>3, <1>16, <1>17, ReadInIs
<1>19. Lists(K, b, s.dq, t.go, OneLess(s.cmd), t.int) /\ "TRAN_COMP" \in t.int
  <2>1. PICK outcome : outcome = "ok"
    OBVIOUS
  <2>2. t.int = MoveInts(s, outcome) /\ (t.go <=> outcome = "ok")
    BY <1>18, <2>1, Zenon
  <2>3. QED BY <1>1, <1>2, <1>10, <1>17, <2>2, MoveLists, Zenon
<1>20. Counts(K, b, t.int, s.queuePos, s.byteCnt)
  BY <1>1, <1>2, <1>3, <1>10, <1>19, CountsByte, SMTT(30)
<1>21. Stores(K, b, s.dq, s.queuePos, t.rx)
  <2>1. Stores(K, p, s.dq, q, s.rx)
    BY <1>2, <1>13
  <2>2. byte.k = p + 1 - First(K, q) - K[q].addrReq
    BY <1>1, <1>11, <1>16, SMTT(30)
  <2>3. In(K, q, p + 1)
    BY <1>1, <1>9
  <2>4. K[q].addrReq < p + 1 - First(K, q)
    BY <1>1, <1>11, <1>12
  <2>5. Stores(K, p + 1, s.dq, q, Append(s.rx, byte))
    BY <1>2, <1>9, <1>16, <2>1, <2>2, <2>3, <2>4, StoresRead
  <2>6. QED BY <1>1, <1>13, <1>18, <2>5, Zenon
<1>22. Fed(K, b, s.dq, s.tx)
  <2>1. ~OutAt(K, p + 1)
    <3> SUFFICES ASSUME NEW r \in 1 .. Len(K), OutOf(K, r, b) PROVE FALSE
      BY <1>1 DEF OutAt
    <3>1. In(K, r, b)
      BY OutIn
    <3>2. r = q
      BY <1>9, <3>1, InOne
    <3>3. OutLen(K[q]) = a
      BY <1>9, <1>11 DEF OutLen
    <3>4. b <= f + a
      BY <1>11, <3>2, <3>3 DEF OutOf
    <3>5. QED BY <1>11, <1>12, <3>4
  <2>2. QED BY <1>1, <1>2, <2>1, FedSkip
<1>23. Len(t.rx) <= RXCAP
  <2>1. s.rx \in Seq(Tokens) /\ RXCAP \in Nat
    BY <1>2, DriverAssumption DEF Stores
  <2>2. Len(Append(s.rx, byte)) = Len(s.rx) + 1 /\ Len(s.rx) \in Nat
    BY <1>16, <2>1
  <2>3. PICK n \in Nat : n = Len(s.rx) /\ n < RXCAP
    BY <1>3, <2>2, SMTT(30)
  <2>4. Len(t.rx) = n + 1
    BY <1>18, <2>2, <2>3, ZenonT(60)
  <2>5. QED BY <2>1, <2>3, <2>4
<1>24. Works(K, t, b)
  BY <1>2, <1>18, <1>19, <1>20, <1>21, <1>22, <1>23, Zenon DEF Works
<1>25. QED BY <1>1, <1>9, <1>14, <1>18, <1>24, Zenon DEF Course

Skipped(s) == [s EXCEPT !.cmd = Tail(@)]
Started(s) == [s EXCEPT !.cmd = Tail(@), !.own = TRUE]
StoppedAt(s, int) ==
  [s EXCEPT !.cmd = <<>>, !.go = FALSE, !.own = FALSE, !.int = @ \union {int}]
EndedAt(s, int) == [s EXCEPT !.cmd = <<>>, !.go = FALSE, !.int = @ \union {int}]
WithEnd(s, c, g, i) == [s EXCEPT !.cmd = c, !.go = g, !.int = i]

LEMMA WithEndIs ==
  ASSUME NEW s \in Driver, NEW c \in Seq(Cmds), NEW g \in BOOLEAN, NEW i \in SUBSET AllInts, NEW t,
         t = WithEnd(s, c, g, i)
  PROVE  /\ t \in Driver /\ t.cmd = c /\ t.go = g /\ t.int = i /\ t.tx = s.tx /\ t.rx = s.rx
         /\ t.dq = s.dq /\ t.queuePos = s.queuePos /\ t.byteCnt = s.byteCnt /\ t.error = s.error
         /\ t.exitCode = s.exitCode /\ t.ena = s.ena /\ t.stage = s.stage
BY DEF Driver, WithEnd

(* What a step that moves no byte leaves as it is                          *)
Rest(s, t) ==
  /\ t.tx = s.tx /\ t.rx = s.rx /\ t.dq = s.dq /\ t.queuePos = s.queuePos
  /\ t.byteCnt = s.byteCnt /\ t.error = s.error /\ t.exitCode = s.exitCode
  /\ t.ena = s.ena /\ t.stage = s.stage

LEMMA SkippedIs ==
  ASSUME NEW s \in Driver, Tail(s.cmd) \in Seq(Cmds), NEW t, t = Skipped(s)
  PROVE  t \in Driver /\ Rest(s, t) /\ t.cmd = Tail(s.cmd) /\ t.go = s.go /\ t.int = s.int
<1>1. PICK c : c = Tail(s.cmd)
  OBVIOUS
<1>2. t = WithCmd(s, c)
  BY <1>1, Zenon DEF Skipped, WithCmd
<1>3. c \in Seq(Cmds)
  BY <1>1
<1>4. t \in Driver /\ Rest(s, t) /\ t.cmd = c /\ t.go = s.go /\ t.int = s.int
  BY <1>2, <1>3, WithCmdIs DEF Rest
<1>5. QED BY <1>1, <1>4

LEMMA StartedIs ==
  ASSUME NEW s \in Driver, Tail(s.cmd) \in Seq(Cmds), NEW t, t = Started(s)
  PROVE  t \in Driver /\ Rest(s, t) /\ t.cmd = Tail(s.cmd) /\ t.go = s.go /\ t.int = s.int
<1>1. PICK c, o : c = Tail(s.cmd) /\ o = Yes
  OBVIOUS
<1>2. t = WithStart(s, c, o)
  BY <1>1, Zenon DEF Started, WithStart, Yes
<1>3. c \in Seq(Cmds) /\ o \in BOOLEAN
  BY <1>1, YesNo
<1>4. t \in Driver /\ Rest(s, t) /\ t.cmd = c /\ t.go = s.go /\ t.int = s.int
  <2> HIDE <1>1
  <2>1. QED BY <1>2, <1>3, WithStartIs DEF Rest
<1>5. QED BY <1>1, <1>4

LEMMA StoppedAtIs ==
  ASSUME NEW s \in Driver, NEW int \in AllInts, NEW t, t = StoppedAt(s, int)
  PROVE  t \in Driver /\ Rest(s, t) /\ ~t.go /\ t.int = s.int \union {int}
<1>1. PICK c, g, i : c = <<>> /\ g = No /\ i = s.int \union {int}
  OBVIOUS
<1>2. t = Stopped(s, c, g, g, i)
  BY <1>1, Zenon DEF StoppedAt, Stopped, No
<1>3. c \in Seq(Cmds) /\ g \in BOOLEAN /\ i \in SUBSET AllInts /\ ~g
  <2>1. s.int \in SUBSET AllInts
    BY DEF Driver
  <2>2. QED BY <1>1, <2>1, YesNo
<1>4. t \in Driver /\ Rest(s, t) /\ t.go = g /\ t.int = i
  <2> HIDE <1>1
  <2>1. QED BY <1>2, <1>3, StoppedIs DEF Rest
<1>5. QED BY <1>1, <1>3, <1>4

LEMMA EndedAtIs ==
  ASSUME NEW s \in Driver, NEW int \in AllInts, NEW t, t = EndedAt(s, int)
  PROVE  t \in Driver /\ Rest(s, t) /\ ~t.go /\ t.int = s.int \union {int}
<1>1. PICK c, g, i : c = <<>> /\ g = No /\ i = s.int \union {int}
  OBVIOUS
<1>2. t = WithEnd(s, c, g, i)
  BY <1>1, Zenon DEF EndedAt, WithEnd, No
<1>3. c \in Seq(Cmds) /\ g \in BOOLEAN /\ i \in SUBSET AllInts /\ ~g
  <2>1. s.int \in SUBSET AllInts
    BY DEF Driver
  <2>2. QED BY <1>1, <2>1, YesNo
<1>4. t \in Driver /\ Rest(s, t) /\ t.go = g /\ t.int = i
  <2> HIDE <1>1
  <2>1. QED BY <1>2, <1>3, WithEndIs DEF Rest
<1>5. QED BY <1>1, <1>3, <1>4

--------------------
(* At work, the first command is one of the list's                         *)
LEMMA WorksHead ==
  ASSUME NEW K \in Queued, NEW p \in Nat, NEW s, Works(K, s, p), s.go, s.cmd # <<>>
  PROVE  /\ Place(K, Head(s.cmd), p) /\ Head(s.cmd) \in Cmds /\ Head(s.cmd).q \in 1 .. Len(K)
         /\ s.cmd \in Seq(Cmds) /\ Tail(s.cmd) \in Seq(Cmds) /\ p < Len(Stream(K))
         /\ \E pe : /\ Laid(K, p + Size(Head(s.cmd)), Tail(s.cmd), pe) /\ Reached(s.dq, pe)
                    /\ Ready(s.cmd)
                    /\ Head(s.cmd).op \notin {"END", "STOP"} =>
                         Fits(Tail(s.cmd)) /\ Ready(Tail(s.cmd))
<1>1. Running(K, s.dq, s.cmd, p)
  BY GoingInts DEF Works
<1>2. PICK pe : /\ Fits(s.cmd) /\ Ready(s.cmd) /\ Laid(K, p, s.cmd, pe) /\ Reached(s.dq, pe)
                /\ p < Len(Stream(K))
  BY <1>1 DEF Running
<1>3. /\ s.cmd \in Seq(Cmds) /\ Head(s.cmd) \in Cmds /\ Head(s.cmd).q \in 1 .. Len(K)
      /\ Place(K, Head(s.cmd), p) /\ Laid(K, p + Size(Head(s.cmd)), Tail(s.cmd), pe)
      /\ Head(s.cmd).op \notin {"END", "STOP"} => Fits(Tail(s.cmd)) /\ Ready(Tail(s.cmd))
  BY <1>2, RunningHead
<1>4. Tail(s.cmd) \in Seq(Cmds)
  BY <1>3
<1>5. QED BY <1>2, <1>3, <1>4

LEMMA NothingWorks ==
  ASSUME NEW K \in Queued, NEW p \in Nat, NEW s, Works(K, s, p), s.go, s.cmd # <<>>,
         Head(s.cmd).op \in Moves, Head(s.cmd).n = 0, NEW t, t = Skipped(s)
  PROVE  Works(K, t, p) /\ Rest(s, t)
<1>1. /\ Tail(s.cmd) \in Seq(Cmds) /\ p < Len(Stream(K))
      /\ \E pe : /\ Laid(K, p + Size(Head(s.cmd)), Tail(s.cmd), pe) /\ Reached(s.dq, pe)
                 /\ Fits(Tail(s.cmd)) /\ Ready(Tail(s.cmd))
  BY WorksHead DEF Moves
<1>2. p + Size(Head(s.cmd)) = p
  BY DEF Size
<1>3. Running(K, s.dq, Tail(s.cmd), p)
  BY <1>1, <1>2 DEF Running
<1>4. s \in Driver
  BY DEF Works
<1>5. t \in Driver /\ Rest(s, t) /\ t.cmd = Tail(s.cmd) /\ t.go = s.go /\ t.int = s.int
  BY <1>1, <1>4, SkippedIs
<1>6. Lists(K, p, t.dq, t.go, t.cmd, t.int)
  BY <1>3, <1>5 DEF Works, Lists, Rest
<1>7. Works(K, t, p)
  BY <1>5, <1>6 DEF Works, Rest
<1>8. QED BY <1>5, <1>7

(* A token that is not a byte crosses the bus                              *)
LEMMA NoByte ==
  ASSUME NEW K \in Queued, NEW p \in Nat, NEW s, Works(K, s, p), "TRAN_COMP" \notin s.int,
         ~ByteAt(K, p + 1), NEW t, t \in Driver, Rest(s, t), "TRAN_COMP" \notin t.int,
         Lists(K, p + 1, t.dq, t.go, t.cmd, t.int)
  PROVE  Works(K, t, p + 1)
<1>1. PICK b \in Nat : b = p + 1
  OBVIOUS
<1>2. Likewise(K, s.dq) /\ Enabled(s.ena, s.dq) /\ Len(s.rx) <= RXCAP
      /\ Counts(K, p, s.int, s.queuePos, s.byteCnt) /\ Fed(K, p, s.dq, s.tx)
      /\ Stores(K, p, s.dq, s.queuePos, s.rx)
  BY DEF Works
<1>3. Counts(K, b, t.int, s.queuePos, s.byteCnt)
  BY <1>1, <1>2, CountsSkip
<1>4. Fed(K, b, s.dq, s.tx)
  <2>1. ~OutAt(K, b)
    BY <1>1, NotOut
  <2>2. QED BY <1>1, <1>2, <2>1, FedSkip
<1>5. Stores(K, b, s.dq, s.queuePos, s.rx)
  <2>1. ASSUME NEW q \in 1 .. Len(K), K[q].mode = 1 PROVE ReadAt(K, q, b) = ReadAt(K, q, p)
    BY <1>1, <2>1, ReadAtSkip
  <2>2. QED BY <1>2, <2>1, StoresSame
<1>6. Lists(K, b, t.dq, t.go, t.cmd, t.int)
  BY <1>1
<1>7. Works(K, t, b)
  BY <1>2, <1>3, <1>4, <1>5, <1>6 DEF Works, Rest
<1>8. QED BY <1>1, <1>7

LEMMA StartWorks ==
  ASSUME NEW K \in Queued, NEW p \in Nat, NEW s, Works(K, s, p), Active(s) = {}, s.go,
         s.cmd # <<>>, Head(s.cmd).op = "RSTART", NEW t, t = Started(s)
  PROVE  /\ Works(K, t, p + 1) /\ Rest(s, t)
         /\ Stream(K)[p + 1] = Token("start", Head(s.cmd).q, 0) /\ p + 1 < Len(Stream(K))
<1>1. /\ Tail(s.cmd) \in Seq(Cmds) /\ p < Len(Stream(K)) /\ Place(K, Head(s.cmd), p)
      /\ \E pe : /\ Laid(K, p + Size(Head(s.cmd)), Tail(s.cmd), pe) /\ Reached(s.dq, pe)
                 /\ Fits(Tail(s.cmd)) /\ Ready(Tail(s.cmd))
  BY WorksHead
<1>2. p + Size(Head(s.cmd)) = p + 1
  BY DEF Size, Moves
<1>3. /\ Stream(K)[p + 1] = Token("start", Head(s.cmd).q, 0) /\ ~ByteAt(K, p + 1)
      /\ p + 1 < Len(Stream(K))
  BY <1>1, PlaceStart
<1>4. Running(K, s.dq, Tail(s.cmd), p + 1)
  BY <1>1, <1>2, <1>3 DEF Running
<1>5. s \in Driver /\ Lists(K, p, s.dq, s.go, s.cmd, s.int)
  BY DEF Works
<1>6. t \in Driver /\ Rest(s, t) /\ t.cmd = Tail(s.cmd) /\ t.go = s.go /\ t.int = s.int
  BY <1>1, <1>5, StartedIs
<1>7. Lists(K, p + 1, t.dq, t.go, t.cmd, t.int)
  <2>1. \A x \in {"END_DETECT", "TRANS_COMPLETE", "ACK_ERR", "ARBITRATION"} : x \notin s.int
    BY <1>5 DEF Lists
  <2>2. QED BY <1>4, <1>6, <2>1 DEF Lists, Rest
<1>8. "TRAN_COMP" \notin s.int
  BY NothingActive
<1>9. QED BY <1>3, <1>6, <1>7, <1>8, NoByte

LEMMA StopWorks ==
  ASSUME NEW K \in Queued, NEW p \in Nat, NEW s, Works(K, s, p), Active(s) = {}, s.go,
         s.cmd # <<>>, Head(s.cmd).op = "STOP", NEW t, t = StoppedAt(s, "TRANS_COMPLETE")
  PROVE  /\ Works(K, t, p + 1) /\ Rest(s, t)
         /\ Stream(K)[p + 1] = Token("stop", Head(s.cmd).q, 0) /\ p + 1 = Len(Stream(K))
<1>1. Place(K, Head(s.cmd), p)
  BY WorksHead
<1>2. /\ Stream(K)[p + 1] = Token("stop", Head(s.cmd).q, 0) /\ ~ByteAt(K, p + 1)
      /\ p + 1 = Len(Stream(K))
  BY <1>1, PlaceStop
<1>3. s \in Driver /\ Lists(K, p, s.dq, s.go, s.cmd, s.int)
  BY DEF Works
<1>4. t \in Driver /\ Rest(s, t) /\ ~t.go /\ t.int = s.int \union {"TRANS_COMPLETE"}
  <2>1. "TRANS_COMPLETE" \in AllInts
    BY DEF AllInts
  <2>2. QED BY <1>3, <2>1, StoppedAtIs
<1>5. "TRAN_COMP" \notin s.int
  BY NothingActive
<1>6. Lists(K, p + 1, t.dq, t.go, t.cmd, t.int)
  <2>1. \A x \in {"END_DETECT", "TRANS_COMPLETE", "ACK_ERR", "ARBITRATION"} : x \notin s.int
    BY <1>3 DEF Lists
  <2>2. QED BY <1>2, <1>4, <1>5, <2>1 DEF Lists
<1>7. QED BY <1>2, <1>4, <1>5, <1>6, NoByte

LEMMA EndWorks ==
  ASSUME NEW K \in Queued, NEW p \in Nat, NEW s, Works(K, s, p), Active(s) = {}, s.go,
         s.cmd # <<>>, Head(s.cmd).op = "END", NEW t, t = EndedAt(s, "END_DETECT")
  PROVE  Works(K, t, p) /\ Rest(s, t)
<1>1. PICK pe : /\ Laid(K, p + Size(Head(s.cmd)), Tail(s.cmd), pe) /\ Reached(s.dq, pe)
                /\ Ready(s.cmd) /\ s.cmd \in Seq(Cmds) /\ p < Len(Stream(K))
  BY WorksHead
<1>2. Tail(s.cmd) = <<>>
  <2>1. PICK n \in Nat \ {0} : n = Len(s.cmd)
    BY <1>1
  <2>2. Head(s.cmd) = s.cmd[1]
    BY <1>1
  <2>3. ~(1 \in 1 .. n - 1)
    BY <1>1, <2>1, <2>2 DEF Ready
  <2>4. n = 1
    <3>1. \A m \in Nat \ {0} : ~(1 \in 1 .. m - 1) => m = 1
      OBVIOUS
    <3>2. QED BY <2>1, <2>3, <3>1
  <2>5. Tail(s.cmd) \in Seq(Cmds) /\ Len(Tail(s.cmd)) = 0
    <3>1. PICK c \in Seq(Cmds) : c = s.cmd
      BY <1>1
    <3>2. Len(c) = 1 /\ c # <<>>
      BY <2>1, <2>4, <3>1
    <3>3. Tail(c) \in Seq(Cmds)
      BY <3>2
    <3>4. Len(Tail(c)) = 0
      BY <3>2
    <3>5. QED BY <3>1, <3>3, <3>4
  <2>6. QED BY <2>5, EmptySeq
<1>3. p + Size(Head(s.cmd)) = p
  BY DEF Size, Moves
<1>4. pe = p
  BY <1>1, <1>2, <1>3, LaidNone
<1>5. s \in Driver /\ Lists(K, p, s.dq, s.go, s.cmd, s.int)
  BY DEF Works
<1>6. t \in Driver /\ Rest(s, t) /\ ~t.go /\ t.int = s.int \union {"END_DETECT"}
  <2>1. "END_DETECT" \in AllInts
    BY DEF AllInts
  <2>2. QED BY <1>5, <2>1, EndedAtIs
<1>7. Lists(K, p, t.dq, t.go, t.cmd, t.int)
  <2>1. \A x \in {"END_DETECT", "TRANS_COMPLETE", "ACK_ERR", "ARBITRATION"} : x \notin s.int
    BY <1>5 DEF Lists
  <2>2. QED BY <1>1, <1>4, <1>6, <2>1 DEF Lists, Rest
<1>8. Counts(K, p, t.int, s.queuePos, s.byteCnt)
  <2>1. Counts(K, p, s.int, s.queuePos, s.byteCnt)
    BY DEF Works
  <2>2. "TRAN_COMP" \in s.int <=> "TRAN_COMP" \in t.int
    BY <1>6
  <2>3. QED BY <2>1, <2>2, CountsSame
<1>9. Works(K, t, p)
  BY <1>6, <1>7, <1>8 DEF Works, Rest
<1>10. QED BY <1>6, <1>9

--------------------
(* Which entry a token of the stream belongs to                            *)
LEMMA Where ==
  ASSUME NEW K \in Queued, NEW k \in 1 .. Len(Stream(K))
  PROVE  \E q \in 1 .. Len(K) : Off(K, q - 1) < k /\ k <= Off(K, q)
<1>1. K \in Seq(Entries) /\ K # <<>> /\ Len(K) \in Nat
  BY DEF Queued
<1>2. Off(K, 0) = 0 /\ Len(Stream(K)) = Off(K, Len(K)) /\ \A q \in 0 .. Len(K) : Off(K, q) \in Nat
  BY <1>1, OffIs, StreamAt
<1>3. PICK n \in Nat : n = Len(K)
  BY <1>1
<1>4. k \in Nat /\ 0 < k /\ k <= Off(K, n)
  BY <1>2, <1>3
<1>5. PICK S : S = {q \in Nat : q <= n /\ k <= Off(K, q)}
  OBVIOUS
<1>6. n \in S /\ S \subseteq Nat /\ S # {}
  BY <1>3, <1>4, <1>5
<1>7. PICK m \in S : \A q \in S : m <= q
  BY <1>6, Least
<1>8. m \in Nat /\ m <= n /\ k <= Off(K, m)
  BY <1>5, <1>7
<1>9. m # 0
  BY <1>2, <1>4, <1>8
<1>10. PICK l \in Nat : l = m - 1
  BY <1>8, <1>9
<1>11. l \notin S
  BY <1>7, <1>8, <1>10
<1>12. ~(k <= Off(K, l))
  BY <1>5, <1>8, <1>10, <1>11
<1>13. Off(K, l) \in Nat
  BY <1>2, <1>3, <1>8, <1>10
<1>14. Off(K, l) < k
  BY <1>4, <1>12, <1>13
<1>15. m \in 1 .. Len(K)
  BY <1>3, <1>8, <1>9
<1>16. QED BY <1>8, <1>10, <1>14, <1>15

LEMMA TokenAt ==
  ASSUME NEW K \in Queued, NEW q \in 1 .. Len(K), NEW k \in Nat, Off(K, q - 1) < k, k <= Off(K, q)
  PROVE  Stream(K)[k].q = q /\ (Stream(K)[k].kind = "start" <=> k = First(K, q))
<1>1. K \in Seq(Entries) /\ K[q] \in Entries
  BY EntryPlace DEF Queued
<1>2. PICK o \in Nat, f \in Nat, l \in Nat : o = Off(K, q - 1) /\ f = o + 1 /\ l = queueLength(K[q])
  <2>1. PICK o \in Nat, l \in Nat : o = Off(K, q - 1) /\ l = queueLength(K[q])
    BY EntryEnds
  <2>2. o + 1 \in Nat
    OBVIOUS
  <2>3. QED BY <2>1, <2>2
<1>3. First(K, q) = f
  BY <1>2 DEF First
<1>4. Off(K, q) = o + 1 + l + (IF K[q].stop THEN 1 ELSE 0)
  BY <1>1, <1>2, OffIs
<1>5. CASE k = f
  <2>1. Stream(K)[o + 1] = Token("start", q, 0)
    BY <1>1, <1>2, Positions
  <2>2. QED BY <1>2, <1>3, <1>5, <2>1 DEF Token
<1>6. CASE f < k /\ k <= f + l
  <2>1. PICK d \in 1 .. l : k = o + 1 + d
    <3>1. k - f \in 1 .. l /\ k = o + 1 + (k - f)
      BY <1>2, <1>6, SMTT(30)
    <3>2. QED BY <3>1
  <2>2. Stream(K)[o + 1 + d] = ByteOf(K[q], q, d)
    BY <1>1, <1>2, Positions
  <2>3. ByteOf(K[q], q, d).q = q /\ ByteOf(K[q], q, d).kind # "start"
    BY DEF ByteOf, Token
  <2>4. QED BY <1>3, <1>6, <2>1, <2>2, <2>3
<1>7. CASE f + l < k
  <2>1. K[q].stop /\ k = o + 2 + l
    <3>1. K[q].stop
      BY <1>2, <1>4, <1>7
    <3>2. Off(K, q) = o + 2 + l
      BY <1>2, <1>4, <3>1
    <3>3. k <= o + 2 + l
      BY <3>2
    <3>4. ~(k < o + 2 + l)
      BY <1>2, <1>7, SMTT(30)
    <3>5. \A a, b \in Nat : b <= a + 2 + l /\ ~(b < a + 2 + l) => b = a + 2 + l
      OBVIOUS
    <3>6. QED BY <1>2, <3>1, <3>3, <3>4, <3>5
  <2>2. Stream(K)[o + 2 + l] = Token("stop", q, 0)
    BY <1>1, <1>2, <2>1, Positions
  <2>3. QED BY <1>2, <1>3, <1>7, <2>1, <2>2 DEF Token
<1>8. f <= k
  BY <1>2
<1>9. QED BY <1>2, <1>5, <1>6, <1>7, <1>8, SMTT(30)

(* The bytes of an entry that have crossed the bus are counted             *)
CrossedOf(q) == {k \in 1 .. Len(bus) : bus[k].q = q /\ bus[k].kind # "start"}

LEMMA MovedIs ==
  ASSUME NEW K \in Queued, Begins(bus, Stream(K)), NEW q \in 1 .. Len(K),
         First(K, q) <= Len(bus), Len(bus) <= First(K, q) + queueLength(K[q])
  PROVE  Moved(q) = Len(bus) - First(K, q)
<1>1. PICK p \in Nat, f \in Nat, l \in Nat :
        /\ p = Len(bus) /\ f = First(K, q) /\ l = queueLength(K[q]) /\ p <= Len(Stream(K))
        /\ \A k \in 1 .. p : bus[k] = Stream(K)[k]
  <2>1. Len(bus) \in Nat
    BY DEF Begins
  <2>2. QED BY <2>1, EntryPlace DEF Begins
<1>2. PICK o \in Nat : o = Off(K, q - 1) /\ f = o + 1
  BY <1>1, EntryEnds DEF First
<1>3. f <= p /\ p <= f + l /\ Len(Stream(K)) \in Nat /\ f + l <= Off(K, q) /\ Off(K, q) \in Nat
  BY <1>1, <1>2, EntryEnds
<1>4. ASSUME NEW k \in 1 .. p PROVE k \in CrossedOf(q) <=> f < k
  <2>1. k \in 1 .. Len(Stream(K)) /\ k \in Nat
    BY <1>1, <1>3
  <2>2. PICK r \in 1 .. Len(K) : Off(K, r - 1) < k /\ k <= Off(K, r)
    BY <2>1, Where
  <2>3. Stream(K)[k].q = r /\ (Stream(K)[k].kind = "start" <=> k = First(K, r))
    BY <2>1, <2>2, TokenAt
  <2>4. k \in CrossedOf(q) <=> r = q /\ k # f
    BY <1>1, <2>3 DEF CrossedOf
  <2>5. r = q => f <= k
    BY <1>2, <2>1, <2>2
  <2>6. CASE f < k
    <3>1. Off(K, q - 1) < k /\ k <= Off(K, q)
      BY <1>2, <1>3, <2>1, <2>6, SMTT(30)
    <3>2. Stream(K)[k].q = q
      BY <2>1, <3>1, TokenAt
    <3>3. QED BY <2>1, <2>3, <2>4, <2>6, <3>2, <1>1
  <2>7. CASE ~(f < k)
    BY <1>1, <2>1, <2>4, <2>5, <2>7
  <2>8. QED BY <2>6, <2>7
<1>5. CrossedOf(q) = f + 1 .. p
  <2>1. CrossedOf(q) \subseteq 1 .. p
    BY <1>1 DEF CrossedOf
  <2>2. \A k \in 1 .. p : f < k <=> k \in f + 1 .. p
    BY <1>1
  <2>3. f + 1 .. p \subseteq 1 .. p
    BY <1>1
  <2>4. QED BY <1>4, <2>1, <2>2, <2>3
<1>6. Cardinality(f + 1 .. p) = p - f
  <2>1. f + 1 \in Int /\ p \in Int
    BY <1>1
  <2>2. Cardinality(f + 1 .. p) = IF f + 1 > p THEN 0 ELSE p - (f + 1) + 1
    BY <2>1, FS_Interval
  <2>3. QED BY <1>1, <1>3, <2>2, SMTT(30)
<1>7. QED BY <1>1, <1>5, <1>6 DEF Moved, CrossedOf

LEMMA MovedMost ==
  ASSUME NEW K \in Queued, Begins(bus, Stream(K)), NEW q \in 1 .. Len(K),
         MovedAt(K, q, Len(bus)) = queueLength(K[q])
  PROVE  Moved(q) >= queueLength(K[q])
<1>1. PICK p \in Nat, f \in Nat, l \in Nat :
        /\ p = Len(bus) /\ f = First(K, q) /\ l = queueLength(K[q]) /\ p <= Len(Stream(K))
        /\ \A k \in 1 .. p : bus[k] = Stream(K)[k]
  <2>1. Len(bus) \in Nat
    BY DEF Begins
  <2>2. QED BY <2>1, EntryPlace DEF Begins
<1>2. PICK o \in Nat : o = Off(K, q - 1) /\ f = o + 1
  BY <1>1, EntryEnds DEF First
<1>3. f + l <= p
  BY <1>1, MovedAll
<1>4. f + l <= Off(K, q) /\ Off(K, q) \in Nat
  BY <1>1, <1>2, EntryEnds
<1>5. f + 1 .. f + l \subseteq CrossedOf(q)
  <2> SUFFICES ASSUME NEW k \in f + 1 .. f + l PROVE k \in CrossedOf(q)
    OBVIOUS
  <2>1. k \in Nat /\ k \in 1 .. p /\ f < k
    BY <1>1, <1>3
  <2>5. o < k /\ k <= f + l
    BY <1>1, <1>2, SMTT(30)
  <2>2. Off(K, q - 1) < k /\ k <= Off(K, q)
    BY <1>1, <1>2, <1>4, <2>1, <2>5, SMTT(30)
  <2>3. Stream(K)[k].q = q /\ Stream(K)[k].kind # "start"
    BY <1>1, <2>1, <2>2, TokenAt, SMTT(30)
  <2>4. QED BY <1>1, <2>1, <2>3 DEF CrossedOf
<1>6. IsFiniteSet(CrossedOf(q))
  <2>1. IsFiniteSet(1 .. p)
    BY <1>1, FS_Interval
  <2>2. CrossedOf(q) \subseteq 1 .. p
    BY <1>1 DEF CrossedOf
  <2>3. QED BY <2>1, <2>2, FS_Subset
<1>7. Cardinality(f + 1 .. f + l) = l
  <2>1. f + 1 \in Int /\ f + l \in Int
    BY <1>1
  <2>2. Cardinality(f + 1 .. f + l) = IF f + 1 > f + l THEN 0 ELSE f + l - (f + 1) + 1
    BY <2>1, FS_Interval
  <2>3. QED BY <1>1, <2>2
<1>8. Cardinality(f + 1 .. f + l) <= Cardinality(CrossedOf(q))
  BY <1>5, <1>6, FS_Subset
<1>9. Cardinality(CrossedOf(q)) \in Nat
  BY <1>6, FS_CardinalityType
<1>10. Moved(q) = Cardinality(CrossedOf(q))
  BY DEF Moved, CrossedOf
<1>11. QED BY <1>1, <1>7, <1>8, <1>9, <1>10

--------------------
(* A transaction is begun: i2cProcQueue up to trans_start.                 *)

New(e) == Fresh(e) /\ e.addrSent = 0 /\ e.position = 0 /\ e.data = <<>> /\ e.addrReq \in {1, 2}
AllNew(d) == \A q \in 1 .. Len(d) : New(d[q])
Begun(s) ==
  LET filled == FillCmdQueue(s.dq, 1)
  IN [s EXCEPT !.dq = filled.dq, !.cmd = filled.cmd, !.queuePos = 1,
               !.byteCnt = 0, !.tx = <<>>, !.rx = <<>>,
               !.int = {"TRANS_START"}, !.ena = AllInts, !.exitCode = ClearedExit,
               !.stage = "STARTUP", !.go = TRUE]
BegunAs(s, d, c, a, n, x, i, e, code, stage, g) ==
  [s EXCEPT !.dq = d, !.cmd = c, !.queuePos = a, !.byteCnt = n, !.tx = x, !.rx = x,
            !.int = i, !.ena = e, !.exitCode = code, !.stage = stage, !.go = g]

LEMMA HeldFirst ==
  ASSUME NEW d \in Queued, AllNew(d)
  PROVE  Held(d, d, 1, 0)
<1>1. d \in Seq(Entries) /\ d # <<>> /\ Len(d) \in Nat
  BY DEF Queued
<1>2. 1 \in 1 .. Len(d)
  BY <1>1
<1>3. Alike(d, d)
  BY <1>1 DEF Alike, SameEntry
<1>4. Off(d, 1 - 1) = 0
  BY <1>1, OffIs
<1>5. Fresh(d[1]) /\ \A r \in 2 .. Len(d) : Fresh(d[r])
  BY <1>1, <1>2 DEF AllNew, New
<1>6. EntryAt(d, d[1], 1, 0)
  BY <1>4, <1>5 DEF EntryAt
<1>7. \A r \in 1 .. 1 - 1 : d[r].stopCmdSent
  OBVIOUS
<1>8. \A r \in 1 + 1 .. Len(d) : Fresh(d[r])
  BY <1>5
<1>9. QED BY <1>2, <1>3, <1>6, <1>7, <1>8 DEF Held

(* Nothing has been supplied, moved or stored                              *)
LEMMA NothingYet ==
  ASSUME NEW K \in Queued, NEW d, Likewise(K, d),
         \A q \in 1 .. Len(K) : d[q].addrSent = 0 /\ d[q].position = 0 /\ d[q].data = <<>>
  PROVE  /\ Counts(K, 0, {"TRANS_START"}, 1, 0) /\ Fed(K, 0, d, <<>>) /\ Stores(K, 0, d, 1, <<>>)
<1>1. 1 \in 1 .. Len(K)
  BY DEF Queued
<1>2. ASSUME NEW q \in 1 .. Len(K)
      PROVE  /\ MovedAt(K, q, 0) = 0 /\ ReadAt(K, q, 0) = 0 /\ InOrderGiven(d[q]) /\ Given(d[q]) = 0
             /\ Clamp(0 - First(K, q), OutLen(K[q])) = 0 /\ Stored(d[q], q)
  <2>1. PICK f \in Nat, l \in Nat, o \in Nat :
          f = First(K, q) /\ l = queueLength(K[q]) /\ o = OutLen(K[q])
    BY EntryPlace, OutPlace
  <2>2. MovedAt(K, q, 0) = Clamp(0 - First(K, q), queueLength(K[q]))
    <3>1. 0 \in Int
      OBVIOUS
    <3>2. QED BY <3>1, MovedType
  <2>3. Clamp(0 - f, l) = 0 /\ Clamp(0 - f, o) = 0
    BY <2>1 DEF Clamp
  <2>4. d[q] \in Entries /\ K[q] \in Entries
    BY LikewiseEntry
  <2>5. d[q].addrReq \in Nat \ {0} /\ d[q].length \in Nat /\ K[q].addrReq \in Nat
    BY <2>4 DEF Entries
  <2>6. InOrderGiven(d[q])
    BY <2>5 DEF InOrderGiven
  <2>7. Given(d[q]) = 0
    BY <2>5 DEF Given
  <2>8. ReadAt(K, q, 0) = 0
    BY <2>1, <2>2, <2>3, <2>5 DEF ReadAt
  <2>9. Stored(d[q], q)
    BY DEF Stored, Numbered
  <2>10. QED BY <2>1, <2>2, <2>3, <2>6, <2>7, <2>8, <2>9
<1>3. Counts(K, 0, {"TRANS_START"}, 1, 0)
  BY <1>1, <1>2 DEF Counts, Counted
<1>4. Fed(K, 0, d, <<>>)
  <2>1. Supplied(K, d, 0)
    BY <1>2 DEF Supplied
  <2>2. Feeds(K, 0, 0, <<>>)
    <3>1. PICK g : g = [i \in 0 .. 0 |-> 0]
      OBVIOUS
    <3>2. g \in [0 .. Len(<<>>) -> Nat] /\ g[0] = 0 /\ g[Len(<<>>)] = 0
      BY <3>1
    <3>3. Gap(K, 0, 0 + 1)
      BY DEF Gap
    <3>4. 1 .. Len(<<>>) = {}
      OBVIOUS
    <3>5. QED BY <3>2, <3>3, <3>4 DEF Feeds
  <2>3. TXCAP \in Nat /\ <<>> \in Seq(Tokens) /\ Len(<<>>) <= TXCAP
    BY DriverAssumption
  <2>4. QED BY <2>1, <2>2, <2>3 DEF Fed
<1>5. Stores(K, 0, d, 1, <<>>)
  BY <1>2 DEF Stores, Numbered
<1>6. QED BY <1>3, <1>4, <1>5

(* The first list of commands *)
LEMMA FirstList ==
  ASSUME NEW K \in Queued, AllNew(K), NEW d, NEW c, d = FillCmdQueue(K, 1).dq, c = FillCmdQueue(K, 1).cmd
  PROVE  /\ Alike(K, d) /\ Likewise(K, d) /\ Running(K, d, c, 0)
         /\ c \in Seq(Cmds) /\ Ended(c) /\ \E pe : Laid(K, 0, c, pe)
         /\ c # <<>> /\ c[1].op = "RSTART"
<1>1. Held(K, K, 1, 0)
  BY HeldFirst
<1>2. Likewise(K, K)
  BY DEF Likewise, SameTransfer, Queued
<1>3. 0 < Len(Stream(K))
  <2>1. 1 \in 1 .. Len(K)
    BY DEF Queued
  <2>2. QED BY <2>1, EntryPlace
<1>4. /\ Alike(K, d) /\ Likewise(K, d) /\ Running(K, d, c, 0)
      /\ c \in Seq(Cmds) /\ Ended(c) /\ \E pe : Laid(K, 0, c, pe)
  <2>1. 1 \in Nat \ {0} /\ 1 <= 1 /\ 0 \in Nat
    OBVIOUS
  <2>2. QED BY <1>1, <1>2, <1>3, <2>1, RefillRuns
<1>5. QED BY <1>4, FirstIsStart

LEMMA BeginWorks ==
  ASSUME NEW s \in Driver, s.dq \in Queued, AllNew(s.dq), NEW t, t = Begun(s)
  PROVE  Works(s.dq, t, 0) /\ t.exitCode = {} /\ t.stage # "DONE"
<1>1. PICK K : K = s.dq
  OBVIOUS
<1>2. K \in Queued /\ AllNew(K) /\ K \in Seq(Entries)
  BY <1>1 DEF Queued
<1>6. PICK d, c : d = FillCmdQueue(K, 1).dq /\ c = FillCmdQueue(K, 1).cmd
  OBVIOUS
<1>7. /\ Alike(K, d) /\ Likewise(K, d) /\ Running(K, d, c, 0)
      /\ c \in Seq(Cmds) /\ Ended(c) /\ \E pe : Laid(K, 0, c, pe)
  BY <1>2, <1>6, FirstList
<1>9. PICK x, i, e, code, stage, g, a, n :
        /\ x = <<>> /\ i = {"TRANS_START"} /\ e = AllInts /\ code = ClearedExit
        /\ stage = "STARTUP" /\ g = Yes /\ a = 1 /\ n = 0
  OBVIOUS
<1>10. t = BegunAs(s, d, c, a, n, x, i, e, code, stage, g)
  BY <1>1, <1>6, <1>9, Zenon DEF Begun, BegunAs, Yes
<1>11. /\ x \in Seq(Tokens) /\ i \in SUBSET AllInts /\ e \in SUBSET AllInts /\ code \in SUBSET Bits
       /\ stage \in {"DONE", "STARTUP", "RUNNING"} /\ g \in BOOLEAN /\ a \in Nat /\ n \in Nat
       /\ d \in Seq(Entries)
  <2>1. i \in SUBSET AllInts
    BY <1>9 DEF AllInts
  <2>2. code \in SUBSET Bits /\ g \in BOOLEAN
    BY <1>9, YesNo DEF ClearedExit
  <2>3. d \in Seq(Entries)
    BY <1>7 DEF Likewise
  <2>4. QED BY <1>9, <2>1, <2>2, <2>3
<1>12. /\ t \in Driver /\ t.dq = d /\ t.cmd = c /\ t.queuePos = a /\ t.byteCnt = n
       /\ t.tx = x /\ t.rx = x /\ t.int = i /\ t.ena = e /\ t.exitCode = code
       /\ t.stage = stage /\ t.go = g
  <2> HIDE <1>9, <1>6
  <2>1. c \in Seq(Cmds)
    BY <1>7
  <2>2. QED BY ONLY s \in Driver, <1>10, <1>11, <2>1 DEF BegunAs, Driver
<1>13. ASSUME NEW q \in 1 .. Len(K)
       PROVE  d[q].addrSent = 0 /\ d[q].position = 0 /\ d[q].data = <<>>
  <2>1. New(K[q]) /\ SameEntry(K[q], d[q])
    BY <1>2, <1>7 DEF AllNew, Alike
  <2>2. QED BY <2>1 DEF New, SameEntry
<1>14. Counts(K, 0, i, a, n) /\ Fed(K, 0, d, x) /\ Stores(K, 0, d, a, x)
  BY <1>2, <1>7, <1>9, <1>13, NothingYet
<1>15. Lists(K, 0, d, g, c, i)
  BY <1>7, <1>9 DEF Lists
<1>16. Enabled(e, d)
  BY <1>9 DEF Enabled, AllInts
<1>17. Len(x) <= RXCAP
  BY <1>9, DriverAssumption
<1>18. Works(K, t, 0)
  BY <1>7, <1>12, <1>14, <1>15, <1>16, <1>17 DEF Works
<1>19. code = {} /\ stage # "DONE"
  BY <1>9 DEF ClearedExit
<1>20. QED BY <1>1, <1>12, <1>18, <1>19

--------------------
(* The driver's invariant: where the task is, what the bus has carried and *)
(* what the driver says of it, whether the transaction is at work, finished*)
(* or given up.                                                            *)

(* The faults of the run i2c_driver: a device does not acknowledge,        *)
(* arbitration is lost, the wait ends early, another device holds the bus  *)
(* between calls, event groups are used again.  The handler and the daemon *)
(* keep up, and nobody seizes a transaction that has been started.         *)
Prompt == Faults \subseteq {"nak", "lost", "timeout", "held", "oldGroup"}
Waits == {"waiting", "woken", "gross"}
Serving == Waits \union {"shutdown", "report"}
Reasons == {"OK", "BUSY", "ACK", "BUS", "TIMEOUT"}
Calls ==
  [api : {"wire", "events"}, tries : {0, 1}, waited : BOOLEAN, reason : Reasons,
   eBits : SUBSET Bits]

(* What each part of the state is                                          *)
Kept ==
  /\ i2c \in Driver /\ Len(i2c.dq) <= MaxQueue /\ Few(i2c)
  /\ groups \in [1 .. MaxQueue -> SUBSET Bits]
  /\ call \in Calls /\ event \in BOOLEAN /\ posted \in BOOLEAN
  /\ pc \in Serving \union {"idle", "proc", "reinit", "flush"}

(* A transaction that is not finished is where the bus says it is          *)
AtWork == i2c.stage # "DONE" => pc \in Waits /\ Works(queue, i2c, Len(bus))

(* One that is finished, or given up, ended as the exit code says          *)
Attended ==
  pc \in Serving =>
    /\ queue \in Queued /\ Likewise(queue, i2c.dq) /\ Begins(bus, Stream(queue))
    /\ \A q \in 1 .. Len(queue) : queue[q].addrReq \in {1, 2}
    /\ PassedMoved(queue, i2c.queuePos, Len(bus))
    /\ IF "DONE" \in i2c.exitCode
       THEN i2c.stage = "DONE" /\ Ends(queue, i2c, Len(bus))
       ELSE i2c.exitCode = {} /\ ~event /\ ~posted

(* The task gives it up only when the wait ran out, and then a byte has    *)
(* been counted                                                            *)
Waited ==
  /\ pc \in {"woken", "gross", "shutdown"} =>
       ("DONE" \in i2c.exitCode /\ pc = "woken") \/ call.waited
  /\ pc \in {"woken", "gross", "shutdown"} /\ call.waited => Advanced(i2c)

(* Between transactions the queue holds new transfers, the last with STOP  *)
Prepared ==
  /\ pc \in {"idle", "proc", "reinit"} => AllNew(i2c.dq)
  /\ pc = "idle" => \A q \in 1 .. Len(i2c.dq) : ~i2c.dq[q].stop
  /\ pc \in {"proc", "reinit"} => i2c.dq \in Queued
  /\ pc = "reinit" => call.reason = "BUSY"

(* Their event groups say nothing of i2cAddQueue's bits until the report   *)
Clear(b) == b \cap EVENT_MASK = {}
Cleared == pc # "flush" => \A q \in 1 .. Len(i2c.dq) : Clear(groups[q])

Reported ==
  pc = "report" =>
    \/ call.reason = "TIMEOUT" /\ call.waited /\ "ERROR" \in call.eBits
    \/ "DONE" \in i2c.exitCode /\ call.eBits = i2c.exitCode /\ call.reason = ReasonOf

DriverInv ==
  /\ Kept /\ AtWork /\ Attended /\ Waited /\ Prepared /\ Cleared /\ Reported
  /\ ResultsTrue /\ ReadsLand /\ SuccessShows

(* What a step does to the bus                                             *)
BusStep ==
  \/ bus' = bus /\ queue' = queue
  \/ bus' = <<>>
  \/ queue \in Queued /\ queue' = queue /\ Advances(queue, bus, bus')

(* A step of the handler or the controller in the middle of a transaction  *)
LEMMA WorkStep ==
  ASSUME DriverInv, i2c.stage # "DONE", UNCHANGED <<pc, call, event, posted, groups, queue>>,
         Works(queue, i2c', Len(bus')), i2c'.stage # "DONE", Course(i2c, i2c'),
         Advanced(i2c) => Advanced(i2c'), Begins(bus', Stream(queue))
  PROVE  DriverInv'
<1>1. /\ pc \in Waits /\ pc \in Serving /\ pc' = pc /\ call' = call /\ event' = event
      /\ posted' = posted /\ groups' = groups /\ queue' = queue
  BY DEF DriverInv, AtWork, Serving
<1>2. /\ queue \in Queued /\ Likewise(queue, i2c.dq)
      /\ \A q \in 1 .. Len(queue) : queue[q].addrReq \in {1, 2}
  BY <1>1 DEF DriverInv, Attended
<1>3. Len(bus') \in Nat
  BY DEF Begins
<1>4. /\ PassedMoved(queue, i2c'.queuePos, Len(bus')) /\ Few(i2c') /\ Likewise(queue, i2c'.dq)
      /\ i2c' \in Driver
  BY <1>2, <1>3, WorksPassed
<1>5. Len(i2c'.dq) = Len(i2c.dq)
  BY <1>2, <1>4 DEF Likewise
<1>6. i2c'.exitCode = i2c.exitCode /\ i2c'.error = i2c.error
  BY DEF Course
<1>7. Kept'
  BY <1>1, <1>4, <1>5 DEF DriverInv, Kept
<1>8. AtWork'
  BY <1>1 DEF AtWork
<1>9. Attended'
  <2>1. "DONE" \notin i2c.exitCode /\ i2c.exitCode = {} /\ ~event /\ ~posted
    BY <1>1 DEF DriverInv, Attended
  <2>2. QED BY <1>1, <1>2, <1>4, <1>6, <2>1 DEF Attended
<1>10. Waited'
  BY <1>1, <1>6 DEF DriverInv, Waited
<1>11. Prepared' /\ Reported' /\ ResultsTrue' /\ SuccessShows'
  BY <1>1 DEF Prepared, Reported, ResultsTrue, OkMeansComplete, DoneMeansMoved, SuccessShows, Waits
<1>12. Cleared'
  BY <1>1, <1>5 DEF DriverInv, Cleared, Waits
<1>13. ReadsLand'
  <2>1. Stores(queue, Len(bus'), i2c'.dq, i2c'.queuePos, i2c'.rx)
    BY DEF Works
  <2>2. ASSUME NEW q \in 1 .. Len(i2c'.dq), NEW k \in 1 .. Len(i2c'.dq[q].data)
        PROVE  i2c'.dq[q].data[k].q = q /\ i2c'.dq[q].data[k].k = k
    <3>1. q \in 1 .. Len(queue)
      BY <1>4, <2>2 DEF Likewise
    <3>2. Numbered(i2c'.dq[q].data, q, 0)
      BY <2>1, <3>1 DEF Stores, Stored
    <3>3. i2c'.dq[q].data[k].q = q /\ i2c'.dq[q].data[k].k = 0 + k
      BY <3>2 DEF Numbered
    <3>4. k \in Int
      OBVIOUS
    <3>5. QED BY <3>3, <3>4
  <2>3. QED BY <2>2 DEF ReadsLand
<1>14. QED BY <1>7, <1>8, <1>9, <1>10, <1>11, <1>12, <1>13 DEF DriverInv

(* A step that leaves a finished transaction as it is                      *)
Quiet(s, t) ==
  /\ t \in Driver /\ t.dq = s.dq /\ t.queuePos = s.queuePos /\ t.byteCnt = s.byteCnt
  /\ t.stage = s.stage /\ t.error = s.error /\ t.exitCode = s.exitCode /\ t.tx = s.tx /\ t.rx = s.rx

LEMMA QuietStep ==
  ASSUME DriverInv, i2c.stage = "DONE", Quiet(i2c, i2c'),
         UNCHANGED <<pc, call, event, posted, groups, queue, bus>>
  PROVE  DriverInv'
<1>1. /\ pc' = pc /\ call' = call /\ event' = event /\ bus' = bus
      /\ posted' = posted /\ groups' = groups /\ queue' = queue
  OBVIOUS
<1>2. /\ i2c'.dq = i2c.dq /\ i2c'.queuePos = i2c.queuePos /\ i2c'.byteCnt = i2c.byteCnt
      /\ i2c'.stage = i2c.stage /\ i2c'.error = i2c.error /\ i2c'.exitCode = i2c.exitCode
      /\ i2c'.tx = i2c.tx /\ i2c'.rx = i2c.rx /\ i2c' \in Driver
  BY DEF Quiet
<1>3. Kept'
  BY <1>1, <1>2 DEF DriverInv, Kept, Few
<1>4. AtWork'
  BY <1>2 DEF AtWork
<1>5. Attended'
  BY <1>1, <1>2 DEF DriverInv, Attended, Ends, Whole
<1>6. Waited'
  BY <1>1, <1>2 DEF DriverInv, Waited, Advanced
<1>7. Prepared' /\ Cleared' /\ ReadsLand'
  BY <1>1, <1>2 DEF DriverInv, Prepared, Cleared, ReadsLand
<1>8. Reported'
  BY <1>1, <1>2 DEF DriverInv, Reported, ReasonOf
<1>9. ResultsTrue'
  BY <1>1, <1>2 DEF DriverInv, ResultsTrue, OkMeansComplete, DoneMeansMoved, Moved
<1>10. SuccessShows'
  BY <1>1, <1>2 DEF DriverInv, SuccessShows
<1>11. QED BY <1>3, <1>4, <1>5, <1>6, <1>7, <1>8, <1>9, <1>10 DEF DriverInv

--------------------
(* Steps that touch only registers.                                        *)

WithInts(s, e, i) == [s EXCEPT !.ena = e, !.int = i]
WithOwn(s, o) == [s EXCEPT !.own = o]
WithOwnGo(s, o, g) == [s EXCEPT !.own = o, !.go = g]
WithHeld(s, h) == [s EXCEPT !.held = h]

LEMMA WithIntsIs ==
  ASSUME NEW s \in Driver, NEW e \in SUBSET AllInts, NEW i \in SUBSET AllInts, NEW t, t = WithInts(s, e, i)
  PROVE  Quiet(s, t)
BY DEF Driver, WithInts, Quiet

LEMMA WithOwnIs ==
  ASSUME NEW s \in Driver, NEW o \in BOOLEAN, NEW t, t = WithOwn(s, o)
  PROVE  Quiet(s, t)
BY DEF Driver, WithOwn, Quiet

LEMMA WithOwnGoIs ==
  ASSUME NEW s \in Driver, NEW o \in BOOLEAN, NEW g \in BOOLEAN, NEW t, t = WithOwnGo(s, o, g)
  PROVE  Quiet(s, t)
BY DEF Driver, WithOwnGo, Quiet

LEMMA WithHeldIs ==
  ASSUME NEW s \in Driver, NEW h \in BOOLEAN, NEW t, t = WithHeld(s, h)
  PROVE  Quiet(s, t) /\ Rest(s, t) /\ t.cmd = s.cmd /\ t.go = s.go /\ t.int = s.int
BY DEF Driver, WithHeld, Quiet, Rest

LEMMA HeldWorks ==
  ASSUME NEW K \in Queued, NEW p \in Nat, NEW s, Works(K, s, p), NEW h \in BOOLEAN,
         NEW t, t = WithHeld(s, h)
  PROVE  Works(K, t, p)
<1>1. s \in Driver
  BY DEF Works
<1>2. t \in Driver /\ Rest(s, t) /\ t.cmd = s.cmd /\ t.go = s.go /\ t.int = s.int
  BY <1>1, WithHeldIs DEF Quiet
<1>3. QED BY <1>2 DEF Works, Rest

LEMMA EjectKeeps == ASSUME DriverInv, IsrEject PROVE DriverInv'
<1>1. i2c.stage = "DONE" /\ UNCHANGED <<pc, call, event, posted, groups, queue, bus>>
  BY DEF IsrEject
<1>2. PICK e, i : e = {} /\ i = i2c.int \ Active(i2c)
  OBVIOUS
<1>3. i2c' = WithInts(i2c, e, i)
  BY <1>2, Zenon DEF IsrEject, WithInts
<1>4. i2c \in Driver
  BY DEF DriverInv, Kept
<1>5. e \in SUBSET AllInts /\ i \in SUBSET AllInts
  BY <1>2, <1>4 DEF Driver
<1>6. Quiet(i2c, i2c')
  <2> HIDE <1>2
  <2>1. QED BY <1>3, <1>4, <1>5, WithIntsIs
<1>7. QED BY <1>1, <1>6, QuietStep

LEMMA UnattendedKeeps == ASSUME DriverInv, HwUnattended PROVE DriverInv'
<1>1. i2c.stage = "DONE" /\ UNCHANGED <<pc, call, event, posted, groups, queue, bus>>
  BY DEF HwUnattended
<1>2. i2c \in Driver
  BY DEF DriverInv, Kept
<1>3. i2c' = [i2c EXCEPT !.own = Yes] \/ i2c' = [i2c EXCEPT !.own = No, !.go = No]
  BY Zenon DEF HwUnattended, Yes, No
<1>4. i2c' = WithOwn(i2c, Yes) \/ i2c' = WithOwnGo(i2c, No, No)
  BY <1>3, Zenon DEF WithOwn, WithOwnGo
<1>5. Quiet(i2c, i2c')
  <2>1. CASE i2c' = WithOwn(i2c, Yes)
    BY <1>2, <2>1, YesNo, WithOwnIs
  <2>2. CASE i2c' = WithOwnGo(i2c, No, No)
    BY <1>2, <2>2, YesNo, WithOwnGoIs
  <2>3. QED BY <1>4, <2>1, <2>2
<1>6. QED BY <1>1, <1>5, QuietStep

LEMMA HeldEdits ==
  ASSUME DriverInv, UNCHANGED <<pc, call, event, posted, groups, queue, bus>>,
         NEW h \in BOOLEAN, i2c' = WithHeld(i2c, h)
  PROVE  DriverInv'
<1>1. i2c \in Driver
  BY DEF DriverInv, Kept
<1>2. Quiet(i2c, i2c') /\ Rest(i2c, i2c')
  BY <1>1, WithHeldIs
<1>3. CASE i2c.stage = "DONE"
  BY <1>2, <1>3, QuietStep
<1>4. CASE i2c.stage # "DONE"
  <2>1. pc \in Serving /\ Works(queue, i2c, Len(bus))
    BY <1>4 DEF DriverInv, AtWork, Serving
  <2>2. queue \in Queued /\ Begins(bus, Stream(queue))
    BY <2>1 DEF DriverInv, Attended
  <2>3. Len(bus) \in Nat
    BY <2>2 DEF Begins
  <2>4. Works(queue, i2c', Len(bus))
    BY <2>1, <2>2, <2>3, HeldWorks
  <2>5. Course(i2c, i2c') /\ (Advanced(i2c) => Advanced(i2c')) /\ i2c'.stage # "DONE"
    BY <1>2, <1>4 DEF Rest, Course, Advanced
  <2>6. Works(queue, i2c', Len(bus')) /\ Begins(bus', Stream(queue))
    BY <2>2, <2>4
  <2>7. UNCHANGED <<pc, call, event, posted, groups, queue>>
    OBVIOUS
  <2>8. QED BY <1>4, <2>5, <2>6, <2>7, WorkStep
<1>5. QED BY <1>3, <1>4

LEMMA HoldKeeps == ASSUME DriverInv, Hold \/ Release PROVE DriverInv'
<1>1. UNCHANGED <<pc, call, event, posted, groups, queue, bus>>
  BY DEF Hold, Release
<1>2. i2c' = [i2c EXCEPT !.held = Yes] \/ i2c' = [i2c EXCEPT !.held = No]
  BY Zenon DEF Hold, Release, Yes, No
<1>3. i2c' = WithHeld(i2c, Yes) \/ i2c' = WithHeld(i2c, No)
  BY <1>2, Zenon DEF WithHeld
<1>4. QED BY <1>1, <1>3, YesNo, HeldEdits

--------------------
(* The steps of the handler and the daemon.                                *)

LEMMA WorkFacts ==
  ASSUME DriverInv, i2c.stage # "DONE"
  PROVE  /\ pc \in Waits /\ Works(queue, i2c, Len(bus)) /\ queue \in Queued
         /\ Begins(bus, Stream(queue)) /\ Len(bus) \in Nat
         /\ \A q \in 1 .. Len(queue) : queue[q].addrReq \in {1, 2}
<1>1. pc \in Waits /\ pc \in Serving /\ Works(queue, i2c, Len(bus))
  BY DEF DriverInv, AtWork, Serving
<1>2. /\ queue \in Queued /\ Begins(bus, Stream(queue))
      /\ \A q \in 1 .. Len(queue) : queue[q].addrReq \in {1, 2}
  BY <1>1 DEF DriverInv, Attended
<1>3. QED BY <1>1, <1>2 DEF Begins

LEMMA PassStep == ASSUME DriverInv, IsrPass PROVE DriverInv'
<1>1. /\ i2c.stage # "DONE" /\ Active(i2c) \intersect Fatal = {}
      /\ UNCHANGED <<pc, call, event, posted, groups, queue>> /\ bus' = bus
  BY DEF IsrPass
<1>2. /\ Works(queue, i2c, Len(bus)) /\ queue \in Queued /\ Begins(bus, Stream(queue))
      /\ Len(bus) \in Nat
  BY <1>1, WorkFacts
<1>3. i2c' = IF "END_DETECT" \in Active(i2c) THEN OnEndDetect(Served(i2c, Active(i2c)))
             ELSE Served(i2c, Active(i2c))
  BY Zenon DEF IsrPass
<1>4. /\ Works(queue, i2c', Len(bus)) /\ Course(i2c, i2c') /\ "TRAN_COMP" \notin i2c'.int
      /\ i2c'.stage # "DONE"
  BY <1>1, <1>2, <1>3, PassKeeps
<1>5. Advanced(i2c) => Advanced(i2c')
  BY <1>2, <1>4, AdvancedStays
<1>6. Works(queue, i2c', Len(bus')) /\ Begins(bus', Stream(queue))
  BY <1>1, <1>2, <1>4
<1>7. QED BY <1>1, <1>4, <1>5, <1>6, WorkStep

LEMMA FinishStep == ASSUME DriverInv, IsrFinish PROVE DriverInv'
<1>1. /\ i2c.stage # "DONE" /\ Active(i2c) \intersect Fatal # {} /\ posted' \in {posted, TRUE}
      /\ UNCHANGED <<pc, call, event, groups, queue, bus>>
  BY DEF IsrFinish
<1>2. /\ pc' = pc /\ call' = call /\ event' = event /\ groups' = groups /\ queue' = queue
      /\ bus' = bus
  BY <1>1
<1>3. /\ Works(queue, i2c, Len(bus)) /\ queue \in Queued /\ Begins(bus, Stream(queue))
      /\ Len(bus) \in Nat /\ pc \in Waits
      /\ \A q \in 1 .. Len(queue) : queue[q].addrReq \in {1, 2}
  BY <1>1, WorkFacts
<1>4. PICK u : u = Served(i2c, Active(i2c))
  OBVIOUS
<1>5. i2c' = IF "ACK_ERR" \in Active(i2c) THEN OnAckErr(u)
             ELSE IF "TRANS_COMPLETE" \in Active(i2c) THEN IsrExit(u, {}, "OK")
             ELSE IsrExit(u, {"ARBITRATION", "ERROR"}, "ARBITRATION")
  BY <1>4, Zenon DEF IsrFinish
<1>6. /\ i2c' \in Driver /\ i2c'.stage = "DONE" /\ Likewise(queue, i2c'.dq) /\ Few(i2c')
      /\ PassedMoved(queue, i2c'.queuePos, Len(bus)) /\ Ends(queue, i2c', Len(bus))
      /\ Stores(queue, Len(bus), i2c'.dq, i2c'.queuePos, i2c'.rx)
      /\ Advanced(i2c) => Advanced(i2c')
  BY <1>1, <1>3, <1>4, <1>5, FinishKeeps
<1>7. "DONE" \in i2c'.exitCode
  BY <1>6 DEF Ends
<1>8. Len(i2c'.dq) = Len(i2c.dq)
  BY <1>3, <1>6 DEF Likewise, Works
<1>9. Kept'
  BY <1>1, <1>2, <1>6, <1>8 DEF DriverInv, Kept
<1>10. AtWork'
  BY <1>6 DEF AtWork
<1>11. Attended'
  BY <1>2, <1>3, <1>6, <1>7 DEF Attended
<1>12. Waited'
  BY <1>2, <1>6, <1>7 DEF DriverInv, Waited
<1>13. pc' \in Waits
  BY <1>2, <1>3
<1>14. Prepared' /\ Reported' /\ ResultsTrue' /\ SuccessShows'
  BY ONLY <1>13 DEF Prepared, Reported, ResultsTrue, OkMeansComplete, DoneMeansMoved, SuccessShows, Waits
<1>15. Cleared'
  BY <1>2, <1>3, <1>8 DEF DriverInv, Cleared, Waits
<1>16. ReadsLand'
  <2>1. ASSUME NEW q \in 1 .. Len(i2c'.dq), NEW k \in 1 .. Len(i2c'.dq[q].data)
        PROVE  i2c'.dq[q].data[k].q = q /\ i2c'.dq[q].data[k].k = k
    <3>1. q \in 1 .. Len(queue)
      BY <1>6, <2>1 DEF Likewise
    <3>2. Numbered(i2c'.dq[q].data, q, 0)
      BY <1>6, <3>1 DEF Stores, Stored
    <3>3. i2c'.dq[q].data[k].q = q /\ i2c'.dq[q].data[k].k = 0 + k
      BY <3>2 DEF Numbered
    <3>4. k \in Int
      OBVIOUS
    <3>5. QED BY <3>3, <3>4
  <2>2. QED BY <2>1 DEF ReadsLand
<1>17. QED BY <1>9, <1>10, <1>11, <1>12, <1>14, <1>15, <1>16 DEF DriverInv

LEMMA DaemonStep == ASSUME DriverInv, Daemon PROVE DriverInv'
<1>1. /\ posted /\ ~posted' /\ event' /\ event' \in BOOLEAN /\ posted' \in BOOLEAN
      /\ i2c' = i2c /\ pc' = pc /\ call' = call /\ groups' = groups /\ queue' = queue /\ bus' = bus
  BY DEF Daemon
<1>2. Kept' /\ AtWork' /\ Attended' /\ Waited'
  BY <1>1 DEF DriverInv, Kept, AtWork, Attended, Waited
<1>3. Prepared' /\ Cleared' /\ Reported' /\ ReadsLand' /\ SuccessShows'
  BY <1>1 DEF DriverInv, Prepared, Cleared, Reported, ReasonOf, ReadsLand, SuccessShows
<1>4. ResultsTrue'
  BY <1>1 DEF DriverInv, ResultsTrue, OkMeansComplete, DoneMeansMoved, Moved
<1>5. QED BY <1>2, <1>3, <1>4 DEF DriverInv

--------------------
(* The steps of the controller: it does what the first command says, and   *)
(* what crosses the bus is the next token of the stream.                   *)

LEMMA RunsIs ==
  ASSUME Prompt, NEW op, Runs(op)
  PROVE  /\ i2c.stage # "DONE" /\ Active(i2c) = {} /\ i2c.go /\ i2c.cmd # <<>>
         /\ Head(i2c.cmd).op = op
  BY DEF Runs, Prompt

LEMMA StreamType ==
  ASSUME NEW K \in Queued
  PROVE  Stream(K) \in Seq(Tokens) /\ Len(Stream(K)) \in Nat
<1>1. K \in Seq(Entries)
  BY DEF Queued
<1>2. Stream(K) \in Seq(Tokens)
  BY <1>1, StreamAt
<1>3. QED BY <1>2

LEMMA CrossStep ==
  ASSUME DriverInv, i2c.stage # "DONE", UNCHANGED <<pc, call, event, posted, groups, queue>>,
         NEW e, bus' = Append(bus, e), Stream(queue)[Len(bus) + 1] = e,
         Len(bus) + 1 <= Len(Stream(queue)), Works(queue, i2c', Len(bus) + 1),
         i2c'.stage = i2c.stage, Course(i2c, i2c'), i2c'.queuePos = i2c.queuePos,
         i2c'.byteCnt = i2c.byteCnt
  PROVE  DriverInv' /\ BusStep
<1>1. /\ queue \in Queued /\ Begins(bus, Stream(queue)) /\ Len(bus) \in Nat
  BY WorkFacts
<1>2. PICK s : s = Stream(queue)
  OBVIOUS
<1>3. s \in Seq(Tokens)
  BY <1>1, <1>2, StreamType
<1>4. Begins(bus, s) /\ s[Len(bus) + 1] = e
  BY <1>1, <1>2
<1>5. Len(bus) < Len(s)
  BY <1>1, <1>2, <1>3
<1>6. Begins(bus', s) /\ Len(bus') = Len(bus) + 1 /\ SubSeq(bus', 1, Len(bus)) = bus
  BY <1>3, <1>4, <1>5, BeginsMore
<1>7. Begins(bus', Stream(queue))
  BY <1>2, <1>6
<1>8. Works(queue, i2c', Len(bus'))
  BY <1>6
<1>9. Advanced(i2c) => Advanced(i2c')
  BY DEF Advanced
<1>10. DriverInv'
  BY <1>7, <1>8, <1>9, WorkStep
<1>11. Len(bus') > Len(bus)
  BY <1>1, <1>6
<1>12. Advances(queue, bus, bus')
  BY <1>6, <1>7, <1>11 DEF Advances
<1>13. QED BY <1>1, <1>10, <1>12 DEF BusStep

LEMMA StayStep ==
  ASSUME DriverInv, i2c.stage # "DONE", UNCHANGED <<pc, call, event, posted, groups, queue, bus>>,
         Works(queue, i2c', Len(bus)), Rest(i2c, i2c')
  PROVE  DriverInv'
<1>1. /\ Begins(bus, Stream(queue)) /\ bus' = bus
  BY WorkFacts
<1>2. Works(queue, i2c', Len(bus')) /\ Begins(bus', Stream(queue))
  BY <1>1
<1>3. (Advanced(i2c) => Advanced(i2c')) /\ Course(i2c, i2c') /\ i2c'.stage # "DONE"
  BY DEF Rest, Advanced, Course
<1>4. QED BY <1>2, <1>3, WorkStep

LEMMA WriteRuns == ASSUME DriverInv, Prompt, HwWrite PROVE DriverInv' /\ BusStep
<1>1. /\ Runs("WRITE") /\ Head(i2c.cmd).n > 0 /\ UNCHANGED <<pc, call, event, posted, groups, queue>>
  BY DEF HwWrite
<1>2. PICK outcome \in Outcomes :
        i2c' = [ByteDone(i2c, outcome) EXCEPT !.tx = IF @ = <<>> THEN @ ELSE Tail(@)]
  BY Zenon DEF HwWrite
<1>3. i2c' = Wrote(i2c, outcome)
  BY <1>2, Zenon DEF Wrote
<1>4. bus' = Append(bus, IF i2c.tx = <<>> THEN Token("bogus", 0, 0) ELSE Head(i2c.tx))
  BY Zenon DEF HwWrite, OnBus
<1> HIDE <1>2
<1>5. /\ i2c.stage # "DONE" /\ Active(i2c) = {} /\ i2c.go /\ i2c.cmd # <<>>
      /\ Head(i2c.cmd).op = "WRITE"
  BY <1>1, RunsIs
<1>6. Works(queue, i2c, Len(bus)) /\ queue \in Queued /\ Len(bus) \in Nat
  BY <1>5, WorkFacts
<1>7. PICK p \in Nat : p = Len(bus)
  BY <1>6
<1>8. Works(queue, i2c, p)
  BY <1>6, <1>7
<1>9. /\ Works(queue, i2c', p + 1) /\ Course(i2c, i2c') /\ i2c'.stage = i2c.stage
      /\ i2c'.queuePos = i2c.queuePos /\ i2c'.byteCnt = i2c.byteCnt
      /\ i2c.tx # <<>> /\ Head(i2c.tx) = Stream(queue)[p + 1] /\ p + 1 < Len(Stream(queue))
  BY <1>1, <1>3, <1>5, <1>6, <1>8, WriteWorks
<1>10. PICK e : e = Head(i2c.tx)
  OBVIOUS
<1>11. bus' = Append(bus, e)
  BY <1>4, <1>9, <1>10, Zenon
<1>12. /\ Works(queue, i2c', Len(bus) + 1) /\ Stream(queue)[Len(bus) + 1] = e
  BY <1>7, <1>9, <1>10
<1>13. Len(bus) + 1 <= Len(Stream(queue))
  <2>1. Len(Stream(queue)) \in Nat
    BY <1>6, StreamType
  <2>2. QED BY <1>7, <1>9, <2>1
<1>14. QED BY <1>1, <1>5, <1>9, <1>11, <1>12, <1>13, CrossStep

LEMMA ReadRuns == ASSUME DriverInv, Prompt, HwRead PROVE DriverInv' /\ BusStep
<1>1. /\ Runs("READ") /\ Head(i2c.cmd).n > 0 /\ UNCHANGED <<pc, call, event, posted, groups, queue>>
  BY DEF HwRead
<1>2. PICK byte : byte = ByteToken(queue[Head(i2c.cmd).q], Head(i2c.cmd).q,
                                   Moved(Head(i2c.cmd).q) + 1, Head(i2c.cmd).nak)
  OBVIOUS
<1>3. /\ i2c' = [ByteDone(i2c, "ok") EXCEPT !.rx = IF Len(@) < RXCAP THEN Append(@, byte) ELSE @]
      /\ bus' = Append(bus, byte)
  BY <1>2, Zenon DEF HwRead, OnBus
<1>4. i2c' = ReadIn(i2c, byte)
  BY <1>3, Zenon DEF ReadIn
<1>5. bus' = Append(bus, byte)
  BY <1>3
<1> HIDE <1>3
<1>6. /\ i2c.stage # "DONE" /\ Active(i2c) = {} /\ i2c.go /\ i2c.cmd # <<>>
      /\ Head(i2c.cmd).op = "READ"
  BY <1>1, RunsIs
<1>7. Works(queue, i2c, Len(bus)) /\ queue \in Queued /\ Len(bus) \in Nat /\ Begins(bus, Stream(queue))
  BY <1>6, WorkFacts
<1>8. PICK p \in Nat : p = Len(bus)
  BY <1>7
<1>9. Works(queue, i2c, p)
  BY <1>7, <1>8
<1>10. PICK c : c = Head(i2c.cmd)
  OBVIOUS
<1>11. Place(queue, c, p) /\ c \in Cmds /\ c.q \in 1 .. Len(queue)
  BY <1>6, <1>7, <1>9, <1>10, WorksHead
<1>12. In(queue, c.q, p + 1)
  BY <1>1, <1>6, <1>7, <1>10, <1>11, PlaceByte DEF Moves
<1>13. PICK q \in 1 .. Len(queue) : q = c.q
  BY <1>11
<1>14. PICK f \in Nat, l \in Nat : f = First(queue, q) /\ l = queueLength(queue[q])
  BY <1>7, <1>13, EntryPlace
<1>15. f < p + 1 /\ p + 1 <= f + l
  BY <1>12, <1>13, <1>14 DEF In
<1>16. f <= p /\ p <= f + l
  BY <1>15
<1>17. Moved(q) = p - f
  BY <1>7, <1>8, <1>13, <1>14, <1>16, MovedIs
<1>18. Moved(q) + 1 = p + 1 - f
  BY <1>17
<1>19. byte = ByteToken(queue[c.q], c.q, p + 1 - First(queue, c.q), c.nak)
  BY <1>2, <1>10, <1>13, <1>14, <1>18
<1>20. byte = ByteToken(queue[Head(i2c.cmd).q], Head(i2c.cmd).q,
                        p + 1 - First(queue, Head(i2c.cmd).q), Head(i2c.cmd).nak)
  BY <1>10, <1>19
<1>21. /\ Works(queue, i2c', p + 1) /\ Course(i2c, i2c') /\ i2c'.stage = i2c.stage
       /\ i2c'.queuePos = i2c.queuePos /\ i2c'.byteCnt = i2c.byteCnt
       /\ byte = Stream(queue)[p + 1] /\ p + 1 < Len(Stream(queue))
  BY <1>1, <1>4, <1>6, <1>7, <1>9, <1>20, ReadWorks
<1>22. /\ Works(queue, i2c', Len(bus) + 1) /\ Stream(queue)[Len(bus) + 1] = byte
  BY <1>8, <1>21
<1>23. Len(bus) + 1 <= Len(Stream(queue))
  <2>1. Len(Stream(queue)) \in Nat
    BY <1>7, StreamType
  <2>2. QED BY <1>8, <1>21, <2>1
<1>24. QED BY <1>1, <1>5, <1>6, <1>21, <1>22, <1>23, CrossStep

LEMMA NothingRuns == ASSUME DriverInv, Prompt, HwNothing PROVE DriverInv'
<1>1. /\ Runs("READ") \/ Runs("WRITE")
      /\ Head(i2c.cmd).n = 0 /\ UNCHANGED <<pc, call, event, posted, groups, queue, bus>>
  BY DEF HwNothing
<1>2. i2c' = Skipped(i2c)
  BY Zenon DEF HwNothing, Skipped
<1>3. /\ i2c.stage # "DONE" /\ i2c.go /\ i2c.cmd # <<>> /\ Head(i2c.cmd).op \in Moves
  BY <1>1, RunsIs DEF Moves
<1>4. Works(queue, i2c, Len(bus)) /\ queue \in Queued /\ Len(bus) \in Nat
  BY <1>3, WorkFacts
<1>5. Works(queue, i2c', Len(bus)) /\ Rest(i2c, i2c')
  BY <1>1, <1>2, <1>3, <1>4, NothingWorks
<1>6. QED BY <1>1, <1>3, <1>5, StayStep

LEMMA StartRuns == ASSUME DriverInv, Prompt, HwStart PROVE DriverInv' /\ BusStep
<1>1. /\ Runs("RSTART") /\ UNCHANGED <<pc, call, event, posted, groups, queue>>
  BY DEF HwStart
<1>2. i2c' = Started(i2c)
  BY Zenon DEF HwStart, Started
<1>3. PICK e : e = Token("start", Head(i2c.cmd).q, 0)
  OBVIOUS
<1>4. bus' = Append(bus, e)
  BY <1>3, Zenon DEF HwStart, OnBus
<1>5. /\ i2c.stage # "DONE" /\ Active(i2c) = {} /\ i2c.go /\ i2c.cmd # <<>>
      /\ Head(i2c.cmd).op = "RSTART"
  BY <1>1, RunsIs
<1>6. Works(queue, i2c, Len(bus)) /\ queue \in Queued /\ Len(bus) \in Nat
  BY <1>5, WorkFacts
<1>7. PICK p \in Nat : p = Len(bus)
  BY <1>6
<1>8. Works(queue, i2c, p)
  BY <1>6, <1>7
<1>9. /\ Works(queue, i2c', p + 1) /\ Rest(i2c, i2c')
      /\ Stream(queue)[p + 1] = Token("start", Head(i2c.cmd).q, 0) /\ p + 1 < Len(Stream(queue))
  BY <1>2, <1>5, <1>6, <1>8, StartWorks
<1>10. Works(queue, i2c', Len(bus) + 1) /\ Stream(queue)[Len(bus) + 1] = e
  BY <1>3, <1>7, <1>9
<1>11. Len(bus) + 1 <= Len(Stream(queue))
  <2>1. Len(Stream(queue)) \in Nat
    BY <1>6, StreamType
  <2>2. QED BY <1>7, <1>9, <2>1
<1>12. /\ Course(i2c, i2c') /\ i2c'.stage = i2c.stage
       /\ i2c'.queuePos = i2c.queuePos /\ i2c'.byteCnt = i2c.byteCnt
  BY <1>9 DEF Rest, Course
<1>13. QED BY <1>1, <1>4, <1>5, <1>10, <1>11, <1>12, CrossStep

LEMMA StopRuns == ASSUME DriverInv, Prompt, HwStop PROVE DriverInv' /\ BusStep
<1>1. /\ Runs("STOP") /\ UNCHANGED <<pc, call, event, posted, groups, queue>>
  BY DEF HwStop
<1>2. i2c' = StoppedAt(i2c, "TRANS_COMPLETE")
  BY Zenon DEF HwStop, StoppedAt
<1>3. PICK e : e = Token("stop", Head(i2c.cmd).q, 0)
  OBVIOUS
<1>4. bus' = Append(bus, e)
  BY <1>3, Zenon DEF HwStop, OnBus
<1>5. /\ i2c.stage # "DONE" /\ Active(i2c) = {} /\ i2c.go /\ i2c.cmd # <<>>
      /\ Head(i2c.cmd).op = "STOP"
  BY <1>1, RunsIs
<1>6. Works(queue, i2c, Len(bus)) /\ queue \in Queued /\ Len(bus) \in Nat
  BY <1>5, WorkFacts
<1>7. PICK p \in Nat : p = Len(bus)
  BY <1>6
<1>8. Works(queue, i2c, p)
  BY <1>6, <1>7
<1>9. /\ Works(queue, i2c', p + 1) /\ Rest(i2c, i2c')
      /\ Stream(queue)[p + 1] = Token("stop", Head(i2c.cmd).q, 0) /\ p + 1 = Len(Stream(queue))
  BY <1>2, <1>5, <1>6, <1>8, StopWorks
<1>10. Works(queue, i2c', Len(bus) + 1) /\ Stream(queue)[Len(bus) + 1] = e
  BY <1>3, <1>7, <1>9
<1>11. Len(bus) + 1 <= Len(Stream(queue))
  BY <1>7, <1>9
<1>12. /\ Course(i2c, i2c') /\ i2c'.stage = i2c.stage
       /\ i2c'.queuePos = i2c.queuePos /\ i2c'.byteCnt = i2c.byteCnt
  BY <1>9 DEF Rest, Course
<1>13. QED BY <1>1, <1>4, <1>5, <1>10, <1>11, <1>12, CrossStep

LEMMA EndRuns == ASSUME DriverInv, Prompt, HwEnd PROVE DriverInv'
<1>1. /\ Runs("END") /\ UNCHANGED <<pc, call, event, posted, groups, queue, bus>>
  BY DEF HwEnd
<1>2. i2c' = EndedAt(i2c, "END_DETECT")
  BY Zenon DEF HwEnd, EndedAt
<1>3. /\ i2c.stage # "DONE" /\ Active(i2c) = {} /\ i2c.go /\ i2c.cmd # <<>>
      /\ Head(i2c.cmd).op = "END"
  BY <1>1, RunsIs
<1>4. Works(queue, i2c, Len(bus)) /\ queue \in Queued /\ Len(bus) \in Nat
  BY <1>3, WorkFacts
<1>5. Works(queue, i2c', Len(bus)) /\ Rest(i2c, i2c')
  BY <1>2, <1>3, <1>4, EndWorks
<1>6. QED BY <1>1, <1>3, <1>5, StayStep

--------------------
(* The steps of the task.                                                  *)

WithReason(c, r) == [c EXCEPT !.reason = r]
WithWaited(c, w) == [c EXCEPT !.waited = w]
WithOutcome(c, r, b) == [c EXCEPT !.reason = r, !.eBits = b]
WithTries(c, n) == [c EXCEPT !.tries = n]
WithApi(c, a) == [c EXCEPT !.api = a]

LEMMA CallIs ==
  ASSUME NEW c \in Calls
  PROVE  /\ c.api \in {"wire", "events"} /\ c.tries \in {0, 1} /\ c.waited \in BOOLEAN
         /\ c.reason \in Reasons /\ c.eBits \in SUBSET Bits
  BY DEF Calls

LEMMA WithReasonIs ==
  ASSUME NEW c \in Calls, NEW r \in Reasons, NEW t, t = WithReason(c, r)
  PROVE  t \in Calls /\ t.reason = r /\ t.waited = c.waited /\ t.eBits = c.eBits
  BY DEF Calls, WithReason

LEMMA WithWaitedIs ==
  ASSUME NEW c \in Calls, NEW w \in BOOLEAN, NEW t, t = WithWaited(c, w)
  PROVE  t \in Calls /\ t.reason = c.reason /\ t.waited = w /\ t.eBits = c.eBits
  BY DEF Calls, WithWaited

LEMMA WithOutcomeIs ==
  ASSUME NEW c \in Calls, NEW r \in Reasons, NEW b \in SUBSET Bits, NEW t, t = WithOutcome(c, r, b)
  PROVE  t \in Calls /\ t.reason = r /\ t.waited = c.waited /\ t.eBits = b
  BY DEF Calls, WithOutcome

LEMMA WithTriesIs ==
  ASSUME NEW c \in Calls, NEW n \in {0, 1}, NEW t, t = WithTries(c, n)
  PROVE  t \in Calls /\ t.reason = c.reason
  BY DEF Calls, WithTries

LEMMA NoCallIs == NoCall \in Calls /\ NoCall.reason = "OK"
<1>1. PICK w : w = No
  OBVIOUS
<1>2. PICK c : c = [api |-> "wire", tries |-> 0, waited |-> w, reason |-> "OK", eBits |-> {}]
  OBVIOUS
<1>3. c \in Calls /\ c.reason = "OK"
  BY <1>1, <1>2, YesNo DEF Calls, Reasons
<1>4. NoCall = c
  BY <1>1, <1>2, Zenon DEF NoCall, No
<1>5. QED BY <1>3, <1>4

LEMMA WithApiIs ==
  ASSUME NEW c \in Calls, NEW a \in {"wire", "events"}, NEW t, t = WithApi(c, a)
  PROVE  t \in Calls /\ t.reason = c.reason
  BY DEF Calls, WithApi

--------------------
(* Those that leave the driver as it is *)
LEMMA CallStep ==
  ASSUME DriverInv, UNCHANGED <<i2c, event, posted, groups, queue, bus>>, call' \in Calls,
         pc \notin {"flush", "idle"}, pc' \in Serving \union {"reinit", "flush"}, AtWork', Attended', Waited',
         Reported', pc' = "reinit" => pc = "proc" /\ call'.reason = "BUSY",
         pc' = "flush" => call'.reason # "OK"
  PROVE  DriverInv'
<1>1. /\ i2c' = i2c /\ event' = event /\ posted' = posted /\ groups' = groups /\ queue' = queue
      /\ bus' = bus
  OBVIOUS
<1>2. pc' \notin {"idle", "proc"}
  BY DEF Serving, Waits
<1>3. Kept'
  BY <1>1 DEF DriverInv, Kept
<1>4. Prepared'
  BY <1>1, <1>2 DEF DriverInv, Prepared
<1>5. \A q \in 1 .. Len(i2c.dq) : Clear(groups[q])
  BY DEF DriverInv, Cleared
<1>6. Cleared'
  BY <1>1, <1>5 DEF Cleared
<1>7. ReadsLand'
  BY <1>1 DEF DriverInv, ReadsLand
<1>8. ResultsTrue'
  <2>1. OkMeansComplete'
    BY DEF OkMeansComplete
  <2>2. DoneMeansMoved'
    BY <1>1, <1>5 DEF DoneMeansMoved, Clear, EVENT_MASK
  <2>3. QED BY <2>1, <2>2 DEF ResultsTrue
<1>9. SuccessShows'
  BY DEF SuccessShows
<1>10. QED BY <1>3, <1>4, <1>6, <1>7, <1>8, <1>9 DEF DriverInv

LEMMA BusyStep == ASSUME DriverInv, ProcBusy PROVE DriverInv'
<1>1. /\ pc = "proc" /\ pc' \in {"reinit", "flush"}
      /\ UNCHANGED <<i2c, event, posted, groups, queue, bus>>
  BY DEF ProcBusy
<1>2. call' = WithReason(call, "BUSY")
  BY Zenon DEF ProcBusy, WithReason
<1>3. call \in Calls /\ "BUSY" \in Reasons
  BY DEF DriverInv, Kept, Reasons
<1>4. call' \in Calls /\ call'.reason = "BUSY"
  BY <1>2, <1>3, WithReasonIs
<1>5. i2c.stage = "DONE"
  BY <1>1 DEF DriverInv, AtWork, Waits
<1>6. AtWork'
  BY <1>1, <1>5 DEF AtWork
<1>7. Attended' /\ Waited' /\ Reported'
  BY <1>1 DEF Attended, Waited, Reported, Serving, Waits
<1>8. QED BY <1>1, <1>4, <1>6, <1>7, CallStep

LEMMA AttendedOf ==
  ASSUME DriverInv, pc \in Serving
  PROVE  /\ queue \in Queued /\ Likewise(queue, i2c.dq) /\ Begins(bus, Stream(queue))
         /\ \A q \in 1 .. Len(queue) : queue[q].addrReq \in {1, 2}
         /\ PassedMoved(queue, i2c.queuePos, Len(bus))
         /\ "DONE" \in i2c.exitCode => i2c.stage = "DONE" /\ Ends(queue, i2c, Len(bus))
         /\ "DONE" \notin i2c.exitCode => i2c.exitCode = {} /\ ~event /\ ~posted
  BY DEF DriverInv, Attended

(* A step from a state of Serving to another *)
LEMMA AttendedStays ==
  ASSUME DriverInv, pc \in Serving, UNCHANGED <<i2c, event, posted, queue, bus>>
  PROVE  Attended'
<1>1. i2c' = i2c /\ event' = event /\ posted' = posted /\ queue' = queue /\ bus' = bus
  OBVIOUS
<1>2. QED BY <1>1, AttendedOf DEF Attended

LEMMA WakeStep == ASSUME DriverInv, Wake PROVE DriverInv'
<1>1. /\ pc = "waiting" /\ event /\ pc' = "woken"
      /\ UNCHANGED <<i2c, event, posted, groups, queue, bus>>
  BY DEF Wake
<1>2. call' = WithWaited(call, No)
  BY Zenon DEF Wake, WithWaited, No
<1>3. call \in Calls
  BY DEF DriverInv, Kept
<1>4. call' \in Calls /\ call'.waited = No
  BY <1>2, <1>3, YesNo, WithWaitedIs
<1>5. pc \in Serving /\ pc' \in Serving /\ pc' # "report"
  BY <1>1 DEF Serving, Waits
<1>6. "DONE" \in i2c.exitCode
  BY <1>1, <1>5, AttendedOf
<1>7. i2c' = i2c /\ i2c.stage = "DONE"
  BY <1>1, <1>5, <1>6, AttendedOf
<1>8. AtWork'
  BY <1>7 DEF AtWork
<1>9. Attended'
  BY <1>1, <1>5, AttendedStays
<1>10. ~call'.waited
  BY <1>4 DEF No
<1>11. Waited'
  BY <1>1, <1>6, <1>7, <1>10 DEF Waited
<1>12. Reported'
  BY <1>5 DEF Reported
<1>13. QED BY <1>1, <1>4, <1>5, <1>8, <1>9, <1>11, <1>12, CallStep

LEMMA TimeOutStep == ASSUME DriverInv, Prompt, TimeOut PROVE DriverInv'
<1>1. /\ pc = "waiting" /\ pc' = "woken" /\ UNCHANGED <<i2c, event, posted, groups, queue, bus>>
      /\ Advanced(i2c)
  BY DEF TimeOut, Prompt, Advanced
<1>2. call' = WithWaited(call, Yes)
  BY Zenon DEF TimeOut, WithWaited, Yes
<1>3. call \in Calls
  BY DEF DriverInv, Kept
<1>4. call' \in Calls /\ call'.waited = Yes
  BY <1>2, <1>3, YesNo, WithWaitedIs
<1>5. pc \in Serving /\ pc' \in Serving /\ pc' # "report" /\ pc' \in Waits /\ pc \in Waits
  BY <1>1 DEF Serving, Waits
<1>6. i2c' = i2c /\ queue' = queue /\ bus' = bus
  BY <1>1
<1>7. AtWork'
  BY <1>5, <1>6 DEF AtWork, DriverInv
<1>8. Attended'
  BY <1>1, <1>5, AttendedStays
<1>9. call'.waited
  BY <1>4 DEF Yes
<1>10. Waited'
  BY <1>1, <1>6, <1>9 DEF Waited
<1>11. Reported'
  BY <1>5 DEF Reported
<1>12. QED BY <1>1, <1>4, <1>5, <1>7, <1>8, <1>10, <1>11, CallStep

LEMMA ReasonIs ==
  ASSUME i2c.error \in Codes
  PROVE  /\ ReasonOf \in {"OK", "ACK", "BUS"} /\ (ReasonOf = "OK" <=> i2c.error = "OK")
         /\ (ReasonOf = "ACK" <=> i2c.error \in {"ADDR_NAK", "DATA_NAK"})
  BY DEF ReasonOf, Codes

LEMMA RecoverStep == ASSUME DriverInv, Recover PROVE DriverInv'
<1>1. pc = "woken" /\ UNCHANGED <<i2c, event, posted, groups, queue, bus>>
  BY DEF Recover
<1>2. call \in Calls /\ i2c \in Driver
  BY DEF DriverInv, Kept
<1>3. pc \in Serving /\ pc \in Waits /\ i2c' = i2c /\ queue' = queue /\ bus' = bus
  BY <1>1 DEF Serving, Waits
<1>4. Attended'
  BY <1>1, <1>3, AttendedStays
<1>5. CASE "DONE" \in i2c.exitCode
  <2>1. pc' = "report" /\ call' = WithOutcome(call, ReasonOf, i2c.exitCode)
    BY <1>5, Zenon DEF Recover, WithOutcome
  <2>2. i2c.error \in Codes /\ i2c.exitCode \in SUBSET Bits
    BY <1>2 DEF Driver
  <2>3. PICK r, b : r = ReasonOf /\ b = i2c.exitCode
    OBVIOUS
  <2>4. r \in Reasons /\ b \in SUBSET Bits
    BY <2>2, <2>3, ReasonIs DEF Reasons
  <2>5. call' = WithOutcome(call, r, b)
    BY <2>1, <2>3
  <2>6. call' \in Calls /\ call'.reason = r /\ call'.eBits = b
    BY <1>2, <2>4, <2>5, WithOutcomeIs
  <2>7. i2c.stage = "DONE"
    BY <1>3, <1>5, AttendedOf
  <2>8. AtWork'
    BY <1>3, <2>7 DEF AtWork
  <2>9. Waited'
    BY <2>1 DEF Waited
  <2>10. Reported'
    BY <1>3, <1>5, <2>3, <2>6 DEF Reported, ReasonOf
  <2>11. pc' \in Serving
    BY <2>1 DEF Serving
  <2>12. QED BY <1>1, <1>4, <2>1, <2>6, <2>8, <2>9, <2>10, <2>11, CallStep
<1>6. CASE "DONE" \notin i2c.exitCode
  <2>1. pc' = "gross" /\ call' = call
    BY <1>6, Zenon DEF Recover
  <2>2. pc' \in Serving /\ pc' \in Waits
    BY <2>1 DEF Serving, Waits
  <2>3. AtWork'
    BY <1>3, <2>2 DEF AtWork, DriverInv
  <2>4. Waited'
    BY <1>1, <1>3, <1>6, <2>1 DEF DriverInv, Waited
  <2>5. Reported'
    BY <2>1 DEF Reported
  <2>6. QED BY <1>1, <1>2, <1>4, <2>1, <2>2, <2>3, <2>4, <2>5, CallStep
<1>7. QED BY <1>5, <1>6

--------------------
(* The transaction is given up *)
GivenUp(s, t) ==
  /\ t \in Driver /\ t.dq = s.dq /\ t.queuePos = s.queuePos /\ t.byteCnt = s.byteCnt
  /\ t.stage = "DONE" /\ t.error = s.error /\ t.exitCode = s.exitCode /\ t.tx = s.tx /\ t.rx = s.rx
WithStage(s, stage) == [s EXCEPT !.stage = stage]
Silent(s, i, c) == [s EXCEPT !.ena = i, !.int = i, !.cmd = c]

LEMMA WithStageIs ==
  ASSUME NEW s \in Driver, NEW stage, stage = "DONE", NEW t, t = WithStage(s, stage)
  PROVE  GivenUp(s, t)
  BY DEF Driver, WithStage, GivenUp

LEMMA SilentIs ==
  ASSUME NEW s \in Driver, s.stage = "DONE", NEW i \in SUBSET AllInts, NEW c \in Seq(Cmds),
         NEW t, t = Silent(s, i, c)
  PROVE  GivenUp(s, t)
  BY DEF Driver, Silent, GivenUp

LEMMA GiveUpStep ==
  ASSUME DriverInv, UNCHANGED <<event, posted, groups, queue, bus>>, GivenUp(i2c, i2c'),
         call' \in Calls, pc \in Serving, pc' \in {"shutdown", "report"}, Waited', Reported'
  PROVE  DriverInv'
<1>1. /\ event' = event /\ posted' = posted /\ groups' = groups /\ queue' = queue /\ bus' = bus
  OBVIOUS
<1>2. /\ i2c'.dq = i2c.dq /\ i2c'.queuePos = i2c.queuePos /\ i2c'.byteCnt = i2c.byteCnt
      /\ i2c'.stage = "DONE" /\ i2c'.error = i2c.error /\ i2c'.exitCode = i2c.exitCode
      /\ i2c'.tx = i2c.tx /\ i2c'.rx = i2c.rx /\ i2c' \in Driver
  BY DEF GivenUp
<1>3. pc' \in Serving /\ pc' \notin {"idle", "proc", "reinit", "flush"} /\ pc \notin {"flush"}
  BY DEF Serving, Waits
<1>4. Kept'
  BY <1>1, <1>2, <1>3 DEF DriverInv, Kept, Few
<1>5. AtWork'
  BY <1>2 DEF AtWork
<1>6. Attended'
  BY <1>1, <1>2, AttendedOf DEF Attended, Ends, Whole
<1>7. Prepared'
  BY <1>3 DEF Prepared
<1>8. Cleared'
  BY <1>1, <1>2, <1>3 DEF DriverInv, Cleared
<1>9. ReadsLand'
  BY <1>2 DEF DriverInv, ReadsLand
<1>10. ResultsTrue' /\ SuccessShows'
  BY <1>3 DEF ResultsTrue, OkMeansComplete, DoneMeansMoved, SuccessShows
<1>11. QED BY <1>4, <1>5, <1>6, <1>7, <1>8, <1>9, <1>10 DEF DriverInv

LEMMA GrossStep == ASSUME DriverInv, GrossTimeout PROVE DriverInv'
<1>1. pc = "gross" /\ pc' = "shutdown" /\ UNCHANGED <<call, event, posted, groups, queue, bus>>
  BY DEF GrossTimeout
<1>2. i2c' = WithStage(i2c, "DONE")
  BY Zenon DEF GrossTimeout, WithStage
<1>3. call \in Calls /\ i2c \in Driver
  BY DEF DriverInv, Kept
<1>4. GivenUp(i2c, i2c')
  BY <1>2, <1>3, WithStageIs
<1>5. call.waited /\ Advanced(i2c)
  BY <1>1 DEF DriverInv, Waited
<1>6. Advanced(i2c') /\ call' = call
  BY <1>1, <1>4, <1>5 DEF Advanced, GivenUp
<1>7. Waited' /\ Reported'
  BY <1>1, <1>5, <1>6 DEF Waited, Reported
<1>8. pc \in Serving
  BY <1>1 DEF Serving, Waits
<1>9. QED BY <1>1, <1>3, <1>4, <1>6, <1>7, <1>8, GiveUpStep

LEMMA ShutdownStep == ASSUME DriverInv, Shutdown PROVE DriverInv'
<1>1. pc = "shutdown" /\ pc' = "report" /\ UNCHANGED <<event, posted, groups, queue, bus>>
  BY DEF Shutdown
<1>2. i2c' = Silent(i2c, {}, <<>>)
  BY Zenon DEF Shutdown, Silent
<1>3. call \in Calls /\ i2c \in Driver
  BY DEF DriverInv, Kept
<1>4. i2c.stage = "DONE"
  BY <1>1 DEF DriverInv, AtWork, Waits
<1>5. PICK i, c : i = {} /\ c = <<>>
  OBVIOUS
<1>6. i2c' = Silent(i2c, i, c) /\ i \in SUBSET AllInts /\ c \in Seq(Cmds)
  BY <1>2, <1>5
<1>7. GivenUp(i2c, i2c')
  BY <1>3, <1>4, <1>6, SilentIs
<1>8. call.waited /\ Advanced(i2c)
  BY <1>1 DEF DriverInv, Waited
<1>9. ~(i2c.queuePos = 1 /\ i2c.byteCnt = 0)
  BY <1>8 DEF Advanced
<1>10. PICK b : b = {"TIMEOUT", "ERROR", "DONE"}
  OBVIOUS
<1>11. call' = WithOutcome(call, "TIMEOUT", b)
  BY <1>9, <1>10, Zenon DEF Shutdown, WithOutcome
<1>12. b \in SUBSET Bits /\ "TIMEOUT" \in Reasons
  BY <1>10 DEF Bits, Reasons
<1>13. call' \in Calls /\ call'.reason = "TIMEOUT" /\ call'.waited = call.waited /\ call'.eBits = b
  BY <1>3, <1>11, <1>12, WithOutcomeIs
<1>14. Waited' /\ Reported'
  BY <1>1, <1>8, <1>10, <1>13 DEF Waited, Reported
<1>15. pc \in Serving
  BY <1>1 DEF Serving, Waits
<1>16. QED BY <1>1, <1>7, <1>13, <1>14, <1>15, GiveUpStep

--------------------
(* The results are reported *)
LEMMA EndedFacts ==
  ASSUME NEW K \in Queued, NEW s \in Driver, Ends(K, s, Len(bus)), Begins(bus, Stream(K)),
         s.error = "OK", Likewise(K, s.dq)
  PROVE  /\ bus = Stream(K) /\ s.queuePos = Len(K) /\ s.exitCode = {"DONE"}
         /\ \A q \in 1 .. Len(K) : s.dq[q].position = s.dq[q].length
         /\ \A q \in 1 .. Len(K) : MovedAt(K, q, Len(bus)) = queueLength(K[q])
<1>1. Whole(K, s, Len(bus)) /\ s.exitCode = {"DONE"} \union {}
  BY DEF Ends, ErrorBits
<1>2. Len(bus) = Len(Stream(K)) /\ s.queuePos = Len(K)
  BY <1>1 DEF Whole
<1>3. bus = Stream(K)
  BY <1>2, StreamType, BeginsIs
<1>4. \A q \in 1 .. Len(K) : MovedAt(K, q, Len(bus)) = queueLength(K[q])
  BY <1>2, EndMoved
<1>5. QED BY <1>1, <1>2, <1>3, <1>4 DEF Whole

LEMMA ReportStep == ASSUME DriverInv, Report PROVE DriverInv'
<1>1. /\ pc = "report" /\ UNCHANGED <<i2c, call, event, posted, queue, bus>>
      /\ pc' = IF call.reason = "BUSY" /\ Retried THEN "reinit" ELSE "flush"
  BY DEF Report
<1>2. /\ i2c' = i2c /\ call' = call /\ event' = event /\ posted' = posted /\ queue' = queue
      /\ bus' = bus
  BY <1>1
<1>3. /\ call \in Calls /\ i2c \in Driver /\ groups \in [1 .. MaxQueue -> SUBSET Bits]
      /\ Len(i2c.dq) <= MaxQueue /\ Len(i2c.dq) \in Nat /\ MaxQueue \in Nat
  <2>1. i2c \in Driver /\ i2c.dq \in Seq(Entries)
    BY DEF DriverInv, Kept, Driver
  <2>2. QED BY <2>1, DriverAssumption DEF DriverInv, Kept
<1>4. pc \in Serving
  BY <1>1 DEF Serving
<1>5. PICK K : K = queue
  OBVIOUS
<1>6. /\ K \in Queued /\ Likewise(K, i2c.dq) /\ Begins(bus, Stream(K))
      /\ PassedMoved(K, i2c.queuePos, Len(bus)) /\ Len(bus) \in Nat
      /\ "DONE" \in i2c.exitCode => Ends(K, i2c, Len(bus))
  BY <1>4, <1>5, AttendedOf DEF Begins
<1>7. /\ Len(i2c.dq) = Len(K) /\ i2c.queuePos \in 1 .. Len(K)
      /\ \A q \in 1 .. Len(K) : queueLength(i2c.dq[q]) = queueLength(K[q])
      /\ \A q \in 1 .. i2c.queuePos - 1 : MovedAt(K, q, Len(bus)) = queueLength(K[q])
  <2>1. \A q \in 1 .. Len(K) : queueLength(i2c.dq[q]) = queueLength(K[q])
    BY <1>6, LikewiseEntry
  <2>2. QED BY <1>6, <2>1 DEF Likewise, PassedMoved
<1>8. \/ call.reason = "TIMEOUT" /\ "ERROR" \in call.eBits
      \/ /\ "DONE" \in i2c.exitCode /\ call.eBits = i2c.exitCode /\ call.reason = ReasonOf
         /\ i2c.error \in Codes
  BY <1>1, <1>3 DEF DriverInv, Reported, Driver
<1>9. call.reason # "BUSY" /\ (call.reason = "OK" => i2c.error = "OK" /\ Ends(K, i2c, Len(bus)))
  BY <1>6, <1>8, ReasonIs
<1>10. pc' = "flush"
  BY <1>1, <1>9
<1>11. "ERROR" \notin call.eBits => i2c.error = "OK" /\ Ends(K, i2c, Len(bus)) /\ call.reason = "OK"
  BY <1>6, <1>8, ReasonIs DEF Ends, ErrorBits, Codes
<1>12. i2c.error = "OK" /\ Ends(K, i2c, Len(bus)) =>
         /\ bus = Stream(K) /\ i2c.queuePos = Len(K) /\ i2c.exitCode = {"DONE"}
         /\ \A q \in 1 .. Len(K) : i2c.dq[q].position = i2c.dq[q].length
         /\ \A q \in 1 .. Len(K) : MovedAt(K, q, Len(bus)) = queueLength(K[q])
  BY <1>3, <1>6, EndedFacts
<1>13. call.reason = "OK" => call.eBits = {"DONE"}
  BY <1>8, <1>9, <1>12
<1>14. /\ call.api = "wire" => groups' = groups
       /\ call.api # "wire" => groups' = [q \in 1 .. MaxQueue |->
                       IF q <= Len(i2c.dq) THEN groups[q] \union EntryBits(q) ELSE groups[q]]
  BY Zenon DEF Report
<1>15. \A q \in 1 .. Len(K) : Clear(groups[q]) /\ q \in 1 .. MaxQueue
  <2>1. \A q \in 1 .. Len(i2c.dq) : Clear(groups[q])
    BY <1>1 DEF DriverInv, Cleared
  <2>2. QED BY <1>3, <1>7, <2>1
<1>16. ASSUME call.api # "wire", NEW q \in 1 .. Len(K)
       PROVE  groups'[q] = groups[q] \union EntryBits(q)
  <2>1. q \in 1 .. MaxQueue /\ q <= Len(i2c.dq)
    BY <1>7, <1>15
  <2>2. QED BY <1>14, <1>16, <2>1
<1>17. groups' \in [1 .. MaxQueue -> SUBSET Bits]
  <2>1. \A q \in 1 .. MaxQueue : EntryBits(q) \in SUBSET Bits
    BY <1>3, CallIs DEF EntryBits, Bits
  <2>2. CASE call.api = "wire"
    BY <1>3, <1>14, <2>2
  <2>3. CASE call.api # "wire"
    BY <1>3, <1>14, <2>1, <2>3
  <2>4. QED BY <2>2, <2>3
<1>18. Kept'
  BY <1>2, <1>3, <1>10, <1>17 DEF DriverInv, Kept
<1>19. AtWork' /\ Attended' /\ Waited' /\ Prepared' /\ Cleared' /\ Reported'
  <2>1. i2c.stage = "DONE"
    BY <1>1 DEF DriverInv, AtWork, Waits
  <2>2. AtWork'
    BY <1>2, <2>1 DEF AtWork
  <2>3. QED BY <1>10, <2>2 DEF Attended, Waited, Prepared, Cleared, Reported, Serving, Waits
<1>20. ReadsLand'
  BY <1>2 DEF DriverInv, ReadsLand
<1>21. OkMeansComplete'
  BY <1>2, <1>5, <1>7, <1>9, <1>12 DEF OkMeansComplete
<1>22. DoneMeansMoved'
  <2> SUFFICES ASSUME call.api = "events", NEW q \in 1 .. Len(K), "ERROR" \notin groups'[q]
               PROVE  Moved(q) >= queueLength(K[q])
    BY <1>2, <1>7 DEF DoneMeansMoved, Moved
  <2>1. groups'[q] = groups[q] \union EntryBits(q)
    BY <1>16
  <2>2. MovedAt(K, q, Len(bus)) = queueLength(K[q])
    <3>1. CASE q < i2c.queuePos
      BY <1>7, <3>1
    <3>2. CASE ~(q < i2c.queuePos)
      <4>1. "ERROR" \notin call.eBits
        BY <2>1, <3>2 DEF EntryBits
      <4>2. QED BY <1>11, <1>12, <4>1
    <3>3. QED BY <3>1, <3>2
  <2>3. QED BY <1>6, <2>2, MovedMost
<1>23. SuccessShows'
  <2> SUFFICES ASSUME call.api = "events", call.reason = "OK", NEW q \in 1 .. Len(K)
               PROVE  "DONE" \in groups'[q] /\ groups'[q] \cap {"ERROR", "NAK", "BUS_BUSY"} = {}
    BY <1>2, <1>7 DEF SuccessShows
  <2>1. i2c.queuePos = Len(K) /\ call.eBits = {"DONE"}
    BY <1>9, <1>12, <1>13
  <2>2. groups'[q] = groups[q] \union EntryBits(q) /\ Clear(groups[q])
    BY <1>15, <1>16
  <2>3. EntryBits(q) = {"DONE"}
    BY <1>7, <2>1 DEF EntryBits
  <2>4. QED BY <2>2, <2>3 DEF Clear, EVENT_MASK
<1>24. QED BY <1>18, <1>19, <1>20, <1>21, <1>22, <1>23 DEF DriverInv, ResultsTrue

--------------------
(* The registers are reset, and the queue is emptied *)
ResetAs(s, c, x, i, g) ==
  [s EXCEPT !.cmd = c, !.tx = x, !.rx = x, !.int = i, !.ena = i, !.go = g, !.own = g, !.held = g]
EmptiedAs(s, d, c, x, a, n) ==
  [s EXCEPT !.dq = d, !.queuePos = a, !.byteCnt = n, !.cmd = c, !.tx = x, !.rx = x]

LEMMA ResetAsIs ==
  ASSUME NEW s \in Driver, NEW c \in Seq(Cmds), NEW x \in Seq(Tokens), NEW i \in SUBSET AllInts,
         NEW g \in BOOLEAN, NEW t, t = ResetAs(s, c, x, i, g)
  PROVE  t \in Driver /\ t.dq = s.dq /\ t.stage = s.stage /\ t.tx = x /\ t.rx = x
  BY DEF Driver, ResetAs

LEMMA ResetIs ==
  ASSUME NEW s \in Driver, NEW t, t = ResetRegisters(s)
  PROVE  t \in Driver /\ t.dq = s.dq /\ t.stage = s.stage /\ Few(t)
<1>1. PICK c, x, i, g : c = <<>> /\ x = <<>> /\ i = {} /\ g = No
  OBVIOUS
<1>2. t = ResetAs(s, c, x, i, g)
  BY <1>1, Zenon DEF ResetRegisters, ResetAs, No
<1>3. c \in Seq(Cmds) /\ x \in Seq(Tokens) /\ i \in SUBSET AllInts /\ g \in BOOLEAN
  BY <1>1, YesNo
<1>4. Len(x) <= TXCAP /\ Len(x) <= RXCAP
  BY <1>1, DriverAssumption
<1> HIDE <1>1
<1>5. t \in Driver /\ t.dq = s.dq /\ t.stage = s.stage /\ t.tx = x /\ t.rx = x
  BY <1>2, <1>3, ResetAsIs
<1>6. QED BY <1>4, <1>5 DEF Few

LEMMA ReinitStep == ASSUME DriverInv, Reinit PROVE DriverInv'
<1>1. pc = "reinit" /\ UNCHANGED <<event, posted, groups, queue, bus>>
  BY DEF Reinit
<1>2. \/ i2c' = ResetRegisters(i2c) /\ pc' = "proc" /\ call' = WithTries(call, 1)
      \/ i2c' = WithHeld(ResetRegisters(i2c), Yes) /\ pc' = "flush" /\ call' = call
  BY Zenon DEF Reinit, WithTries, WithHeld, Yes
<1>3. /\ call \in Calls /\ i2c \in Driver /\ i2c.stage = "DONE" /\ call.reason = "BUSY"
      /\ i2c.dq \in Queued /\ AllNew(i2c.dq) /\ \A q \in 1 .. Len(i2c.dq) : Clear(groups[q])
  BY <1>1 DEF DriverInv, Kept, AtWork, Waits, Prepared, Cleared
<1>4. PICK u : u = ResetRegisters(i2c)
  OBVIOUS
<1>5. u \in Driver /\ u.dq = i2c.dq /\ u.stage = i2c.stage /\ Few(u)
  BY <1>3, <1>4, ResetIs
<1>6. CASE i2c' = u /\ pc' = "proc" /\ call' = WithTries(call, 1)
  <2>1. call' \in Calls /\ call'.reason = call.reason
    BY <1>3, <1>6, WithTriesIs
  <2>2. i2c'.dq = i2c.dq /\ i2c'.stage = "DONE" /\ i2c' \in Driver /\ Few(i2c')
    BY <1>3, <1>5, <1>6
  <2>3. Kept'
    BY <1>1, <1>6, <2>1, <2>2 DEF DriverInv, Kept
  <2>4. AtWork'
    BY <2>2 DEF AtWork
  <2>5. Attended' /\ Waited' /\ Reported' /\ ResultsTrue' /\ SuccessShows'
    BY <1>6 DEF Attended, Waited, Reported, ResultsTrue, OkMeansComplete, DoneMeansMoved, SuccessShows,
                Serving, Waits
  <2>6. Prepared'
    BY <1>3, <1>6, <2>2 DEF Prepared
  <2>7. Cleared' /\ ReadsLand'
    BY <1>1, <1>3, <2>2 DEF DriverInv, Cleared, ReadsLand
  <2>8. QED BY <2>3, <2>4, <2>5, <2>6, <2>7 DEF DriverInv
<1>7. CASE i2c' = WithHeld(u, Yes) /\ pc' = "flush" /\ call' = call
  <2>1. Quiet(u, i2c')
    BY <1>5, <1>7, YesNo, WithHeldIs
  <2>2. i2c'.dq = i2c.dq /\ i2c'.stage = "DONE" /\ i2c' \in Driver /\ Few(i2c')
    BY <1>3, <1>5, <2>1 DEF Quiet, Few
  <2>3. Kept'
    BY <1>1, <1>7, <2>2 DEF DriverInv, Kept
  <2>4. AtWork'
    BY <2>2 DEF AtWork
  <2>5. Attended' /\ Waited' /\ Reported' /\ Prepared' /\ Cleared'
    BY <1>7 DEF Attended, Waited, Reported, Prepared, Cleared, Serving, Waits
  <2>6. OkMeansComplete' /\ SuccessShows'
    BY <1>3, <1>7 DEF OkMeansComplete, SuccessShows
  <2>7. DoneMeansMoved' /\ ReadsLand'
    BY <1>1, <1>3, <2>2 DEF DriverInv, DoneMeansMoved, ReadsLand, Clear, EVENT_MASK
  <2>8. QED BY <2>3, <2>4, <2>5, <2>6, <2>7 DEF DriverInv, ResultsTrue
<1>8. QED BY <1>2, <1>4, <1>6, <1>7

LEMMA FlushStep == ASSUME DriverInv, Flush PROVE DriverInv'
<1>1. /\ pc = "flush" /\ pc' = "idle" /\ queue' = <<>> /\ bus' = <<>> /\ call' = NoCall
      /\ UNCHANGED <<event, posted>> /\ groups' = [q \in 1 .. MaxQueue |-> {}]
  BY DEF Flush
<1>2. PICK d, c, x, a, n : d = <<>> /\ c = <<>> /\ x = <<>> /\ a = 1 /\ n = 0
  OBVIOUS
<1>3. i2c' = EmptiedAs(i2c, d, c, x, a, n)
  BY <1>2, Zenon DEF Flush, EmptiedAs
<1>4. /\ d \in Seq(Entries) /\ c \in Seq(Cmds) /\ x \in Seq(Tokens) /\ a \in Nat /\ n \in Nat
      /\ Len(d) = 0 /\ Len(x) <= TXCAP /\ Len(x) <= RXCAP
  BY <1>2, DriverAssumption
<1>5. i2c \in Driver /\ i2c.stage = "DONE" /\ 0 <= MaxQueue
  BY <1>1, DriverAssumption DEF DriverInv, Kept, AtWork, Waits
<1>6. i2c' \in Driver /\ i2c'.dq = d /\ i2c'.stage = "DONE" /\ Few(i2c')
  <2> HIDE <1>2
  <2>1. i2c' \in Driver /\ i2c'.dq = d /\ i2c'.stage = i2c.stage /\ i2c'.tx = x /\ i2c'.rx = x
    BY ONLY <1>3, <1>4, <1>5 DEF EmptiedAs, Driver
  <2>2. QED BY <1>4, <1>5, <2>1 DEF Few
<1>7. Kept'
  BY <1>1, <1>4, <1>5, <1>6, NoCallIs DEF DriverInv, Kept
<1>8. AtWork'
  BY <1>6 DEF AtWork
<1>9. Attended' /\ Waited' /\ Reported' /\ ResultsTrue' /\ SuccessShows'
  BY <1>1 DEF Attended, Waited, Reported, ResultsTrue, OkMeansComplete, DoneMeansMoved, SuccessShows,
              Serving, Waits
<1>10. Prepared' /\ Cleared' /\ ReadsLand'
  BY <1>1, <1>4, <1>6 DEF Prepared, Cleared, ReadsLand, AllNew
<1>11. QED BY <1>7, <1>8, <1>9, <1>10 DEF DriverInv

--------------------
(* The transaction begins *)
LEMMA BeginStep ==
  ASSUME DriverInv, Prompt, ProcStart
  PROVE  DriverInv'
<1>1. /\ pc = "proc" /\ pc' = "waiting" /\ ~posted /\ ~event' /\ event' \in BOOLEAN
      /\ queue' = i2c.dq /\ bus' = <<>> /\ call' = call /\ posted' = posted /\ groups' = groups
  BY DEF ProcStart, Prompt, ClearedEvent
<1>2. i2c' = Begun(i2c)
  BY Zenon DEF ProcStart, Begun
<1>3. /\ i2c \in Driver /\ i2c.dq \in Queued /\ AllNew(i2c.dq)
      /\ \A q \in 1 .. Len(i2c.dq) : Clear(groups[q])
  BY <1>1 DEF DriverInv, Kept, Prepared, Cleared
<1>4. PICK K : K = i2c.dq
  OBVIOUS
<1>5. Works(K, i2c', 0) /\ i2c'.exitCode = {} /\ i2c'.stage # "DONE"
  BY <1>2, <1>3, <1>4, BeginWorks
<1>6. K \in Queued /\ AllNew(K)
  BY <1>3, <1>4
<1>7. /\ PassedMoved(K, i2c'.queuePos, 0) /\ Few(i2c') /\ Likewise(K, i2c'.dq) /\ i2c' \in Driver
  BY <1>5, <1>6, WorksPassed
<1>8. Len(i2c'.dq) = Len(i2c.dq) /\ Len(K) = Len(i2c.dq)
  BY <1>4, <1>7 DEF Likewise
<1>9. pc' \in Waits /\ pc' \in Serving
  BY <1>1 DEF Waits, Serving
<1>10. Len(bus') = 0 /\ bus' \in Seq(Tokens)
  BY <1>1
<1>11. Kept'
  BY <1>1, <1>7, <1>8, <1>9 DEF DriverInv, Kept
<1>12. AtWork'
  BY <1>1, <1>4, <1>5, <1>9, <1>10 DEF AtWork
<1>13. Attended'
  <2>1. Begins(bus', Stream(K))
    BY <1>6, <1>10, StreamType DEF Begins
  <2>2. \A q \in 1 .. Len(K) : K[q].addrReq \in {1, 2}
    BY <1>6 DEF AllNew, New
  <2>3. "DONE" \notin i2c'.exitCode /\ queue' = K /\ ~posted'
    BY <1>1, <1>4, <1>5
  <2>4. QED BY <1>1, <1>5, <1>6, <1>7, <1>10, <2>1, <2>2, <2>3 DEF Attended
<1>14. Waited' /\ Prepared' /\ Reported' /\ ResultsTrue' /\ SuccessShows'
  BY <1>1 DEF Waited, Prepared, Reported, ResultsTrue, OkMeansComplete, DoneMeansMoved, SuccessShows
<1>15. Cleared'
  BY <1>1, <1>3, <1>8 DEF Cleared
<1>16. ReadsLand'
  <2>1. Stores(K, 0, i2c'.dq, i2c'.queuePos, i2c'.rx)
    BY <1>5 DEF Works
  <2>2. ASSUME NEW q \in 1 .. Len(i2c'.dq), NEW k \in 1 .. Len(i2c'.dq[q].data)
        PROVE  i2c'.dq[q].data[k].q = q /\ i2c'.dq[q].data[k].k = k
    <3>1. q \in 1 .. Len(K)
      BY <1>8, <2>2
    <3>2. Numbered(i2c'.dq[q].data, q, 0)
      BY <2>1, <3>1 DEF Stores, Stored
    <3>3. i2c'.dq[q].data[k].q = q /\ i2c'.dq[q].data[k].k = 0 + k
      BY <3>2 DEF Numbered
    <3>4. k \in Int
      OBVIOUS
    <3>5. QED BY <3>3, <3>4
  <2>3. QED BY <2>2 DEF ReadsLand
<1>17. QED BY <1>11, <1>12, <1>13, <1>14, <1>15, <1>16 DEF DriverInv

--------------------
(* Transfers are added *)
EntryAs(g, mode, r, n, stop, x, z) ==
  [mode |-> mode, addrReq |-> r, length |-> n, stop |-> stop,
   startCmdSent |-> g, addrCmdSent |-> g, stopCmdSent |-> g,
   cmdBytesNeeded |-> n, addrSent |-> z, position |-> z, data |-> x]

LEMMA NewEntryIs ==
  ASSUME NEW mode \in {0, 1}, NEW r \in {1, 2}, NEW n \in Nat, NEW stop \in BOOLEAN,
         NEW e, e = NewEntry(mode, r, n, stop)
  PROVE  e \in Entries /\ New(e) /\ e.stop = stop
<1>1. PICK g, x, z : g = No /\ x = <<>> /\ z = 0
  OBVIOUS
<1>2. e = EntryAs(g, mode, r, n, stop, x, z)
  BY <1>1, Zenon DEF NewEntry, EntryWith, EntryAs, No
<1>3. g \in BOOLEAN /\ x \in Seq(Tokens) /\ z \in Nat /\ r \in Nat \ {0}
  BY <1>1, YesNo
<1>4. ~g /\ z = 0 /\ x = <<>>
  BY <1>1 DEF No
<1> HIDE <1>1
<1>5. /\ e \in Entries /\ e.stop = stop /\ e.startCmdSent = g /\ e.addrCmdSent = g
      /\ e.stopCmdSent = g /\ e.cmdBytesNeeded = e.length /\ e.addrSent = z /\ e.position = z
      /\ e.data = x /\ e.addrReq = r
  BY <1>2, <1>3 DEF EntryAs, Entries
<1>6. QED BY <1>4, <1>5 DEF New, Fresh

(* The entries that i2cAddQueueWrite and i2cAddQueueRead append *)
Appended(E, stop) ==
  /\ E \in Seq(Entries) /\ E # <<>>
  /\ \A i \in 1 .. Len(E) : New(E[i]) /\ (E[i].stop <=> stop /\ i = Len(E))

LEMMA EntriesAppended ==
  ASSUME NEW mode \in {0, 1}, NEW tenBit, NEW n \in Nat, NEW stop \in BOOLEAN,
         NEW E, E = EntriesOf(mode, tenBit, n, stop)
  PROVE  Appended(E, stop)
<1>1. PICK a, b, c, r :
        /\ a = NewEntry(0, 2, 0, No) /\ b = NewEntry(1, 1, n, stop)
        /\ r = (IF tenBit THEN 2 ELSE 1) /\ c = NewEntry(mode, r, n, stop)
  OBVIOUS
<1>2. r \in {1, 2}
  BY <1>1
<1>3. /\ a \in Entries /\ New(a) /\ a.stop = No /\ b \in Entries /\ New(b) /\ b.stop = stop
      /\ c \in Entries /\ New(c) /\ c.stop = stop
  BY <1>1, <1>2, NewEntryIs, YesNo
<1>4. E = IF mode = 1 /\ tenBit THEN <<a, b>> ELSE <<c>>
  BY <1>1, Zenon DEF EntriesOf, No
<1> HIDE <1>1
<1>5. CASE E = <<a, b>>
  <2>1. E \in Seq(Entries) /\ Len(E) = 2 /\ E[1] = a /\ E[2] = b
    BY <1>3, <1>5
  <2>2. ~a.stop
    BY <1>3 DEF No
  <2>3. ASSUME NEW i \in 1 .. Len(E)
        PROVE  New(E[i]) /\ (E[i].stop <=> stop /\ i = Len(E))
    <3>1. i = 1 \/ i = 2
      BY <2>1
    <3>2. CASE i = 1
      BY <1>3, <2>1, <2>2, <3>2
    <3>3. CASE i = 2
      BY <1>3, <2>1, <3>3
    <3>4. QED BY <3>1, <3>2, <3>3
  <2>4. E # <<>>
    <3>1. Len(<<>>) = 0 /\ Len(E) # 0
      BY <2>1
    <3>2. QED BY <3>1
  <2>5. QED BY <2>1, <2>3, <2>4 DEF Appended
<1>6. CASE E = <<c>>
  <2>1. E \in Seq(Entries) /\ Len(E) = 1 /\ E[1] = c
    BY <1>3, <1>6
  <2>2. E # <<>>
    BY <2>1
  <2>3. ASSUME NEW i \in 1 .. Len(E)
        PROVE  New(E[i]) /\ (E[i].stop <=> stop /\ i = Len(E))
    BY <1>3, <2>1
  <2>4. QED BY <2>1, <2>2, <2>3 DEF Appended
<1>7. QED BY <1>4, <1>5, <1>6

AppendedTo(e, d, E) == e = d \o E
LEMMA AppendedIs ==
  ASSUME NEW d \in Seq(Entries), AllNew(d), \A q \in 1 .. Len(d) : ~d[q].stop,
         NEW stop, NEW E, Appended(E, stop), NEW e, AppendedTo(e, d, E)
  PROVE  /\ e \in Seq(Entries) /\ Len(e) = Len(d) + Len(E) /\ Len(E) > 0 /\ Len(E) \in Nat
         /\ AllNew(e) /\ \A q \in 1 .. Len(e) : e[q].stop <=> stop /\ q = Len(e)
<1>1. E \in Seq(Entries) /\ E # <<>>
  BY DEF Appended
<1>2. PICK m \in Nat, l \in Nat : m = Len(d) /\ l = Len(E)
  BY <1>1
<1>3. l > 0
  BY <1>1, <1>2
<1>4. e \in Seq(Entries) /\ Len(e) = m + l
  BY <1>1, <1>2, ConcatProperties DEF AppendedTo
<1>5. ASSUME NEW q \in 1 .. m + l
      PROVE  New(e[q]) /\ (e[q].stop <=> stop /\ q = m + l)
  <2>1. CASE q <= m
    <3>1. q \in 1 .. Len(d) /\ e[q] = d[q]
      BY <1>1, <1>2, <2>1, ConcatProperties DEF AppendedTo
    <3>2. New(d[q]) /\ ~d[q].stop
      BY <3>1 DEF AllNew
    <3>3. q # m + l
      BY <1>3, <2>1
    <3>4. QED BY <3>1, <3>2, <3>3
  <2>2. CASE ~(q <= m)
    <3>1. PICK i \in 1 .. l : i = q - m
      BY <2>2
    <3>2. e[q] = E[i]
      BY <1>1, <1>2, <2>2, <3>1, ConcatProperties DEF AppendedTo
    <3>3. New(E[i]) /\ (E[i].stop <=> stop /\ i = l)
      BY <1>2, <3>1 DEF Appended
    <3>4. i = l <=> q = m + l
      BY <3>1
    <3>5. QED BY <3>2, <3>3, <3>4
  <2>3. QED BY <2>1, <2>2
<1>6. QED BY <1>2, <1>3, <1>4, <1>5 DEF AllNew

WithQueue(s, d) == [s EXCEPT !.dq = d]
LEMMA WithQueueIs ==
  ASSUME NEW s \in Driver, NEW d \in Seq(Entries), NEW t, t = WithQueue(s, d)
  PROVE  t \in Driver /\ t.dq = d /\ t.stage = s.stage /\ t.tx = s.tx /\ t.rx = s.rx
  BY DEF Driver, WithQueue

LEMMA AddStep ==
  ASSUME DriverInv, Prompt, pc = "idle", UNCHANGED <<event, posted, queue, bus>>,
         call' \in Calls, NEW stop \in BOOLEAN, NEW E, Appended(E, stop), AddQueue(E),
         pc' = IF stop THEN "proc" ELSE "idle"
  PROVE  DriverInv'
<1>1. /\ i2c \in Driver /\ AllNew(i2c.dq) /\ i2c.stage = "DONE" /\ i2c.dq \in Seq(Entries) /\ Few(i2c)
      /\ \A q \in 1 .. Len(i2c.dq) : ~i2c.dq[q].stop /\ Clear(groups[q])
      /\ groups \in [1 .. MaxQueue -> SUBSET Bits]
  BY DEF DriverInv, Kept, AtWork, Waits, Prepared, Cleared, Driver
<1>2. PICK d, e : d = i2c.dq /\ e = d \o E
  OBVIOUS
<1>3. /\ e \in Seq(Entries) /\ Len(e) = Len(d) + Len(E) /\ Len(E) > 0 /\ Len(E) \in Nat
      /\ AllNew(e) /\ \A q \in 1 .. Len(e) : e[q].stop <=> stop /\ q = Len(e)
  <2>1. d \in Seq(Entries) /\ AllNew(d) /\ \A q \in 1 .. Len(d) : ~d[q].stop
    BY <1>1, <1>2
  <2>2. AppendedTo(e, d, E)
    BY <1>2 DEF AppendedTo
  <2> HIDE <1>2
  <2>3. QED BY <2>1, <2>2, AppendedIs
<1>4. i2c' = WithQueue(i2c, e)
  BY <1>2, Zenon DEF AddQueue, WithQueue
<1>5. i2c' \in Driver /\ i2c'.dq = e /\ i2c'.stage = i2c.stage /\ i2c'.tx = i2c.tx /\ i2c'.rx = i2c.rx
  BY <1>1, <1>3, <1>4, WithQueueIs
<1>6. PICK m \in Nat, l \in Nat : m = Len(d) /\ l = Len(E)
  BY <1>1, <1>2, <1>3
<1>7. PICK new \in SUBSET Bits :
        /\ m + l <= MaxQueue /\ Clear(new)
        /\ groups' = [q \in 1 .. MaxQueue |-> IF q \in m + 1 .. m + l THEN new ELSE groups[q]]
  <2>1. PICK given \in GivenBits :
          /\ m + l <= MaxQueue
          /\ groups' = [q \in 1 .. MaxQueue |->
                          IF q \in m + 1 .. m + l THEN given \ EVENT_MASK ELSE groups[q]]
    BY <1>2, <1>6 DEF AddQueue
  <2>2. given \ EVENT_MASK \in SUBSET Bits
    BY DEF GivenBits
  <2>3. Clear(given \ EVENT_MASK)
    BY DEF Clear
  <2>4. QED BY <2>1, <2>2, <2>3
<1>8. MaxQueue \in Nat
  BY DriverAssumption
<1>9. \A q \in 1 .. m + l : Clear(groups'[q])
  <2>1. SUFFICES ASSUME NEW q \in 1 .. m + l PROVE Clear(groups'[q])
    OBVIOUS
  <2>2. q \in 1 .. MaxQueue
    BY <1>7, <1>8
  <2>3. groups'[q] = IF q \in m + 1 .. m + l THEN new ELSE groups[q]
    BY <1>7, <2>2
  <2>4. q \notin m + 1 .. m + l => q \in 1 .. m
    OBVIOUS
  <2>5. q \in 1 .. m => Clear(groups[q])
    BY <1>1, <1>2, <1>6
  <2>6. QED BY <1>7, <2>3, <2>4, <2>5
<1>10. groups' \in [1 .. MaxQueue -> SUBSET Bits]
  BY <1>1, <1>7
<1>11. pc' \in {"idle", "proc"} /\ event' = event /\ posted' = posted
  OBVIOUS
<1>12. Len(i2c'.dq) = m + l
  BY <1>3, <1>5, <1>6
<1>13. Kept'
  BY <1>1, <1>5, <1>7, <1>10, <1>11, <1>12 DEF DriverInv, Kept, Few
<1>14. AtWork'
  BY <1>1, <1>5 DEF AtWork
<1>15. Attended' /\ Waited' /\ Reported' /\ ResultsTrue' /\ SuccessShows'
  BY <1>11 DEF Attended, Waited, Reported, ResultsTrue, OkMeansComplete, DoneMeansMoved, SuccessShows,
               Serving, Waits
<1>16. Prepared'
  <2>1. pc' = "idle" => ~stop
    OBVIOUS
  <2>2. stop => e \in Queued
    <3>1. e # <<>>
      BY <1>3, <1>5, <1>6, <1>12
    <3>2. QED BY <1>3, <3>1 DEF Queued
  <2>3. pc' \in {"proc", "reinit"} => stop
    OBVIOUS
  <2>4. QED BY <1>3, <1>5, <1>11, <2>1, <2>2, <2>3 DEF Prepared
<1>17. Cleared'
  BY <1>9, <1>12 DEF Cleared
<1>18. ReadsLand'
  BY <1>3, <1>5 DEF ReadsLand, AllNew, New
<1>19. QED BY <1>13, <1>14, <1>15, <1>16, <1>17, <1>18 DEF DriverInv

LEMMA EnqueueStep == ASSUME DriverInv, Prompt, Enqueue PROVE DriverInv'
<1>1. /\ pc = "idle" /\ pc' = pc /\ call' = call /\ UNCHANGED <<event, posted, queue, bus>>
  BY DEF Enqueue
<1>2. PICK mode \in {0, 1}, tenBit \in BOOLEAN, n \in 0 .. MaxLength :
        AddQueue(EntriesOf(mode, tenBit, n, No))
  BY Zenon DEF Enqueue, No
<1>3. PICK E : E = EntriesOf(mode, tenBit, n, No)
  OBVIOUS
<1>4. Appended(E, No)
  <2>1. n \in Nat
    BY DriverAssumption
  <2>2. QED BY <1>3, <2>1, EntriesAppended, YesNo
<1>5. AddQueue(E)
  BY <1>2, <1>3
<1>6. call' \in Calls
  BY <1>1 DEF DriverInv, Kept
<1>7. pc' = IF No THEN "proc" ELSE "idle"
  BY <1>1 DEF No
<1>8. QED BY <1>1, <1>4, <1>5, <1>6, <1>7, AddStep, YesNo

LEMMA EnqueueStopStep == ASSUME DriverInv, Prompt, EnqueueStop PROVE DriverInv'
<1>1. /\ pc = "idle" /\ pc' = "proc" /\ UNCHANGED <<event, posted, queue, bus>>
  BY DEF EnqueueStop
<1>2. PICK mode \in {0, 1}, tenBit \in BOOLEAN, n \in 0 .. MaxLength :
        AddQueue(EntriesOf(mode, tenBit, n, Yes))
  BY Zenon DEF EnqueueStop, Yes
<1>3. PICK E : E = EntriesOf(mode, tenBit, n, Yes)
  OBVIOUS
<1>4. Appended(E, Yes)
  <2>1. n \in Nat
    BY DriverAssumption
  <2>2. QED BY <1>3, <2>1, EntriesAppended, YesNo
<1>5. AddQueue(E)
  BY <1>2, <1>3
<1>6. PICK api \in {"wire", "events"} : call' = WithApi(NoCall, api)
  BY Zenon DEF EnqueueStop, WithApi
<1>7. call' \in Calls
  BY <1>6, NoCallIs, WithApiIs
<1>8. pc' = IF Yes THEN "proc" ELSE "idle"
  BY <1>1 DEF Yes
<1>9. QED BY <1>1, <1>4, <1>5, <1>7, <1>8, AddStep, YesNo

--------------------
(* The driver.                                                             *)
DriverAs(d, x, c, a, n, stage, code, i, g) ==
  [dq |-> d, queuePos |-> a, byteCnt |-> n, stage |-> stage,
   error |-> "OK", exitCode |-> code, cmd |-> c, tx |-> x, rx |-> x,
   int |-> i, ena |-> i, go |-> g, own |-> g, held |-> g]

LEMMA DriverInit == Init => DriverInv
<1> SUFFICES ASSUME Init PROVE DriverInv
  OBVIOUS
<1>1. PICK d, a, n, code, i, g, x, c :
        /\ d = <<>> /\ a = 1 /\ n = 0 /\ code = {} /\ i = {} /\ g = No /\ x = <<>> /\ c = <<>>
  OBVIOUS
<1>2. i2c = DriverAs(d, x, c, a, n, "DONE", code, i, g)
  BY <1>1, Zenon DEF Init, DriverAs, No
<1>3. /\ d \in Seq(Entries) /\ x \in Seq(Tokens) /\ c \in Seq(Cmds) /\ a \in Nat /\ n \in Nat
      /\ code \in SUBSET Bits /\ i \in SUBSET AllInts /\ g \in BOOLEAN
  BY <1>1, YesNo
<1>4. Len(d) = 0 /\ 0 <= MaxQueue /\ Len(x) <= TXCAP /\ Len(x) <= RXCAP
  BY <1>1, DriverAssumption
<1>5. /\ pc = "idle" /\ call = NoCall /\ groups = [q \in 1 .. MaxQueue |-> {}]
      /\ event \in BOOLEAN /\ posted \in BOOLEAN
  BY DEF Init
<1> HIDE <1>1
<1>6. i2c \in Driver /\ i2c.dq = d /\ i2c.tx = x /\ i2c.rx = x /\ i2c.stage = "DONE"
  BY ONLY <1>2, <1>3 DEF DriverAs, Driver, Codes
<1>7. Kept
  BY <1>4, <1>5, <1>6, NoCallIs DEF Kept, Few
<1>8. AtWork
  BY <1>6 DEF AtWork
<1>9. Attended /\ Waited /\ Reported /\ ResultsTrue /\ SuccessShows
  BY <1>5 DEF Attended, Waited, Reported, ResultsTrue, OkMeansComplete, DoneMeansMoved, SuccessShows,
              Serving, Waits
<1>10. Prepared /\ Cleared /\ ReadsLand
  BY <1>4, <1>5, <1>6 DEF Prepared, Cleared, ReadsLand, AllNew
<1>11. QED BY <1>7, <1>8, <1>9, <1>10 DEF DriverInv

(* Every step keeps the invariant, and adds to the bus only what is next in *)
(* the stream *)
LEMMA DriverNext == ASSUME Prompt, DriverInv, [Next]_vars PROVE DriverInv' /\ BusStep
<1>1. CASE IsrEject
  BY <1>1, EjectKeeps DEF IsrEject, BusStep
<1>2. CASE IsrPass
  BY <1>2, PassStep DEF IsrPass, BusStep
<1>3. CASE IsrFinish
  BY <1>3, FinishStep DEF IsrFinish, BusStep
<1>4. CASE Daemon
  BY <1>4, DaemonStep DEF Daemon, BusStep
<1>5. CASE HwWrite
  BY <1>5, WriteRuns
<1>6. CASE HwRead
  BY <1>6, ReadRuns
<1>7. CASE HwNothing
  BY <1>7, NothingRuns DEF HwNothing, BusStep
<1>8. CASE HwStart
  BY <1>8, StartRuns
<1>9. CASE HwStop
  BY <1>9, StopRuns
<1>10. CASE HwEnd
  BY <1>10, EndRuns DEF HwEnd, BusStep
<1>11. CASE HwUnattended
  BY <1>11, UnattendedKeeps DEF HwUnattended, BusStep
<1>12. CASE Hold \/ Release
  BY <1>12, HoldKeeps DEF Hold, Release, BusStep
<1>13. CASE Enqueue
  BY <1>13, EnqueueStep DEF Enqueue, BusStep
<1>14. CASE EnqueueStop
  BY <1>14, EnqueueStopStep DEF EnqueueStop, BusStep
<1>15. CASE ProcBusy
  BY <1>15, BusyStep DEF ProcBusy, BusStep
<1>16. CASE ProcStart
  BY <1>16, BeginStep DEF ProcStart, BusStep
<1>17. CASE Wake
  BY <1>17, WakeStep DEF Wake, BusStep
<1>18. CASE TimeOut
  BY <1>18, TimeOutStep DEF TimeOut, BusStep
<1>19. CASE Recover
  BY <1>19, RecoverStep DEF Recover, BusStep
<1>20. CASE GrossTimeout
  BY <1>20, GrossStep DEF GrossTimeout, BusStep
<1>21. CASE Shutdown
  BY <1>21, ShutdownStep DEF Shutdown, BusStep
<1>22. CASE Report
  BY <1>22, ReportStep DEF Report, BusStep
<1>23. CASE Reinit
  BY <1>23, ReinitStep DEF Reinit, BusStep
<1>24. CASE Flush
  BY <1>24, FlushStep DEF Flush, BusStep
<1>25. CASE UNCHANGED vars
  <2>1. /\ i2c' = i2c /\ pc' = pc /\ call' = call /\ event' = event /\ posted' = posted
        /\ groups' = groups /\ queue' = queue /\ bus' = bus
    BY <1>25 DEF vars
  <2>2. Kept' /\ AtWork' /\ Attended' /\ Waited'
    BY <2>1 DEF DriverInv, Kept, AtWork, Attended, Waited
  <2>3. Prepared' /\ Cleared' /\ Reported' /\ ReadsLand' /\ SuccessShows'
    BY <2>1 DEF DriverInv, Prepared, Cleared, Reported, ReasonOf, ReadsLand, SuccessShows
  <2>4. ResultsTrue'
    BY <2>1 DEF DriverInv, ResultsTrue, OkMeansComplete, DoneMeansMoved, Moved
  <2>5. QED BY <2>1, <2>2, <2>3, <2>4 DEF DriverInv, BusStep
<1>26. QED
  BY <1>1, <1>2, <1>3, <1>4, <1>5, <1>6, <1>7, <1>8, <1>9, <1>10, <1>11, <1>12, <1>13, <1>14,
     <1>15, <1>16, <1>17, <1>18, <1>19, <1>20, <1>21, <1>22, <1>23, <1>24, <1>25
     DEF Next, Isr, Controller, Task, Serve

LEMMA DriverInvariant == ASSUME Prompt PROVE Spec => []DriverInv
<1>1. DriverInv /\ [Next]_vars => DriverInv'
  BY DriverNext
<1>2. QED BY <1>1, DriverInit, PTL DEF Spec

(* The queue position that the handler indexes the queue with stays inside *)
(* it, and fillTxFifo and the controller never overfill a FIFO.            *)
THEOREM DriverTypes == ASSUME Prompt PROVE Spec => []TypeOK
<1>1. ASSUME DriverInv PROVE TypeOK
  <2>1. i2c \in Driver /\ groups \in [1 .. MaxQueue -> SUBSET Bits]
    BY <1>1 DEF DriverInv, Kept
  <2>2. Len(i2c.dq) <= MaxQueue /\ Len(i2c.tx) <= TXCAP /\ Len(i2c.rx) <= RXCAP
    BY <1>1 DEF DriverInv, Kept, Few
  <2>3. ASSUME i2c.stage # "DONE" PROVE i2c.queuePos \in 1 .. Len(i2c.dq)
    <3>1. Works(queue, i2c, Len(bus)) /\ queue \in Queued /\ Len(bus) \in Nat
      BY <1>1, <2>3, WorkFacts
    <3>2. QED BY <3>1, WorksAt
  <2>4. i2c.stage \in {"DONE", "STARTUP", "RUNNING"} /\ i2c.ena \subseteq AllInts /\ i2c.int \subseteq AllInts
    BY <2>1 DEF Driver
  <2>5. pc \in {"idle", "proc", "waiting", "woken", "gross", "shutdown", "report", "reinit", "flush"}
    BY <1>1 DEF DriverInv, Kept, Serving, Waits
  <2>6. \A q \in 1 .. MaxQueue : groups[q] \subseteq Bits
    BY <2>1
  <2>7. QED BY <2>2, <2>3, <2>4, <2>5, <2>6 DEF TypeOK
<1>2. QED BY <1>1, DriverInvariant, PTL

(* What i2cProcQueue says of success is true: after I2C_ERROR_OK the whole *)
(* queue has crossed the bus up to STOP and all that was read is in the    *)
(* buffers, and a transfer whose event group says DONE without ERROR has   *)
(* moved whole, however a later one of the queue ended.                    *)
THEOREM DriverResults == ASSUME Prompt PROVE Spec => []ResultsTrue
<1>1. DriverInv => ResultsTrue
  BY DEF DriverInv
<1>2. QED BY <1>1, DriverInvariant, PTL

(* emptyRxFifo puts every byte read in its own place of its own buffer.    *)
THEOREM DriverReads == ASSUME Prompt PROVE Spec => []ReadsLand
<1>1. DriverInv => ReadsLand
  BY DEF DriverInv
<1>2. QED BY <1>1, DriverInvariant, PTL

(* After a success every event group of the queue says DONE and none of    *)
(* the errors that i2cAddQueue clears, whatever calls that failed had set  *)
(* in a group before it was given again.                                   *)
THEOREM DriverBits == ASSUME Prompt PROVE Spec => []SuccessShows
<1>1. DriverInv => SuccessShows
  BY DEF DriverInv
<1>2. QED BY <1>1, DriverInvariant, PTL

(* What i2cProcQueue says of failure is true: the address is blamed for a  *)
(* missing acknowledgement exactly when one of its bytes was not           *)
(* acknowledged, and a gross timeout means that the wait ran out.          *)
THEOREM DriverErrors == ASSUME Prompt PROVE Spec => []ErrorsTrue
<1>1. ASSUME DriverInv PROVE ErrorsTrue
  <2>1. ASSUME pc = "report"
        PROVE  /\ call.reason = "ACK" => (i2c.error = "ADDR_NAK") = (bus[Len(bus)].kind = "addr")
               /\ call.reason \in {"BUSY", "TIMEOUT"} => call.waited
    <3>1. i2c.error \in Codes
      BY <1>1 DEF DriverInv, Kept, Driver
    <3>2. \/ call.reason = "TIMEOUT" /\ call.waited
          \/ "DONE" \in i2c.exitCode /\ call.reason = ReasonOf
      BY <1>1, <2>1 DEF DriverInv, Reported
    <3>3. pc \in Serving
      BY <2>1 DEF Serving
    <3>4. ASSUME call.reason = "ACK"
          PROVE  (i2c.error = "ADDR_NAK") = (bus[Len(bus)].kind = "addr")
      <4>1. i2c.error \in {"ADDR_NAK", "DATA_NAK"} /\ "DONE" \in i2c.exitCode
        BY <3>1, <3>2, <3>4, ReasonIs
      <4>2. Ends(queue, i2c, Len(bus)) /\ Begins(bus, Stream(queue))
        BY <1>1, <3>3, <4>1, AttendedOf
      <4>3. NakAt(queue, i2c.error, Len(bus))
        BY <4>1, <4>2 DEF Ends
      <4>4. Len(bus) \in 1 .. Len(bus)
        BY <4>2, <4>3 DEF NakAt, Begins
      <4>5. bus[Len(bus)] = Stream(queue)[Len(bus)]
        BY <4>2, <4>4 DEF Begins
      <4>6. i2c.error = "ADDR_NAK" <=> bus[Len(bus)].kind = "addr"
        BY <4>3, <4>5 DEF NakAt
      <4>7. QED BY <4>6
    <3>5. QED BY <3>1, <3>2, <3>4, ReasonIs
  <2>2. QED BY <2>1 DEF ErrorsTrue, NakKind, TimeoutMeansWaited
<1>2. QED BY <1>1, DriverInvariant, PTL

--------------------
(* What holds whatever the faults are, until a call's first try begins.    *)

CodeIs(s, x) == {"dq", "stage", "exitCode", "cmd"} \subseteq DOMAIN s /\ s.exitCode = x

LEMMA FillCarries == ASSUME NEW s, NEW x, CodeIs(s, x) PROVE CodeIs(FillTxFifo(s), x)
<1>1. TXCAP + 1 \in Nat
  BY DriverAssumption
<1>2. PICK N \in Nat : N = TXCAP + 1
  BY <1>1
<1> PICK r : LoadsRun(s, N, r)
  BY LoadsAre
<1>3. /\ r[0] = s /\ Repeat(LoadByte, s, N) = r[N]
      /\ \A k \in 1 .. N : r[k] = LoadByte(r[k - 1])
  BY DEF LoadsRun
<1> DEFINE T == {k \in Nat : CodeIs(r[k], x)}
<1>4. ASSUME NEW k \in Nat, k < N, k \in T PROVE k + 1 \in T
  <2>1. k + 1 \in 1 .. N /\ (k + 1) - 1 = k
    BY <1>4
  <2>2. r[k + 1] = LoadByte(r[k]) /\ CodeIs(r[k], x)
    BY <1>3, <1>4, <2>1
  <2>3. ASSUME NEW t, CodeIs(t, x) PROVE CodeIs(LoadByte(t), x)
    BY <2>3 DEF LoadByte, CodeIs
  <2>4. QED BY <2>2, <2>3
<1>5. 0 \in T
  BY <1>3
<1>6. CodeIs(r[N], x)
  <2> HIDE DEF T
  <2>1. N \in T
    BY <1>4, <1>5, Induct
  <2>2. QED BY <2>1 DEF T
<1>7. FillTxFifo(s) = [r[N] EXCEPT !.ena = Refillable(r[N])]
  BY <1>2, <1>3, Zenon DEF FillTxFifo
<1>8. QED BY <1>6, <1>7 DEF CodeIs

LEMMA PassCarries ==
  ASSUME NEW s, NEW x, CodeIs(s, x), NEW a
  PROVE  CodeIs(Served(s, a), x) /\ CodeIs(OnEndDetect(s), x) /\ CodeIs(EmptyRxFifo(s), x)
<1>1. ASSUME NEW t, CodeIs(t, x) PROVE CodeIs(EmptyRxFifo(t), x)
  BY <1>1 DEF EmptyRxFifo, CodeIs
<1>2. ASSUME NEW t, CodeIs(t, x) PROVE CodeIs(OnRxFull(t), x)
  BY <1>1, <1>2 DEF OnRxFull, CodeIs
<1>3. ASSUME NEW t, CodeIs(t, x) PROVE CodeIs(OnTransStart(t), x)
  BY <1>3 DEF OnTransStart, CodeIs
<1>4. ASSUME NEW t, CodeIs(t, x) PROVE CodeIs(OnTranComp(t), x)
  <2>1. PICK u : u = [t EXCEPT !.int = @ \ {"TRAN_COMP"}, !.byteCnt = t.byteCnt + 1]
    OBVIOUS
  <2>2. CodeIs(u, x)
    BY <1>4, <2>1 DEF CodeIs
  <2>3. CodeIs(LastBytes(u), x)
    BY <1>2, <2>2 DEF LastBytes
  <2>4. QED BY <2>1, <2>2, <2>3 DEF OnTranComp, CodeIs
<1>5. CodeIs(OnEndDetect(s), x)
  BY DEF OnEndDetect, CodeIs
<1>6. QED BY <1>1, <1>2, <1>3, <1>4, <1>5, FillCarries DEF Served

(* The queue of a call that has not been tried is as i2cAddQueue made it   *)
Untried ==
  /\ {"dq", "stage", "exitCode", "cmd"} \subseteq DOMAIN i2c /\ "eBits" \in DOMAIN call
  /\ "DONE" \in i2c.exitCode => i2c.stage = "DONE"
  /\ i2c.stage # "DONE" => pc \in Waits
  /\ pc = "report" => call.eBits # {}
  /\ pc = "idle" => \A q \in 1 .. Len(i2c.dq) : ~i2c.dq[q].stop
  /\ pc = "idle" => i2c.dq \in Seq(Entries) /\ AllNew(i2c.dq)
  /\ pc \in {"proc", "reinit"} /\ call.eBits = {} => i2c.dq \in Queued /\ AllNew(i2c.dq)

LEMMA UntriedNext ==
  ASSUME Untried, [Next]_vars
  PROVE  Untried' /\ (pc = "proc" /\ pc' = "waiting" /\ call.eBits = {} => StartFirst')
<1>1. CASE IsrEject
  BY <1>1 DEF Untried, IsrEject
<1>2. CASE IsrPass
  <2>1. PICK x : x = i2c.exitCode
    OBVIOUS
  <2>2. CodeIs(i2c, x) /\ pc \in Waits /\ pc' = pc /\ call' = call /\ "DONE" \notin x
    BY <1>2, <2>1 DEF Untried, IsrPass, CodeIs
  <2>3. CodeIs(i2c', x)
    BY <1>2, <2>2, PassCarries DEF IsrPass
  <2>4. QED BY <2>2, <2>3 DEF Untried, CodeIs, Waits
<1>3. CASE IsrFinish
  <2>1. PICK x : x = i2c.exitCode
    OBVIOUS
  <2>2. CodeIs(i2c, x) /\ pc \in Waits /\ pc' = pc /\ call' = call
    BY <1>3, <2>1 DEF Untried, IsrFinish, CodeIs
  <2>3. PICK s, code, error : i2c' = IsrExit(s, code, error) /\ CodeIs(s, x)
    BY <1>3, <2>2, PassCarries DEF IsrFinish, OnAckErr
  <2>4. CodeIs(EmptyRxFifo(s), x)
    BY <2>3, PassCarries
  <2>5. {"dq", "stage", "exitCode", "cmd"} \subseteq DOMAIN i2c' /\ i2c'.stage = "DONE"
    BY <2>3, <2>4 DEF IsrExit, CodeIs
  <2>6. QED BY <2>2, <2>5 DEF Untried, Waits
<1>4. CASE Daemon \/ Hold \/ Release \/ HwUnattended
  BY <1>4 DEF Untried, Daemon, Hold, Release, HwUnattended
<1>5. CASE HwWrite \/ HwRead \/ HwNothing \/ HwStart \/ HwStop \/ HwEnd
  BY <1>5 DEF Untried, HwWrite, HwRead, HwNothing, HwStart, HwStop, HwEnd, Runs, ByteDone, Waits
<1>6. CASE Enqueue \/ EnqueueStop
  <2>1. PICK mode \in {0, 1}, tenBit \in BOOLEAN, n \in 0 .. MaxLength, stop \in BOOLEAN :
          /\ AddQueue(EntriesOf(mode, tenBit, n, stop)) /\ "eBits" \in DOMAIN call'
          /\ pc' = IF stop THEN "proc" ELSE "idle"
    <3>1. CASE Enqueue
      BY <3>1 DEF Untried, Enqueue
    <3>2. CASE EnqueueStop
      BY <3>2 DEF EnqueueStop, NoCall
    <3>3. QED BY <1>6, <3>1, <3>2
  <2>2. n \in Nat
    BY DriverAssumption
  <2>3. PICK E, e : E = EntriesOf(mode, tenBit, n, stop) /\ AppendedTo(e, i2c.dq, E)
    BY DEF AppendedTo
  <2>4. pc = "idle" /\ i2c' = WithQueue(i2c, e)
    BY <1>6, <2>1, <2>3 DEF Enqueue, EnqueueStop, AddQueue, AppendedTo, WithQueue
  <2>5. Appended(E, stop)
    BY <2>2, <2>3, EntriesAppended
  <2>6. /\ e \in Seq(Entries) /\ Len(e) > 0 /\ AllNew(e)
        /\ \A q \in 1 .. Len(e) : e[q].stop <=> stop /\ q = Len(e)
    BY <2>3, <2>4, <2>5, AppendedIs DEF Untried
  <2>7. stop => e \in Queued
    BY <2>6 DEF Queued
  <2>8. QED BY <2>1, <2>4, <2>6, <2>7 DEF Untried, WithQueue, Waits
<1>7. CASE ProcStart
  <2>1. PICK d, c : d = FillCmdQueue(i2c.dq, 1).dq /\ c = FillCmdQueue(i2c.dq, 1).cmd
    OBVIOUS
  <2>2. PICK a, n, x, i, e, stage, g : i2c' = BegunAs(i2c, d, c, a, n, x, i, e, {}, stage, g)
    BY <1>7, <2>1, Zenon DEF ProcStart, BegunAs, ClearedExit
  <2>3. call.eBits = {} => c # <<>> /\ c[1].op = "RSTART"
    BY <1>7, <2>1, FirstList DEF Untried, ProcStart
  <2>4. "exitCode" \in DOMAIN i2c /\ "cmd" \in DOMAIN i2c
    BY DEF Untried
  <2>5. i2c'.exitCode = {} /\ i2c'.cmd = c /\ {"dq", "stage", "exitCode", "cmd"} \subseteq DOMAIN i2c'
    BY <2>2, <2>4 DEF BegunAs, Untried
  <2>6. call.eBits = {} => StartFirst'
    BY <2>3, <2>5 DEF StartFirst
  <2>7. QED BY <1>7, <2>5, <2>6 DEF Untried, ProcStart, Waits
<1>8. CASE ProcBusy \/ Wake \/ TimeOut \/ Recover \/ GrossTimeout \/ Shutdown \/ Report
  BY <1>8 DEF Untried, ProcBusy, Wake, TimeOut, Recover, GrossTimeout, Shutdown, Report, Waits
<1>9. CASE Reinit
  BY <1>9 DEF Untried, Reinit, ResetRegisters, Waits
<1>10. CASE Flush
  BY <1>10 DEF Untried, Flush, AllNew, NoCall, Waits
<1>11. CASE UNCHANGED vars
  BY <1>11 DEF Untried, vars
<1>12. QED BY <1>1, <1>2, <1>3, <1>4, <1>5, <1>6, <1>7, <1>8, <1>9, <1>10, <1>11
  DEF Next, Isr, Controller, Task, Serve

(* With any of the faults, the list that i2cProcQueue starts the first try *)
(* of a call with begins with START: no call leaves the next an entry or a *)
(* handler that would change it.                                           *)
THEOREM DriverStarts == Spec => FirstTryStarts
<1>1. Init => Untried
  BY DEF Init, Untried, NoCall, AllNew
<1>2. Untried /\ [Next]_vars
        => [pc = "proc" /\ pc' = "waiting" /\ call.eBits = {} => StartFirst']_vars
  BY UntriedNext
<1>3. Untried /\ [Next]_vars => Untried'
  BY UntriedNext
<1>4. QED BY <1>1, <1>2, <1>3, PTL DEF Spec, FirstTryStarts

(* The driver implements I2cBus: the bytes of the queue cross the bus in   *)
(* order, each once, and no byte that fillTxFifo did not supply in time.   *)
THEOREM DriverImplementsBus == ASSUME Prompt PROVE Spec => DrivesBus
<1>1. Init => Wires!Init
  BY DEF Init, Wires!Init
<1>2. ASSUME DriverInv, [Next]_vars PROVE [Wires!Next]_<<queue, bus>>
  <2>1. BusStep
    BY <1>2, DriverNext
  <2>2. CASE bus' = bus /\ queue' = queue
    BY <2>2
  <2>3. CASE bus' = <<>>
    BY <2>3 DEF Wires!Next, Wires!Begin
  <2>4. CASE queue \in Queued /\ queue' = queue /\ Advances(queue, bus, bus')
    <3>1. Len(bus') > Len(bus) /\ SubSeq(bus', 1, Len(bus)) = bus /\ Begins(bus', Stream(queue))
      BY <2>4 DEF Advances
    <3>2. SubSeq(Stream(queue), 1, Len(bus')) = bus' /\ Len(bus') <= Len(Stream(queue))
      BY <2>4, <3>1, StreamType, BeginsIs DEF Begins
    <3>3. Wires!Stream(queue) = Stream(queue)
      BY DEF Wires!Stream, Stream, Wires!EntryStream, EntryStream, Wires!Token, Token
    <3>4. Wires!Transfer
      BY <3>1, <3>2, <3>3 DEF Wires!Transfer
    <3>5. QED BY <3>4 DEF Wires!Next
  <2>5. QED BY <2>1, <2>2, <2>3, <2>4 DEF BusStep
<1>3. QED BY <1>1, <1>2, DriverInvariant, PTL DEF Spec, DrivesBus, Wires!Spec
=============================================================================
