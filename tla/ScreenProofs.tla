---------------------------- MODULE ScreenProofs ----------------------------
(***************************************************************************)
(* For every size of the screen and whatever the sketch calls: the cached  *)
(* column and row of drawPixel() are the controller's, the lock flag tells *)
(* who has the bus, and a call uses the bus while the driver has it and    *)
(* gives it back; and where the parts of its picture fit together, it      *)
(* draws that picture, as far as the glass goes, and in every rotation but *)
(* one nothing else on the glass.                                          *)
(*                                                                         *)
(* The first two follow step by step: they do not depend on the order in   *)
(* which the steps of a call come.  The others do.  For the use of the bus *)
(* the steps of every call are a path from where the bus was to where it   *)
(* should be; for the picture they are a path of the controller, from any  *)
(* window and any memory of it that is true, along which the pixels of the *)
(* picture are written: for every list of primitives, every line, every    *)
(* triangle, every picture in parts.                                       *)
(***************************************************************************)
EXTENDS Screen, SequenceTheorems, WellFoundedInduction, TLAPS

(* The initial cache is empty, and so is the bus.                          *)
LEMMA InitCache == Init => CacheTrue /\ LockMatches
  BY DEF Init, CacheTrue, LockMatches

(* setAddrWindow() forgets, drawPixel() sends what it then remembers, and  *)
(* nothing else touches the window or the cache.                           *)
LEMMA StepCache == ASSUME CacheTrue, Next PROVE CacheTrue'
<1>1. CASE setAddrWindow
  BY <1>1 DEF setAddrWindow, Forgets, CacheTrue
<1>2. CASE drawPixel
  <2> DEFINE cols == IF addr_col # step.x THEN <<step.x, step.x>> ELSE lcd.cols
             rows == IF addr_row # step.y THEN <<step.y, step.y>> ELSE lcd.rows
  <2>1. lcd' = [cols |-> cols, rows |-> rows, next |-> 1]
    BY <1>2 DEF drawPixel
  <2>2. addr_col' = step.x /\ addr_row' = step.y
    BY <1>2 DEF drawPixel
  <2>3. step.x # Unknown => cols = <<step.x, step.x>>
    BY DEF CacheTrue
  <2>4. step.y # Unknown => rows = <<step.y, step.y>>
    BY DEF CacheTrue
  <2>5. lcd'.cols = cols /\ lcd'.rows = rows
    BY <2>1
  <2> QED
    BY <2>2, <2>3, <2>4, <2>5 DEF CacheTrue
<1>3. CASE PushPixels
  <2>1. lcd'.cols = lcd.cols /\ lcd'.rows = lcd.rows
    BY <1>3 DEF PushPixels
  <2> QED
    BY <1>3, <2>1 DEF PushPixels, CacheTrue, cache
<1>4. CASE ForgetWindow
  BY <1>4 DEF ForgetWindow, Forgets, CacheTrue
<1>5. CASE UNCHANGED <<cache, lcd>>
  BY <1>5 DEF cache, CacheTrue
<1>6. ASSUME NEW c \in Calls, Calling(c) PROVE UNCHANGED <<cache, lcd>>
  BY <1>6 DEF Calling
<1>7. ASSUME BeginTransaction \/ EndTransaction \/ EnterTransaction \/ LeaveTransaction
      PROVE  UNCHANGED <<cache, lcd>>
  BY <1>7 DEF BeginTransaction, EndTransaction, EnterTransaction, LeaveTransaction
<1>8. ASSUME SetMadctl \/ SdTakes \/ SdGives PROVE UNCHANGED <<cache, lcd>>
  BY <1>8 DEF SetMadctl, SdTakes, SdGives
<1> QED
  BY <1>1, <1>2, <1>3, <1>4, <1>5, <1>6, <1>7, <1>8 DEF Next, Step

(* Only beginTransaction() and endTransaction() change the flag, and they  *)
(* change it with the bus.                                                 *)
LEMMA StepLock == ASSUME LockMatches, Next PROVE LockMatches'
<1>1. CASE BeginTransaction
  BY <1>1 DEF BeginTransaction, Unlocks, LockMatches
<1>2. CASE EndTransaction
  BY <1>2 DEF EndTransaction, Ends, LockMatches
<1>3. CASE SdTakes
  BY <1>3 DEF SdTakes, LockMatches
<1>4. CASE SdGives
  BY <1>4 DEF SdGives, LockMatches
<1>5. CASE UNCHANGED <<locked, bus>>
  BY <1>5 DEF LockMatches
<1>6. ASSUME NEW c \in Calls, Calling(c) PROVE UNCHANGED <<locked, bus>>
  BY <1>6 DEF Calling, transaction
<1>7. ASSUME EnterTransaction \/ LeaveTransaction PROVE UNCHANGED <<locked, bus>>
  BY <1>7 DEF EnterTransaction, LeaveTransaction
<1>8. ASSUME setAddrWindow \/ drawPixel \/ PushPixels \/ SetMadctl \/ ForgetWindow
      PROVE  UNCHANGED <<locked, bus>>
  BY <1>8 DEF setAddrWindow, drawPixel, PushPixels, SetMadctl, ForgetWindow, transaction
<1> QED
  BY <1>1, <1>2, <1>3, <1>4, <1>5, <1>6, <1>7, <1>8 DEF Next, Step

(* drawPixel() may leave out the column or the row it sent last: the       *)
(* controller still has it, whatever was drawn in between.                 *)
THEOREM CacheSafe == Spec => []CacheTrue
<1>1. CacheTrue /\ UNCHANGED vars => CacheTrue'
  BY DEF vars, cache, CacheTrue
<1> QED
  BY InitCache, StepCache, <1>1, PTL DEF Spec

(* locked is false exactly while the driver has the bus, so spi_begin()    *)
(* never takes it twice and spi_end() never gives back another task's.     *)
THEOREM LockSafe == Spec => []LockMatches
<1>1. LockMatches /\ UNCHANGED vars => LockMatches'
  BY DEF vars, transaction, LockMatches
<1> QED
  BY InitCache, StepLock, <1>1, PTL DEF Spec

-----------------------------------------------------------------------------
(* A set of numbers that is not empty has a least one.                     *)
LEMMA LeastNumber ==
  ASSUME NEW S, S \subseteq Nat, S # {}
  PROVE  \E m \in S : \A n \in S : m <= n
<1> DEFINE R == OpToRel(<, Nat)
<1>1. IsWellFoundedOn(R, Nat)
  BY NatLessThanWellFounded
<1>2. \A x, y \in Nat : y < x => <<y, x>> \in R
  BY DEF OpToRel
<1> HIDE DEF R
<1>3. \E x \in S : \A y \in S : ~(<<y, x>> \in R)
  BY <1>1, WFMin
<1>4. PICK m \in S : \A y \in S : ~(<<y, m>> \in R)
  BY <1>3
<1>5. \A n \in S : ~(n < m)
  BY <1>2, <1>4
<1>6. QED BY <1>4, <1>5

(* Induction, for a set: one that holds 0, and n + 1 with every n below N  *)
(* that it holds, holds 0 .. N.                                            *)
LEMMA Induct ==
  ASSUME NEW N \in Nat, NEW T, 0 \in T,
         \A n \in Nat : n < N /\ n \in T => n + 1 \in T
  PROVE  \A n \in 0 .. N : n \in T
<1> SUFFICES ASSUME (0 .. N) \ T # {} PROVE FALSE
  OBVIOUS
<1>1. PICK m \in (0 .. N) \ T : \A n \in (0 .. N) \ T : m <= n
  <2>1. (0 .. N) \ T \subseteq Nat
    OBVIOUS
  <2>2. QED BY <2>1, LeastNumber
<1>2. m # 0 /\ m - 1 \in Nat /\ m - 1 < N /\ m - 1 \in T
  BY <1>1
<1>3. m \in T
  <2>1. m - 1 + 1 \in T
    BY <1>2
  <2>2. QED BY <1>1, <2>1
<1>4. QED BY <1>1, <1>3

(* The recursion of FlattenSeq.                                            *)
Flattening(ss) ==
  LET flatten[i \in 1 .. Len(ss)] == IF i = 1 THEN ss[i] ELSE flatten[i - 1] \o ss[i]
  IN  flatten

(* What is flattened grows by one sequence at a time.                      *)
LEMMA FlattenIs ==
  ASSUME NEW C, NEW ss \in Seq(C), ss # <<>>
  PROVE  \E f : /\ FlattenSeq(ss) = f[Len(ss)] /\ f[1] = ss[1]
                /\ \A i \in 2 .. Len(ss) : f[i] = f[i - 1] \o ss[i]
<1> DEFINE Good(n, g) == g = [i \in 1 .. n |-> IF i = 1 THEN ss[i] ELSE g[i - 1] \o ss[i]]
           T == {n \in Nat : \E g : Good(n, g)}
           L == Len(ss)
<1>1. L \in Nat \ {0}
  OBVIOUS
<1>2. 0 \in T
  <2>1. Good(0, [i \in 1 .. 0 |-> ss[i]])
    OBVIOUS
  <2>2. QED BY <2>1
<1>3. ASSUME NEW n \in Nat, n \in T PROVE n + 1 \in T
  <2>1. PICK g : Good(n, g)
    BY <1>3
  <2> DEFINE h == [i \in 1 .. n + 1 |->
                     IF i = n + 1 THEN IF i = 1 THEN ss[i] ELSE g[n] \o ss[i] ELSE g[i]]
  <2>2. ASSUME NEW i \in 1 .. n + 1
        PROVE  h[i] = IF i = 1 THEN ss[i] ELSE h[i - 1] \o ss[i]
    <3>1. CASE i = n + 1
      <4>1. CASE i = 1
        BY <3>1, <4>1
      <4>2. CASE i # 1
        <5>1. i - 1 = n /\ n \in 1 .. n + 1 /\ n # n + 1
          BY <3>1, <4>2
        <5>2. h[i - 1] = g[n]
          BY <5>1
        <5>3. QED BY <3>1, <4>2, <5>2
      <4>3. QED BY <4>1, <4>2
    <3>2. CASE i # n + 1
      <4>1. i \in 1 .. n /\ h[i] = g[i]
        BY <3>2
      <4>2. i # 1 => h[i - 1] = g[i - 1]
        BY <4>1
      <4>3. g[i] = IF i = 1 THEN ss[i] ELSE g[i - 1] \o ss[i]
        BY <2>1, <4>1
      <4>4. QED BY <4>1, <4>2, <4>3
    <3>3. QED BY <3>1, <3>2
  <2>3. Good(n + 1, h)
    BY <2>2
  <2> HIDE DEF Good
  <2>4. QED BY <2>3
<1>4. L \in T
  <2> HIDE DEF T
  <2>1. \A n \in 0 .. L : n \in T
    BY <1>1, <1>2, <1>3, Induct
  <2>2. QED BY <1>1, <2>1
<1>5. PICK g : Good(L, g)
  BY <1>4
<1> DEFINE f == Flattening(ss)
<1>6. f = [i \in 1 .. L |-> IF i = 1 THEN ss[i] ELSE f[i - 1] \o ss[i]]
  BY <1>5 DEF Flattening
<1>7. FlattenSeq(ss) = f[L]
  BY <1>1 DEF FlattenSeq, Flattening
<1> HIDE DEF f
<1>8. f[1] = ss[1] /\ \A i \in 2 .. L : f[i] = f[i - 1] \o ss[i]
  <2>1. 1 \in 1 .. L /\ \A i \in 2 .. L : i \in 1 .. L /\ i # 1
    BY <1>1
  <2>2. \A i \in 1 .. L : f[i] = IF i = 1 THEN ss[i] ELSE f[i - 1] \o ss[i]
    BY <1>6
  <2>3. QED BY <2>1, <2>2
<1>9. QED BY <1>7, <1>8

(* Nothing, flattened, is nothing.                                         *)
LEMMA FlattenNone == FlattenSeq(<<>>) = <<>>
BY DEF FlattenSeq

(* What is closed under \o holds what is flattened from its members: the   *)
(* steps of a call that are put together piece by piece.                   *)
LEMMA FlattenClosed ==
  ASSUME NEW C, <<>> \in C, \A s, t \in C : s \o t \in C, NEW ss \in Seq(C)
  PROVE  FlattenSeq(ss) \in C
<1>1. Len(ss) \in Nat /\ \A i \in 1 .. Len(ss) : ss[i] \in C
  OBVIOUS
<1>2. CASE ss = <<>>
  BY <1>2, FlattenNone
<1>3. CASE ss # <<>>
  <2>1. PICK f : /\ FlattenSeq(ss) = f[Len(ss)] /\ f[1] = ss[1]
                 /\ \A i \in 2 .. Len(ss) : f[i] = f[i - 1] \o ss[i]
    BY <1>3, FlattenIs
  <2> DEFINE V == {n \in Nat : n = 0 \/ f[n] \in C}
  <2>2. 0 \in V
    OBVIOUS
  <2>3. ASSUME NEW n \in Nat, n < Len(ss), n \in V PROVE n + 1 \in V
    <3>1. n + 1 \in 1 .. Len(ss) /\ ss[n + 1] \in C
      BY <1>1, <2>3
    <3>2. CASE n = 0
      <4>1. n + 1 = 1
        BY <3>2
      <4>2. QED BY <2>1, <3>1, <4>1
    <3>3. CASE n # 0
      <4>1. n + 1 \in 2 .. Len(ss) /\ (n + 1) - 1 = n
        BY <3>1, <3>3
      <4>2. PICK a, b : a = f[n] /\ b = ss[n + 1]
        OBVIOUS
      <4>3. f[n + 1] = a \o b
        BY <2>1, <4>1, <4>2
      <4>4. a \in C /\ b \in C
        BY <2>3, <3>1, <3>3, <4>2
      <4>5. a \o b \in C
        BY <4>4, Zenon
      <4>6. f[n + 1] \in C
        BY <4>3, <4>5, Zenon
      <4>7. QED BY <4>6
    <3>4. QED BY <3>2, <3>3
  <2> HIDE DEF V
  <2>4. \A n \in 0 .. Len(ss) : n \in V
    BY <1>1, <2>2, <2>3, Induct
  <2>5. Len(ss) \in V /\ Len(ss) # 0
    BY <1>1, <1>3, <2>4
  <2>6. QED BY <2>1, <2>5 DEF V
<1>4. QED BY <1>2, <1>3

(* The steps of a call. A path is what a sequence of them makes of the     *)
(* bus, from state h to state k: "free", the driver does not have it;      *)
(* "held", it has it for the primitive it draws; "kept", it has it for the *)
(* shape, and inTransaction is set. A step whose op is among N is taken    *)
(* only where the bus is not free.                                         *)
BusSteps ==
  [op : {"begin", "end", "enter", "leave", "forget"}]
  \cup [op : {"window"}, x0 : Int, y0 : Int, x1 : Int, y1 : Int]
  \cup [op : {"words"}, n : Int] \cup [op : {"dot"}, x : Nat, y : Nat] \cup [op : {"madctl"}, m : Nat]

(* What sends, and what keeps the bus.                                     *)
Guarded == {"enter", "window", "words", "dot", "madctl"}

After(op, h) ==
  IF op = "begin" THEN IF h = "free" THEN "held" ELSE h
  ELSE IF op = "end" THEN IF h = "held" THEN "free" ELSE h
  ELSE IF op = "enter" THEN "kept"
  ELSE IF op = "leave" THEN IF h = "kept" THEN "held" ELSE h
  ELSE h

Along(s, l, N) ==
  \A i \in 1 .. Len(s) : l[i] = After(s[i].op, l[i - 1]) /\ (s[i].op \in N => l[i - 1] # "free")
Holds == {"free", "held", "kept"}
Path(s, h, k, N) ==
  \E l \in [0 .. Len(s) -> Holds] : l[0] = h /\ l[Len(s)] = k /\ Along(s, l, N)

(* No step changes nothing.                                                *)
LEMMA PathEmpty ==
  ASSUME NEW h \in Holds, NEW N PROVE Path(<<>>, h, h, N)
<1>1. Len(<<>>) = 0
  OBVIOUS
<1>2. PICK s : s = <<>>
  OBVIOUS
<1> DEFINE l == [i \in 0 .. 0 |-> h]
<1>3. l \in [0 .. Len(s) -> Holds] /\ l[0] = h /\ l[Len(s)] = h
  BY <1>1, <1>2
<1>4. Along(s, l, N)
  BY <1>1, <1>2 DEF Along
<1>5. Path(s, h, h, N)
  BY <1>3, <1>4 DEF Path
<1>6. QED BY <1>2, <1>5

(* After a step, the bus is in one of its three states.                    *)
LEMMA AfterHolds == \A op, h : h \in Holds => After(op, h) \in Holds
BY DEF After, Holds

(* One step, which must find the bus taken if it is among N.               *)
LEMMA PathOne ==
  ASSUME NEW x, NEW h \in Holds, NEW N, x.op \in N => h # "free"
  PROVE  Path(<<x>>, h, After(x.op, h), N)
<1> DEFINE k == After(x.op, h)
           l == [i \in 0 .. 1 |-> IF i = 0 THEN h ELSE k]
           s == <<x>>
<1>1. k \in Holds
  BY AfterHolds
<1> HIDE DEF k
<1>2. l \in [0 .. 1 -> Holds] /\ l[0] = h /\ l[1] = k
  BY <1>1
<1>3. Len(s) = 1 /\ s[1] = x
  OBVIOUS
<1> HIDE DEF l, s
<1>4. Along(s, l, N)
  <2> SUFFICES ASSUME NEW i \in 1 .. Len(s)
               PROVE  l[i] = After(s[i].op, l[i - 1]) /\ (s[i].op \in N => l[i - 1] # "free")
    BY DEF Along
  <2>1. i = 1 /\ i - 1 = 0
    BY <1>3
  <2>2. QED BY <1>2, <1>3, <2>1 DEF k
<1>5. Path(s, h, k, N)
  BY <1>2, <1>3, <1>4 DEF Path
<1>6. QED BY <1>5 DEF s, k

(* A path after another is a path.                                         *)
LEMMA PathJoin ==
  ASSUME NEW s \in Seq(BusSteps), NEW t \in Seq(BusSteps), NEW h, NEW k, NEW j, NEW N,
         Path(s, h, k, N), Path(t, k, j, N)
  PROVE  Path(s \o t, h, j, N)
<1>1. PICK l \in [0 .. Len(s) -> Holds] : l[0] = h /\ l[Len(s)] = k /\ Along(s, l, N)
  BY DEF Path
<1>2. PICK m \in [0 .. Len(t) -> Holds] : m[0] = k /\ m[Len(t)] = j /\ Along(t, m, N)
  BY DEF Path
<1> PICK a, b, u : a = Len(s) /\ b = Len(t) /\ u = s \o t
  OBVIOUS
<1>3. /\ a \in Nat /\ b \in Nat /\ Len(u) = a + b
      /\ \A i \in 1 .. a + b : u[i] = IF i <= a THEN s[i] ELSE t[i - a]
  BY ConcatProperties
<1> DEFINE n == [i \in 0 .. a + b |-> IF i <= a THEN l[i] ELSE m[i - a]]
<1>4. n \in [0 .. a + b -> Holds]
  <2> SUFFICES ASSUME NEW i \in 0 .. a + b PROVE n[i] \in Holds
    OBVIOUS
  <2>1. CASE i <= a
    <3>1. i \in 0 .. a
      BY <1>3, <2>1
    <3>2. QED BY <2>1, <3>1
  <2>2. CASE ~(i <= a)
    <3>1. i - a \in 0 .. b
      BY <1>3, <2>2
    <3>2. QED BY <1>3, <2>2, <3>1
  <2>3. QED BY <2>1, <2>2
<1>5. n[0] = h
  BY <1>1, <1>3
<1>6. n[a + b] = j
  <2>1. CASE b = 0
    <3>1. a + b = a
      BY <1>3, <2>1
    <3>2. QED BY <1>1, <1>2, <1>3, <2>1, <3>1
  <2>2. CASE b # 0
    <3>1. ~(a + b <= a) /\ (a + b) - a = b /\ a + b \in 0 .. a + b
      BY <1>3, <2>2
    <3>2. QED BY <1>2, <3>1
  <2>3. QED BY <2>1, <2>2
<1>7. ASSUME NEW i \in 1 .. a + b
      PROVE  n[i] = After(u[i].op, n[i - 1]) /\ (u[i].op \in N => n[i - 1] # "free")
  <2>1. CASE i <= a
    <3>1. n[i] = l[i] /\ n[i - 1] = l[i - 1] /\ u[i] = s[i] /\ i \in 1 .. a
      BY <1>3, <2>1
    <3>2. l[i] = After(s[i].op, l[i - 1]) /\ (s[i].op \in N => l[i - 1] # "free")
      BY <1>1, <3>1 DEF Along
    <3>3. QED BY <3>1, <3>2
  <2>2. CASE ~(i <= a)
    <3>1. PICK d : d = i - a
      OBVIOUS
    <3>2. d \in 1 .. b /\ i \in 0 .. a + b /\ i - 1 \in 0 .. a + b
      BY <1>3, <2>2, <3>1
    <3>3. n[i] = m[d] /\ u[i] = t[d]
      BY <1>3, <2>2, <3>1, <3>2
    <3>4. n[i - 1] = m[d - 1]
      <4>1. CASE d = 1
        <5>1. i - 1 = a /\ d - 1 = 0
          BY <1>3, <3>1, <3>2, <4>1
        <5>2. QED BY <1>1, <1>2, <1>3, <3>2, <5>1
      <4>2. CASE d # 1
        <5>1. ~(i - 1 <= a) /\ (i - 1) - a = d - 1
          BY <1>3, <3>1, <3>2, <4>2
        <5>2. QED BY <3>2, <5>1
      <4>3. QED BY <4>1, <4>2
    <3>5. m[d] = After(t[d].op, m[d - 1]) /\ (t[d].op \in N => m[d - 1] # "free")
      BY <1>2, <3>2 DEF Along
    <3>6. QED BY <3>3, <3>4, <3>5
  <2>3. QED BY <2>1, <2>2
<1> HIDE DEF n
<1>8. Path(u, h, j, N)
  BY <1>3, <1>4, <1>5, <1>6, <1>7 DEF Path, Along
<1>9. QED BY <1>8

(* What is left of a path after its first step is a path.                  *)
LEMMA PathTail ==
  ASSUME NEW s \in Seq(BusSteps), s # <<>>, NEW h, NEW k, NEW N, Path(s, h, k, N)
  PROVE  /\ Head(s).op \in N => h # "free"
         /\ Path(Tail(s), After(Head(s).op, h), k, N)
<1>1. PICK l \in [0 .. Len(s) -> Holds] : l[0] = h /\ l[Len(s)] = k /\ Along(s, l, N)
  BY DEF Path
<1> PICK a, u, x : a = Len(s) /\ u = Tail(s) /\ x = Head(s)
  OBVIOUS
<1>2. a \in Nat \ {0} /\ Len(u) = a - 1 /\ x = s[1] /\ \A i \in 1 .. a - 1 : u[i] = s[i + 1]
  OBVIOUS
<1> DEFINE n == [i \in 0 .. a - 1 |-> l[i + 1]]
<1>3. n \in [0 .. a - 1 -> Holds]
  BY <1>2
<1>4. n[0] = After(x.op, h) /\ (x.op \in N => h # "free")
  <2>1. 1 \in 1 .. a /\ 1 - 1 = 0
    BY <1>2
  <2>2. n[0] = l[1]
    BY <1>2
  <2>3. l[1] = After(s[1].op, l[1 - 1]) /\ (s[1].op \in N => l[1 - 1] # "free")
    BY <1>1, <2>1 DEF Along
  <2>4. QED BY <1>1, <1>2, <2>1, <2>2, <2>3
<1>5. n[a - 1] = k
  <2>1. a - 1 \in 0 .. a - 1 /\ (a - 1) + 1 = a
    BY <1>2
  <2>2. QED BY <1>1, <2>1
<1>6. ASSUME NEW i \in 1 .. a - 1
      PROVE  n[i] = After(u[i].op, n[i - 1]) /\ (u[i].op \in N => n[i - 1] # "free")
  <2>1. i + 1 \in 1 .. a /\ (i + 1) - 1 = i /\ i \in 0 .. a - 1 /\ i - 1 \in 0 .. a - 1
        /\ (i - 1) + 1 = i
    BY <1>2
  <2>2. l[i + 1] = After(s[i + 1].op, l[(i + 1) - 1]) /\ (s[i + 1].op \in N => l[(i + 1) - 1] # "free")
    BY <1>1, <2>1 DEF Along
  <2>3. n[i] = l[i + 1] /\ n[i - 1] = l[i] /\ u[i] = s[i + 1]
    BY <1>2, <2>1
  <2>4. QED BY <2>1, <2>2, <2>3
<1> HIDE DEF n
<1>7. Path(u, After(x.op, h), k, N)
  BY <1>2, <1>3, <1>4, <1>5, <1>6 DEF Path, Along
<1>8. QED BY <1>4, <1>7

(* A path, and one step more.                                              *)
LEMMA PathMore ==
  ASSUME NEW s \in Seq(BusSteps), NEW x \in BusSteps, NEW h, NEW k \in Holds, NEW N,
         Path(s, h, k, N), x.op \in N => k # "free"
  PROVE  Path(s \o <<x>>, h, After(x.op, k), N) /\ s \o <<x>> \in Seq(BusSteps)
<1>1. Path(<<x>>, k, After(x.op, k), N)
  BY PathOne
<1>2. <<x>> \in Seq(BusSteps)
  OBVIOUS
<1>3. QED BY <1>1, <1>2, PathJoin, ConcatProperties

(* A tuple, one element after the other.                                   *)
LEMMA Tuples ==
  ASSUME NEW S, NEW a \in S, NEW b \in S, NEW c \in S, NEW d \in S
  PROVE  /\ <<a, b>> = <<a>> \o <<b>>
         /\ <<a, b, c>> = <<a, b>> \o <<c>>
         /\ <<a, b, c, d>> = <<a, b, c>> \o <<d>>
<1>1. ASSUME NEW u \in Seq(S), NEW w \in Seq(S), NEW e \in S, Len(w) = Len(u) + 1,
             \A i \in 1 .. Len(u) : w[i] = u[i], w[Len(u) + 1] = e
      PROVE  w = u \o <<e>>
  <2> PICK n, v : n = Len(u) /\ v = <<e>>
    OBVIOUS
  <2>1. n \in Nat /\ v \in Seq(S) /\ Len(v) = 1 /\ v[1] = e
    OBVIOUS
  <2> PICK x : x = u \o v
    OBVIOUS
  <2>2. /\ x \in Seq(S) /\ Len(x) = n + 1
        /\ \A i \in 1 .. n + 1 : x[i] = IF i <= n THEN u[i] ELSE v[i - n]
    BY <2>1, ConcatProperties
  <2>3. ASSUME NEW i \in 1 .. n + 1 PROVE w[i] = x[i]
    <3>1. CASE i <= n
      <4>1. i \in 1 .. n
        BY <2>1, <3>1
      <4>2. QED BY <1>1, <2>2, <3>1, <4>1
    <3>2. CASE ~(i <= n)
      <4>1. i = n + 1 /\ i - n = 1
        BY <2>1, <3>2
      <4>2. QED BY <1>1, <2>1, <2>2, <3>2, <4>1
    <3>3. QED BY <3>1, <3>2
  <2>4. w = x
    BY <1>1, <2>2, <2>3, SeqEqual
  <2>5. QED BY <2>4
<1>2. <<a, b>> = <<a>> \o <<b>>
  <2> PICK u, w : u = <<a>> /\ w = <<a, b>>
    OBVIOUS
  <2>1. /\ u \in Seq(S) /\ w \in Seq(S) /\ Len(u) = 1 /\ Len(w) = 2 /\ Len(u) + 1 = 2
        /\ w[1] = u[1] /\ w[2] = b
    OBVIOUS
  <2>2. \A i \in 1 .. Len(u) : w[i] = u[i]
    BY <2>1
  <2>3. Len(w) = Len(u) + 1 /\ w[Len(u) + 1] = b
    BY <2>1
  <2>4. w = u \o <<b>>
    BY <1>1, <2>1, <2>2, <2>3
  <2>5. QED BY <2>4
<1>3. <<a, b, c>> = <<a, b>> \o <<c>>
  <2> PICK u, w : u = <<a, b>> /\ w = <<a, b, c>>
    OBVIOUS
  <2>1. /\ u \in Seq(S) /\ w \in Seq(S) /\ Len(u) = 2 /\ Len(w) = 3 /\ Len(u) + 1 = 3
        /\ w[1] = u[1] /\ w[2] = u[2] /\ w[3] = c
    OBVIOUS
  <2>2. \A i \in 1 .. Len(u) : w[i] = u[i]
    BY <2>1
  <2>3. Len(w) = Len(u) + 1 /\ w[Len(u) + 1] = c
    BY <2>1
  <2>4. w = u \o <<c>>
    BY <1>1, <2>1, <2>2, <2>3
  <2>5. QED BY <2>4
<1>4. <<a, b, c, d>> = <<a, b, c>> \o <<d>>
  <2> PICK u, w : u = <<a, b, c>> /\ w = <<a, b, c, d>>
    OBVIOUS
  <2>1. /\ u \in Seq(S) /\ w \in Seq(S) /\ Len(u) = 3 /\ Len(w) = 4 /\ Len(u) + 1 = 4
        /\ w[1] = u[1] /\ w[2] = u[2] /\ w[3] = u[3] /\ w[4] = d
    OBVIOUS
  <2>2. \A i \in 1 .. Len(u) : w[i] = u[i]
    BY <2>1
  <2>3. Len(w) = Len(u) + 1 /\ w[Len(u) + 1] = d
    BY <2>1
  <2>4. w = u \o <<d>>
    BY <1>1, <2>1, <2>2, <2>3
  <2>5. QED BY <2>4
<1>5. QED BY <1>2, <1>3, <1>4

(* The same for two steps,                                                 *)
LEMMA Pair == \A a, b : <<a, b>> = <<a>> \o <<b>>
<1> TAKE a, b
<1> PICK S : S = {a, b}
  OBVIOUS
<1>1. a \in S /\ b \in S
  BY Zenon
<1>2. QED BY <1>1, Tuples

(* for three,                                                              *)
LEMMA Triple == \A a, b, c : <<a, b, c>> = <<a, b>> \o <<c>>
<1> TAKE a, b, c
<1> PICK S : S = {a, b, c}
  OBVIOUS
<1>1. a \in S /\ b \in S /\ c \in S
  BY Zenon
<1>2. QED BY <1>1, Tuples

(* and for four.                                                           *)
LEMMA Quadruple == \A a, b, c, d : <<a, b, c, d>> = <<a, b, c>> \o <<d>>
<1> TAKE a, b, c, d
<1> PICK S : S = {a, b, c, d}
  OBVIOUS
<1>1. a \in S /\ b \in S /\ c \in S /\ d \in S
  BY Zenon
<1>2. QED BY <1>1, Tuples

(* No step ends a shape; no step turns the screen.                         *)
Quiet(s) == \A i \in 1 .. Len(s) : s[i].op # "leave"
Plain(s) == \A i \in 1 .. Len(s) : s[i].op # "madctl"

(* What leaves the bus as it was, ends no shape and does not turn the      *)
(* screen.                                                                 *)
Calm ==
  {s \in Seq(BusSteps) : /\ Path(s, "free", "free", Guarded) /\ Path(s, "kept", "kept", Guarded)
                         /\ Quiet(s) /\ Plain(s)}

(* What sends.                                                             *)
Sending == {x \in BusSteps : x.op \in {"window", "words", "dot"}}

(* The steps that have no arguments.                                       *)
LEMMA Constants ==
  /\ Begin \in BusSteps /\ End \in BusSteps /\ Enter \in BusSteps /\ Leave \in BusSteps
      /\ Forget \in BusSteps
  /\ Begin.op = "begin" /\ End.op = "end" /\ Enter.op = "enter" /\ Leave.op = "leave"
      /\ Forget.op = "forget"
BY DEF Begin, End, Enter, Leave, Forget, BusSteps

(* What each step does to the bus.                                         *)
LEMMA Afters ==
  /\ \A h : After("begin", h) = IF h = "free" THEN "held" ELSE h
  /\ \A h : After("end", h) = IF h = "held" THEN "free" ELSE h
  /\ \A h : After("enter", h) = "kept"
  /\ \A h : After("leave", h) = IF h = "kept" THEN "held" ELSE h
  /\ \A h, op : op \in {"window", "words", "dot", "madctl", "forget"} => After(op, h) = h
  /\ "free" \in Holds /\ "held" \in Holds /\ "kept" \in Holds
BY DEF After, Holds

(* A transaction in which one thing is sent.                               *)
LEMMA BracketIs ==
  ASSUME NEW x \in Sending
  PROVE  <<Begin, x, End>> \in Calm /\ Path(<<Begin, x, End>>, "held", "free", Guarded)
<1> DEFINE s == <<Begin, x, End>>
<1>1. ASSUME NEW h \in Holds
      PROVE  Path(s, h, IF h = "kept" THEN "kept" ELSE "free", Guarded) /\ s \in Seq(BusSteps)
  <2> DEFINE k == After("begin", h)
  <2>1. k \in Holds /\ k # "free" /\ k = (IF h = "kept" THEN "kept" ELSE "held")
    BY Afters DEF Holds
  <2> HIDE DEF k
  <2>2. Path(<<Begin>>, h, k, Guarded) /\ <<Begin>> \in Seq(BusSteps)
    <3>1. Begin.op \notin Guarded
      BY Constants DEF Guarded
    <3>2. Path(<<Begin>>, h, After(Begin.op, h), Guarded)
      BY <3>1, PathOne
    <3>3. QED BY <3>2, Constants DEF k
  <2>3. Path(<<Begin>> \o <<x>>, h, k, Guarded) /\ <<Begin>> \o <<x>> \in Seq(BusSteps)
    <3>1. After(x.op, k) = k /\ x \in BusSteps
      BY Afters DEF Sending
    <3>2. Path(<<Begin>> \o <<x>>, h, After(x.op, k), Guarded)
          /\ <<Begin>> \o <<x>> \in Seq(BusSteps)
      BY <2>1, <2>2, <3>1, PathMore
    <3>3. QED BY <3>1, <3>2
  <2>4. <<Begin, x>> = <<Begin>> \o <<x>> /\ s = <<Begin, x>> \o <<End>>
    <3>1. x \in BusSteps
      BY DEF Sending
    <3>2. <<Begin, x>> = <<Begin>> \o <<x>>
      BY <3>1, Pair, Constants, Zenon
    <3>3. <<Begin, x, End>> = <<Begin, x>> \o <<End>>
      BY <3>1, Triple, Constants, Zenon
    <3>4. QED BY <3>2, <3>3, Zenon
  <2> PICK u : u = <<Begin, x>>
    OBVIOUS
  <2>5. Path(u, h, k, Guarded) /\ u \in Seq(BusSteps)
    BY <2>3, <2>4
  <2>6. Path(u \o <<End>>, h, After(End.op, k), Guarded) /\ u \o <<End>> \in Seq(BusSteps)
    BY <2>1, <2>5, Constants, PathMore DEF Guarded
  <2>7. After(End.op, k) = IF h = "kept" THEN "kept" ELSE "free"
    BY <2>1, Afters, Constants
  <2>8. QED BY <2>4, <2>6, <2>7
<1>2. Quiet(s) /\ Plain(s)
  <2>1. Len(s) = 3 /\ s[1] = Begin /\ s[2] = x /\ s[3] = End
    OBVIOUS
  <2> HIDE DEF s
  <2>2. \A i \in 1 .. Len(s) : i = 1 \/ i = 2 \/ i = 3
    BY <2>1
  <2>3. Begin.op = "begin" /\ End.op = "end" /\ x.op \in {"window", "words", "dot"}
    BY Constants DEF Sending
  <2>4. QED BY <2>1, <2>2, <2>3 DEF Quiet, Plain
<1> HIDE DEF s
<1>3. Path(s, "free", "free", Guarded) /\ Path(s, "kept", "kept", Guarded)
      /\ Path(s, "held", "free", Guarded) /\ s \in Seq(BusSteps)
  BY <1>1, Afters
<1>4. s \in Calm
  BY <1>2, <1>3 DEF Calm
<1>5. QED BY <1>3, <1>4 DEF s

(* A window and its pixels, in a transaction of their own: spi_begin(),    *)
(* setAddrWindow(), the pixels, spi_end().                                 *)
LEMMA SentIs ==
  ASSUME NEW x \in Sending, NEW n \in Int
  PROVE  Sent(x, n) \in Calm /\ Path(Sent(x, n), "held", "free", Guarded)
<1> DEFINE s == <<Begin, x, Words(n), End>>
           y == Words(n)
<1>0. y \in BusSteps /\ y.op = "words"
  BY DEF Words, BusSteps
<1> HIDE DEF y
<1>1. ASSUME NEW h \in Holds
      PROVE  Path(s, h, IF h = "kept" THEN "kept" ELSE "free", Guarded) /\ s \in Seq(BusSteps)
  <2> DEFINE k == After("begin", h)
  <2>1. k \in Holds /\ k # "free" /\ k = (IF h = "kept" THEN "kept" ELSE "held")
    BY Afters DEF Holds
  <2> HIDE DEF k
  <2>2. Path(<<Begin>>, h, k, Guarded) /\ <<Begin>> \in Seq(BusSteps)
    <3>1. Begin.op \notin Guarded
      BY Constants DEF Guarded
    <3>2. Path(<<Begin>>, h, After(Begin.op, h), Guarded)
      BY <3>1, PathOne
    <3>3. QED BY <3>2, Constants DEF k
  <2>3. Path(<<Begin>> \o <<x>>, h, k, Guarded) /\ <<Begin>> \o <<x>> \in Seq(BusSteps)
    <3>1. After(x.op, k) = k /\ x \in BusSteps
      BY Afters DEF Sending
    <3>2. Path(<<Begin>> \o <<x>>, h, After(x.op, k), Guarded)
          /\ <<Begin>> \o <<x>> \in Seq(BusSteps)
      BY <2>1, <2>2, <3>1, PathMore
    <3>3. QED BY <3>1, <3>2
  <2> PICK u, v, w : u = <<Begin, x>> /\ v = <<Begin, x, y>> /\ w = <<Begin, x, y, End>>
    OBVIOUS
  <2>4. u = <<Begin>> \o <<x>> /\ v = u \o <<y>> /\ w = v \o <<End>> /\ s = w
    <3>1. x \in BusSteps
      BY DEF Sending
    <3>2. <<Begin, x>> = <<Begin>> \o <<x>>
      BY <3>1, Pair, Constants, Zenon
    <3>3. y \in BusSteps /\ Begin \in BusSteps /\ End \in BusSteps
      BY <1>0, Constants
    <3>4. <<Begin, x, y>> = <<Begin, x>> \o <<y>>
      BY <3>1, <3>3, Triple, Zenon
    <3>5. <<Begin, x, y, End>> = <<Begin, x, y>> \o <<End>>
      BY <3>1, <3>3, Quadruple, Zenon
    <3>6. QED BY <3>2, <3>4, <3>5, Zenon DEF y
  <2>5. Path(u, h, k, Guarded) /\ u \in Seq(BusSteps)
    BY <2>3, <2>4
  <2>6. Path(v, h, k, Guarded) /\ v \in Seq(BusSteps)
    <3>1. After(y.op, k) = k
      BY <1>0, Afters
    <3>2. Path(u \o <<y>>, h, After(y.op, k), Guarded) /\ u \o <<y>> \in Seq(BusSteps)
      BY <1>0, <2>1, <2>5, PathMore
    <3>3. QED BY <2>4, <3>1, <3>2
  <2>7. Path(v \o <<End>>, h, After(End.op, k), Guarded) /\ v \o <<End>> \in Seq(BusSteps)
    BY <2>1, <2>6, Constants, PathMore DEF Guarded
  <2>8. After(End.op, k) = IF h = "kept" THEN "kept" ELSE "free"
    BY <2>1, Afters, Constants
  <2>9. QED BY <2>4, <2>7, <2>8
<1>2. Quiet(s) /\ Plain(s)
  <2>1. Len(s) = 4 /\ s[1] = Begin /\ s[2] = x /\ s[3] = y /\ s[4] = End
    BY DEF y
  <2> HIDE DEF s
  <2>2. \A i \in 1 .. Len(s) : i = 1 \/ i = 2 \/ i = 3 \/ i = 4
    BY <2>1
  <2>3. Begin.op = "begin" /\ End.op = "end" /\ x.op \in {"window", "words", "dot"}
        /\ y.op = "words"
    BY <1>0, Constants DEF Sending
  <2>4. QED BY <2>1, <2>2, <2>3 DEF Quiet, Plain
<1> HIDE DEF s
<1>3. Path(s, "free", "free", Guarded) /\ Path(s, "kept", "kept", Guarded)
      /\ Path(s, "held", "free", Guarded) /\ s \in Seq(BusSteps)
  BY <1>1, Afters
<1>4. s \in Calm
  BY <1>2, <1>3 DEF Calm
<1>5. Sent(x, n) = s
  BY DEF Sent, s
<1>6. QED BY <1>3, <1>4, <1>5

(* Nothing leaves the transaction of a shape in two pieces of which        *)
(* neither does.                                                           *)
LEMMA QuietJoin ==
  ASSUME NEW s \in Seq(BusSteps), NEW t \in Seq(BusSteps), Quiet(s), Quiet(t)
  PROVE  Quiet(s \o t)
<1> PICK a, b, u : a = Len(s) /\ b = Len(t) /\ u = s \o t
  OBVIOUS
<1>1. /\ a \in Nat /\ b \in Nat /\ Len(u) = a + b
      /\ \A i \in 1 .. a + b : u[i] = IF i <= a THEN s[i] ELSE t[i - a]
  BY ConcatProperties
<1>2. ASSUME NEW i \in 1 .. a + b PROVE u[i].op # "leave"
  <2>1. CASE i <= a
    <3>1. i \in 1 .. a /\ u[i] = s[i]
      BY <1>1, <2>1
    <3>2. QED BY <3>1 DEF Quiet
  <2>2. CASE ~(i <= a)
    <3>1. i - a \in 1 .. b /\ u[i] = t[i - a]
      BY <1>1, <2>2
    <3>2. QED BY <3>1 DEF Quiet
  <2>3. QED BY <2>1, <2>2
<1>3. Quiet(u)
  BY <1>1, <1>2 DEF Quiet
<1>4. QED BY <1>3

(* Nothing turns the screen in two pieces of which neither does.           *)
LEMMA PlainJoin ==
  ASSUME NEW s \in Seq(BusSteps), NEW t \in Seq(BusSteps), Plain(s), Plain(t)
  PROVE  Plain(s \o t)
<1> PICK a, b, u : a = Len(s) /\ b = Len(t) /\ u = s \o t
  OBVIOUS
<1>1. /\ a \in Nat /\ b \in Nat /\ Len(u) = a + b
      /\ \A i \in 1 .. a + b : u[i] = IF i <= a THEN s[i] ELSE t[i - a]
  BY ConcatProperties
<1>2. ASSUME NEW i \in 1 .. a + b PROVE u[i].op # "madctl"
  <2>1. CASE i <= a
    <3>1. i \in 1 .. a /\ u[i] = s[i]
      BY <1>1, <2>1
    <3>2. QED BY <3>1 DEF Plain
  <2>2. CASE ~(i <= a)
    <3>1. i - a \in 1 .. b /\ u[i] = t[i - a]
      BY <1>1, <2>2
    <3>2. QED BY <3>1 DEF Plain
  <2>3. QED BY <2>1, <2>2
<1>3. Plain(u)
  BY <1>1, <1>2 DEF Plain
<1>4. QED BY <1>3

(* Calm pieces, one after the other, are calm.                             *)
LEMMA CalmClosed == <<>> \in Calm /\ \A s, t \in Calm : s \o t \in Calm
<1>1. <<>> \in Calm
  <2>1. PICK s : s = <<>>
    OBVIOUS
  <2>2. s \in Seq(BusSteps) /\ Len(s) = 0
    BY <2>1, EmptySeq
  <2>3. Path(s, "free", "free", Guarded) /\ Path(s, "kept", "kept", Guarded)
    BY <2>1, PathEmpty, Afters
  <2>4. Quiet(s) /\ Plain(s)
    BY <2>2 DEF Quiet, Plain
  <2>5. s \in Calm
    BY <2>2, <2>3, <2>4 DEF Calm
  <2>6. QED BY <2>1, <2>5
<1>2. ASSUME NEW s \in Calm, NEW t \in Calm PROVE s \o t \in Calm
  <2>1. /\ s \in Seq(BusSteps) /\ Path(s, "free", "free", Guarded)
        /\ Path(s, "kept", "kept", Guarded)
        /\ t \in Seq(BusSteps) /\ Path(t, "free", "free", Guarded)
            /\ Path(t, "kept", "kept", Guarded)
        /\ Quiet(s) /\ Quiet(t) /\ Plain(s) /\ Plain(t)
    BY DEF Calm
  <2> PICK u : u = s \o t
    OBVIOUS
  <2>2. Path(u, "free", "free", Guarded) /\ Path(u, "kept", "kept", Guarded)
    BY <2>1, PathJoin
  <2>3. u \in Seq(BusSteps) /\ Quiet(u) /\ Plain(u)
    BY <2>1, ConcatProperties, QuietJoin, PlainJoin
  <2>4. u \in Calm
    BY <2>2, <2>3 DEF Calm
  <2>5. QED BY <2>4
<1>3. QED BY <1>1, <1>2

(* The size of the screen, whichever way it is turned.                     *)
LEMMA Sizes == rotation \in 0 .. 7 => _width \in 1 .. 1000 /\ _height \in 1 .. 1000
BY ScreenAssumption DEF _width, _height, Width, Height

(* A window is a step that sends.                                          *)
LEMMA WindowIs ==
  ASSUME NEW a \in Int, NEW b \in Int, NEW c \in Int, NEW d \in Int
  PROVE  Window(a, b, c, d) \in Sending
BY DEF Window, Sending, BusSteps

(* drawPixel(), drawFastVLine(), drawFastHLine() and fillRect() leave the  *)
(* bus as it was, or give it back where it was taken but not kept.         *)
LEMMA PrimitiveIs ==
  ASSUME rotation \in 0 .. 7, NEW p \in Prims
  PROVE  /\ Primitive(p) \in Calm
         /\ \E k \in {"held", "free"} : Path(Primitive(p), "held", k, Guarded)
<1> PICK W, H : W = _width /\ H = _height
  OBVIOUS
<1>1. W \in Nat /\ H \in Nat
  BY Sizes
<1>2. p.x \in Int /\ p.y \in Int /\ p.w \in Int /\ p.h \in Int
  BY DEF Prims
<1>3. CASE ~Seen(p)
  <2>1. Primitive(p) = <<>>
    BY <1>3 DEF Primitive
  <2>2. Path(<<>>, "held", "held", Guarded)
    BY PathEmpty, Afters
  <2>3. QED BY <2>1, <2>2, CalmClosed
<1>4. CASE Seen(p) /\ p.op = "pixel"
  <2> PICK x : x = Dot(p.x, p.y)
    OBVIOUS
  <2>1. p.x >= 0 /\ p.y >= 0
    BY <1>4 DEF Seen
  <2>2. x \in Sending
    BY <1>2, <2>1 DEF Dot, Sending, BusSteps
  <2>3. Primitive(p) = <<Begin, x, End>>
    BY <1>4 DEF Primitive
  <2>4. QED BY <2>2, <2>3, BracketIs
<1>5. CASE Seen(p) /\ p.op # "pixel"
  <2> DEFINE q == Clipped(p)
  <2>1. q.x \in Int /\ q.y \in Int /\ q.w \in Int /\ q.h \in Int
    <3>1. /\ W - p.x \in Int /\ H - p.y \in Int
      BY <1>1, <1>2
    <3>2. q.x = p.x /\ q.y = p.y /\ q.w \in {W - p.x, p.w} /\ q.h \in {H - p.y, p.h}
      BY DEF Clipped, Prims
    <3>3. QED BY <1>2, <3>1, <3>2
  <2>2. Primitive(p) = Sent(WindowOf(q), q.w * q.h)
    BY <1>5 DEF Primitive
  <2> HIDE DEF q
  <2>3. WindowOf(q) \in Sending
    <3>1. q.x + q.w - 1 \in Int /\ q.y + q.h - 1 \in Int
      BY <2>1
    <3>2. QED BY <2>1, <3>1, WindowIs DEF WindowOf
  <2>4. q.w * q.h \in Int
    BY <2>1
  <2>5. QED BY <2>2, <2>3, <2>4, SentIs
<1>6. QED BY <1>3, <1>4, <1>5

(* So do any number of them.                                               *)
LEMMA DrawIs ==
  ASSUME rotation \in 0 .. 7, NEW prims \in Seq(Prims)
  PROVE  Draw(prims) \in Calm
<1> DEFINE ss == [i \in DOMAIN prims |-> Primitive(prims[i])]
<1>1. DOMAIN prims = 1 .. Len(prims) /\ Len(prims) \in Nat /\ \A i \in DOMAIN prims : prims[i] \in Prims
  OBVIOUS
<1>2. ss \in [1 .. Len(prims) -> Calm]
  BY <1>1, PrimitiveIs
<1>3. ss \in Seq(Calm)
  BY <1>1, <1>2, SeqDef
<1>4. FlattenSeq(ss) \in Calm
  <2> HIDE DEF ss
  <2>1. QED BY <1>3, CalmClosed, FlattenClosed
<1>5. QED BY <1>4 DEF Draw

(* Where a call that began at h may leave the bus: given back, or kept as  *)
(* an earlier one left it                                                  *)
Returns(s, h, k, N) ==
  /\ s \in Seq(BusSteps) /\ k \in {"free", "kept"} /\ Path(s, h, k, N)
  /\ k = "kept" => Quiet(s)

(* What is calm returns with the bus as it was.                            *)
LEMMA CalmReturns ==
  ASSUME NEW s \in Calm, NEW h \in {"free", "kept"}
  PROVE  Returns(s, h, h, Guarded) /\ Plain(s)
BY DEF Calm, Returns

(* How a shape begins: it takes the bus and keeps it.                      *)
LEMMA Opens ==
  ASSUME NEW h \in {"free", "kept"}
  PROVE  /\ Path(<<Begin, Enter>>, h, "kept", Guarded) /\ <<Begin, Enter>> \in Seq(BusSteps)
         /\ Plain(<<Begin, Enter>>) /\ Quiet(<<Begin, Enter>>)
<1> DEFINE k == After("begin", h)
<1>1. k \in Holds /\ k # "free" /\ h \in Holds
  BY Afters DEF Holds
<1>2. Path(<<Begin>>, h, k, Guarded) /\ <<Begin>> \in Seq(BusSteps)
  <2>1. Begin.op \notin Guarded
    BY Constants DEF Guarded
  <2>2. Path(<<Begin>>, h, After(Begin.op, h), Guarded)
    BY <1>1, <2>1, PathOne
  <2>3. QED BY <2>2, Constants
<1> HIDE DEF k
<1>3. Path(<<Begin>> \o <<Enter>>, h, After(Enter.op, k), Guarded)
      /\ <<Begin>> \o <<Enter>> \in Seq(BusSteps)
  BY <1>1, <1>2, Constants, PathMore
<1>4. After(Enter.op, k) = "kept"
  BY Afters, Constants
<1> PICK s : s = <<Begin, Enter>>
  OBVIOUS
<1>5. s = <<Begin>> \o <<Enter>>
  <2>1. Begin \in BusSteps /\ Enter \in BusSteps
    BY Constants
  <2>2. <<Begin, Enter>> = <<Begin>> \o <<Enter>>
    BY <2>1, Pair, Zenon
  <2>3. QED BY <2>2
<1>6. Plain(s) /\ Quiet(s)
  <2>1. Len(s) = 2 /\ s[1] = Begin /\ s[2] = Enter
    OBVIOUS
  <2>2. \A i \in 1 .. Len(s) : i = 1 \/ i = 2
    BY <2>1
  <2>3. QED BY <2>1, <2>2, Constants DEF Plain, Quiet
<1>7. QED BY <1>3, <1>4, <1>5, <1>6

(* How a shape ends: it gives the bus back, also where an inner shape has  *)
(* given it back already.                                                  *)
LEMMA Closes ==
  /\ Path(<<Leave, End>>, "kept", "free", Guarded) /\ Path(<<Leave, End>>, "free", "free", Guarded)
  /\ <<Leave, End>> \in Seq(BusSteps) /\ Plain(<<Leave, End>>)
<1> PICK s : s = <<Leave, End>>
  OBVIOUS
<1>1. s = <<Leave>> \o <<End>>
  <2>1. Leave \in BusSteps /\ End \in BusSteps
    BY Constants
  <2>2. <<Leave, End>> = <<Leave>> \o <<End>>
    BY <2>1, Pair, Zenon
  <2>3. QED BY <2>2
<1>2. ASSUME NEW h \in {"free", "kept"}
      PROVE  Path(s, h, "free", Guarded) /\ s \in Seq(BusSteps)
  <2> DEFINE k == After("leave", h)
  <2>1. k \in Holds /\ h \in Holds /\ After("end", k) = "free"
    BY Afters DEF Holds
  <2>2. Path(<<Leave>>, h, k, Guarded) /\ <<Leave>> \in Seq(BusSteps)
    <3>1. Leave.op \notin Guarded
      BY Constants DEF Guarded
    <3>2. Path(<<Leave>>, h, After(Leave.op, h), Guarded)
      BY <2>1, <3>1, PathOne
    <3>3. QED BY <3>2, Constants
  <2> HIDE DEF k
  <2>3. Path(<<Leave>> \o <<End>>, h, After(End.op, k), Guarded)
        /\ <<Leave>> \o <<End>> \in Seq(BusSteps)
    BY <2>1, <2>2, Constants, PathMore DEF Guarded
  <2>4. QED BY <1>1, <2>1, <2>3, Constants
<1>3. Plain(s)
  <2>1. Len(s) = 2 /\ s[1] = Leave /\ s[2] = End
    OBVIOUS
  <2>2. \A i \in 1 .. Len(s) : i = 1 \/ i = 2
    BY <2>1
  <2>3. QED BY <2>1, <2>2, Constants DEF Plain
<1>4. QED BY <1>2, <1>3

(* A piece of a call, which does not turn the screen.                      *)
Piece(s, h, k) == s \in Seq(BusSteps) /\ Path(s, h, k, Guarded) /\ Plain(s)

(* Pieces follow each other where one ends as the next begins.             *)
LEMMA PieceJoin ==
  ASSUME NEW s, NEW t, NEW h, NEW k, NEW j, Piece(s, h, k), Piece(t, k, j)
  PROVE  Piece(s \o t, h, j)
<1> PICK u : u = s \o t
  OBVIOUS
<1>1. /\ s \in Seq(BusSteps) /\ Path(s, h, k, Guarded) /\ Plain(s)
      /\ t \in Seq(BusSteps) /\ Path(t, k, j, Guarded) /\ Plain(t)
  BY DEF Piece
<1>2. Path(u, h, j, Guarded) /\ Plain(u) /\ u \in Seq(BusSteps)
  BY <1>1, PathJoin, PlainJoin, ConcatProperties
<1>3. QED BY <1>2 DEF Piece

(* What is calm is a piece that changes nothing.                           *)
LEMMA CalmPiece ==
  ASSUME NEW s \in Calm, NEW h \in {"free", "kept"} PROVE Piece(s, h, h)
BY DEF Calm, Piece

(* A shape takes the bus for all its primitives and gives it back.         *)
LEMMA ShapeIs ==
  ASSUME rotation \in 0 .. 7, NEW prims \in Seq(Prims), NEW h \in {"free", "kept"}
  PROVE  Piece(Shape(prims), h, "free")
<1> PICK a, b, c : a = <<Begin, Enter>> /\ b = Draw(prims) /\ c = <<Leave, End>>
  OBVIOUS
<1>1. Piece(a, h, "kept")
  BY Opens DEF Piece
<1>2. Piece(b, "kept", "kept")
  BY DrawIs, CalmPiece
<1>3. Piece(c, "kept", "free")
  BY Closes DEF Piece
<1>4. Piece(a \o b, h, "kept")
  BY <1>1, <1>2, PieceJoin
<1> PICK d : d = a \o b
  OBVIOUS
<1>5. Piece(d \o c, h, "free")
  BY <1>3, <1>4, PieceJoin
<1>6. Shape(prims) = d \o c
  BY DEF Shape
<1>7. QED BY <1>5, <1>6

(* drawTriangle(): the first of its lines gives the bus back, the others   *)
(* take it again, and what is sent is sent in between.                     *)
LEMMA TriangleIs ==
  ASSUME rotation \in 0 .. 7, NEW p, NEW q, NEW r, NEW h \in {"free", "kept"},
         drawLine(p[1], p[2], q[1], q[2]) \in Seq(Prims),
         drawLine(q[1], q[2], r[1], r[2]) \in Seq(Prims),
         drawLine(r[1], r[2], p[1], p[2]) \in Seq(Prims)
  PROVE  Piece(TriangleLines(p, q, r), h, "free")
<1> PICK a, b, c, d, e : /\ a = <<Begin, Enter>> /\ e = <<Leave, End>>
                         /\ b = Shape(drawLine(p[1], p[2], q[1], q[2]))
                         /\ c = Shape(drawLine(q[1], q[2], r[1], r[2]))
                         /\ d = Shape(drawLine(r[1], r[2], p[1], p[2]))
  OBVIOUS
<1>1. Piece(a, h, "kept") /\ Piece(e, "free", "free")
  BY Opens, Closes DEF Piece
<1>2. Piece(b, "kept", "free") /\ Piece(c, "free", "free") /\ Piece(d, "free", "free")
  BY ShapeIs
<1> PICK ab : ab = a \o b
  OBVIOUS
<1> PICK abc : abc = ab \o c
  OBVIOUS
<1> PICK abcd : abcd = abc \o d
  OBVIOUS
<1>3. Piece(ab, h, "free")
  BY <1>1, <1>2, PieceJoin
<1>4. Piece(abc, h, "free")
  BY <1>2, <1>3, PieceJoin
<1>5. Piece(abcd, h, "free")
  BY <1>2, <1>4, PieceJoin
<1>6. Piece(abcd \o e, h, "free")
  BY <1>1, <1>5, PieceJoin
<1>7. TriangleLines(p, q, r) = abcd \o e
  BY DEF TriangleLines
<1>8. QED BY <1>6, <1>7

(* The early return of fillTriangle() leaves the bus taken and kept.       *)
LEMMA FlatIs ==
  ASSUME rotation \in 0 .. 7, NEW prims \in Seq(Prims), NEW h \in {"free", "kept"}
  PROVE  Returns(<<Begin, Enter>> \o Draw(prims), h, "kept", Guarded)
      /\ Plain(<<Begin, Enter>> \o Draw(prims))
<1> PICK a, b : a = <<Begin, Enter>> /\ b = Draw(prims)
  OBVIOUS
<1>1. a \in Seq(BusSteps) /\ b \in Seq(BusSteps) /\ Quiet(a) /\ Quiet(b) /\ b \in Calm
  BY Opens, DrawIs DEF Calm
<1>2. Piece(a \o b, h, "kept")
  <2>1. Piece(a, h, "kept")
    BY Opens DEF Piece
  <2>2. Piece(b, "kept", "kept")
    BY <1>1, CalmPiece
  <2>3. QED BY <2>1, <2>2, PieceJoin
<1>3. Quiet(a \o b)
  BY <1>1, QuietJoin
<1> PICK u : u = a \o b
  OBVIOUS
<1>4. Returns(u, h, "kept", Guarded) /\ Plain(u)
  BY <1>2, <1>3 DEF Returns, Piece
<1>5. QED BY <1>4

(* A piece that gives the bus back returns.                                *)
LEMMA PieceReturns ==
  ASSUME NEW s, NEW h, Piece(s, h, "free") PROVE Returns(s, h, "free", Guarded) /\ Plain(s)
BY DEF Piece, Returns

(* Pixels are a step that sends.                                           *)
LEMMA WordsIs == ASSUME NEW n \in Int PROVE Words(n) \in Sending
BY DEF Words, Sending, BusSteps

(* drawChar() of font 1 leaves the bus as it was.                          *)
LEMMA CellIs ==
  ASSUME NEW x \in Int, NEW y \in Int PROVE Cell(x, y) \in Calm
<1>1. x + 5 \in Int /\ y + 8 \in Int /\ 48 \in Int
  OBVIOUS
<1>2. Window(x, y, x + 5, y + 8) \in Sending
  BY <1>1, WindowIs
<1>3. Sent(Window(x, y, x + 5, y + 8), 48) \in Calm
  BY <1>1, <1>2, SentIs
<1>4. QED BY <1>3, CalmClosed DEF Cell

(* A rectangle of pixels leaves the bus as it was.                         *)
LEMMA AreaSent ==
  ASSUME NEW p, p.x \in Int, p.y \in Int, p.w \in Int, p.h \in Int
  PROVE  WindowOf(p) \in Sending /\ Sent(WindowOf(p), p.w * p.h) \in Calm
<1>1. p.x + p.w - 1 \in Int /\ p.y + p.h - 1 \in Int /\ p.w * p.h \in Int
  OBVIOUS
<1>2. WindowOf(p) \in Sending
  BY <1>1, WindowIs DEF WindowOf
<1>3. QED BY <1>1, <1>2, SentIs

(* setWindow() and the parts of an image leave the bus as it was.          *)
LEMMA ImageIs ==
  ASSUME NEW p \in Prims, NEW parts \in Seq(Nat) PROVE Image(p, parts) \in Calm
<1>1. <<Begin, WindowOf(p), End>> \in Calm
  BY AreaSent, BracketIs DEF Prims
<1> DEFINE ss == [i \in DOMAIN parts |-> <<Begin, Words(parts[i]), End>>]
<1>2. /\ DOMAIN parts = 1 .. Len(parts) /\ Len(parts) \in Nat
      /\ \A i \in DOMAIN parts : parts[i] \in Int
  OBVIOUS
<1>3. \A i \in DOMAIN parts : <<Begin, Words(parts[i]), End>> \in Calm
  BY <1>2, WordsIs, BracketIs
<1>4. ss \in Seq(Calm)
  BY <1>2, <1>3, SeqDef
<1>5. FlattenSeq(ss) \in Calm
  <2> HIDE DEF ss
  <2>1. QED BY <1>4, CalmClosed, FlattenClosed
<1> PICK a, b : a = <<Begin, WindowOf(p), End>> /\ b = FlattenSeq(ss)
  OBVIOUS
<1>6. a \o b \in Calm
  BY <1>1, <1>5, CalmClosed, Zenon
<1>7. Image(p, parts) = a \o b
  BY DEF Image
<1>8. QED BY <1>6, <1>7

(* The blocks of a picture.                                                *)
BlockRecords == [left : Int, top : Int, right : Int, bottom : Int]

(* A function on 1 .. n is a sequence.                                     *)
LEMMA IsSeq == ASSUME NEW S, NEW n \in Nat, NEW f \in [1 .. n -> S] PROVE f \in Seq(S)
BY SeqDef

(* The blocks of a picture have numbers for their sides.                   *)
LEMMA BlocksAre ==
  ASSUME NEW c, c.jpgW \in Nat, c.jpgH \in Nat, c.block \in Nat \ {0}
  PROVE  Blocks(c) \in Seq(BlockRecords)
<1> PICK W, H, B : W = c.jpgW /\ H = c.jpgH /\ B = c.block
  OBVIOUS
<1> PICK m, n : m = (W + B - 1) \div B /\ n = (H + B - 1) \div B
  OBVIOUS
<1>1. W \in Nat /\ H \in Nat /\ B \in Nat \ {0} /\ W + B - 1 \in Nat /\ H + B - 1 \in Nat
  OBVIOUS
<1>2. m \in Nat /\ n \in Nat
  BY <1>1
<1>3. m * n \in Nat
  BY <1>2
<1> DEFINE block(i) ==
      LET left == B * ((i - 1) % m)
          top == B * ((i - 1) \div m)
      IN  [left |-> left, top |-> top, right |-> Least(left + B, W) - 1, bottom |-> Least(top + B, H) - 1]
<1>4. ASSUME NEW i \in 1 .. m * n PROVE block(i) \in BlockRecords
  <2>1. m # 0
    <3>1. m = 0 => m * n = 0
      BY <1>2
    <3>2. QED BY <1>3, <3>1
  <2> PICK q, r : q = (i - 1) % m /\ r = (i - 1) \div m
    OBVIOUS
  <2>2. q \in Int /\ r \in Int
    <3>1. i - 1 \in Int /\ m \in Nat \ {0}
      BY <1>2, <2>1
    <3>2. QED BY <3>1
  <2> PICK x, y : x = B * q /\ y = B * r
    OBVIOUS
  <2>3. x \in Int /\ y \in Int
    BY <1>1, <2>2
  <2>4. Least(x + B, W) - 1 \in Int /\ Least(y + B, H) - 1 \in Int
    BY <1>1, <2>3 DEF Least
  <2>5. block(i) = [left |-> x, top |-> y, right |-> Least(x + B, W) - 1, bottom |-> Least(y + B, H) - 1]
    OBVIOUS
  <2>6. QED BY <2>3, <2>4, <2>5 DEF BlockRecords
<1>5. Blocks(c) = [i \in 1 .. m * n |-> block(i)]
  BY DEF Blocks
<1> HIDE DEF block
<1>6. Blocks(c) \in [1 .. m * n -> BlockRecords]
  BY <1>4, <1>5
<1> PICK N, bs : N = m * n /\ bs = Blocks(c)
  OBVIOUS
<1>7. N \in Nat /\ bs \in [1 .. N -> BlockRecords]
  BY <1>3, <1>6
<1>8. bs \in Seq(BlockRecords)
  BY <1>7, IsSeq, Zenon
<1>9. QED BY <1>8

(* jpgWrite() leaves the bus as it was, for any block.                     *)
LEMMA BlockSent ==
  ASSUME NEW j, j.x \in Int, j.y \in Int, j.offX \in Int, j.offY \in Int, j.outW \in Int, j.outH \in Int,
         NEW b \in BlockRecords
  PROVE  jpgWrite(j, b) \in Calm
<1>1. b.left \in Int /\ b.top \in Int /\ b.right \in Int /\ b.bottom \in Int
  BY DEF BlockRecords
<1> PICK l, r, t, u, x0, y0, ox, oy, ow, oh :
      /\ l = b.left /\ r = b.right /\ t = b.top /\ u = b.bottom /\ x0 = j.x /\ y0 = j.y
      /\ ox = j.offX /\ oy = j.offY /\ ow = j.outW /\ oh = j.outH
  OBVIOUS
<1> DEFINE above == IF t < oy THEN oy - t ELSE 0
           below == IF u >= oy + oh THEN u + 1 - (oy + oh) ELSE 0
           before == IF l < ox THEN ox - l ELSE 0
           beyond == IF r >= ox + ow THEN r + 1 - (ox + ow) ELSE 0
           w == r + 1 - l - before - beyond
           h == u + 1 - t - above - below
           x == l - ox + x0 + before
           y == t + above - oy + y0
           sent == Sent(Window(x, y, x + w - 1, y + h - 1), w * h)
<1>2. w \in Int /\ h \in Int /\ x \in Int /\ y \in Int
  BY <1>1
<1>3. jpgWrite(j, b) \in {<<>>, sent}
  <2>1. CutOff(j, b) = [left |-> before, right |-> beyond]
    BY DEF CutOff
  <2>2. CutOff(j, b).left = before /\ CutOff(j, b).right = beyond
    BY <2>1
  <2> HIDE DEF before, beyond
  <2>3. QED BY <2>2 DEF jpgWrite
<1> HIDE DEF w, h, x, y
<1>4. x + w - 1 \in Int /\ y + h - 1 \in Int /\ w * h \in Int
  BY <1>2
<1>5. sent \in Calm
  BY <1>2, <1>4, WindowIs, SentIs
<1>6. QED BY <1>3, <1>5, CalmClosed

(* So does drawJpgFile().                                                  *)
LEMMA JpegIs ==
  ASSUME rotation \in 0 .. 7, NEW c,
         c.x \in Int, c.y \in Int, c.maxW \in Nat, c.maxH \in Nat, c.jpgW \in Nat, c.jpgH \in Nat,
         c.offX \in Nat, c.offY \in Nat, c.block \in Nat \ {0}
  PROVE  Jpeg(c) \in Calm
<1> DEFINE ss == [i \in DOMAIN Blocks(c) |-> jpgWrite(Wanted(c), Blocks(c)[i])]
<1> PICK bs : bs = Blocks(c)
  OBVIOUS
<1>1. bs \in Seq(BlockRecords)
  BY BlocksAre
<1> PICK j : j = Wanted(c)
  OBVIOUS
<1>2. /\ j.x \in Int /\ j.y \in Int /\ j.offX \in Int /\ j.offY \in Int
      /\ j.outW \in Int /\ j.outH \in Int
  <2> PICK W, H : W = _width /\ H = _height
    OBVIOUS
  <2>1. W \in Int /\ H \in Int
    BY Sizes
  <2>2. /\ j.x = c.x /\ j.y = c.y /\ j.offX = c.offX /\ j.offY = c.offY
        /\ j.outW = Least(c.jpgW - c.offX, IF c.maxW = 0 THEN W - c.x ELSE c.maxW)
        /\ j.outH = Least(c.jpgH - c.offY, IF c.maxH = 0 THEN H - c.y ELSE c.maxH)
    BY DEF Wanted
  <2>3. QED BY <2>1, <2>2 DEF Least
<1>3. \A i \in DOMAIN bs : jpgWrite(j, bs[i]) \in Calm
  BY <1>1, <1>2, BlockSent
<1>4. DOMAIN bs = 1 .. Len(bs) /\ Len(bs) \in Nat
  BY <1>1
<1>5. ss \in Seq(Calm)
  <2>1. ss \in [1 .. Len(bs) -> Calm]
    BY <1>3, <1>4
  <2>2. QED BY <1>4, <2>1, SeqDef
<1>6. FlattenSeq(ss) \in Calm
  <2> HIDE DEF ss
  <2>1. QED BY <1>5, CalmClosed, FlattenClosed
<1>7. QED BY <1>6, CalmClosed DEF Jpeg

(* setRotation() leaves the bus as it was, and draws nothing.              *)
LEMMA TurnIs ==
  ASSUME NEW m \in Nat, NEW h \in {"free", "kept"}
  PROVE  /\ Returns(<<Begin, Madctl(m), End, Forget>>, h, h, Guarded)
         /\ \A i \in 1 .. Len(<<Begin, Madctl(m), End, Forget>>) :
              <<Begin, Madctl(m), End, Forget>>[i].op \notin {"words", "dot"}
<1> DEFINE y == Madctl(m)
           k == After("begin", h)
<1>1. y \in BusSteps /\ y.op = "madctl"
  BY DEF Madctl, BusSteps
<1> HIDE DEF y
<1> PICK u, v, w, s : /\ u = <<Begin>> /\ v = <<Begin, y>> /\ w = <<Begin, y, End>>
                      /\ s = <<Begin, y, End, Forget>>
  OBVIOUS
<1>2. v = u \o <<y>> /\ w = v \o <<End>> /\ s = w \o <<Forget>>
  <2>1. y \in BusSteps /\ Begin \in BusSteps /\ End \in BusSteps /\ Forget \in BusSteps
    BY <1>1, Constants
  <2>2. <<Begin, y>> = <<Begin>> \o <<y>>
    BY <2>1, Pair, Zenon
  <2>3. <<Begin, y, End>> = <<Begin, y>> \o <<End>>
    BY <2>1, Triple, Zenon
  <2>4. <<Begin, y, End, Forget>> = <<Begin, y, End>> \o <<Forget>>
    BY <2>1, Quadruple, Zenon
  <2>5. QED BY <2>2, <2>3, <2>4, Zenon
<1>3. k \in Holds /\ k # "free" /\ h \in Holds /\ After("end", k) = h /\ After("madctl", k) = k
  BY Afters DEF Holds
<1>4. Path(u, h, k, Guarded) /\ u \in Seq(BusSteps)
  <2>1. Begin.op \notin Guarded
    BY Constants DEF Guarded
  <2>2. Path(<<Begin>>, h, After(Begin.op, h), Guarded)
    BY <1>3, <2>1, PathOne
  <2>3. QED BY <2>2, Constants
<1> HIDE DEF k
<1>5. Path(v, h, k, Guarded) /\ v \in Seq(BusSteps)
  <2>1. Path(u \o <<y>>, h, After(y.op, k), Guarded) /\ u \o <<y>> \in Seq(BusSteps)
    BY <1>1, <1>3, <1>4, PathMore
  <2>2. QED BY <1>1, <1>2, <1>3, <2>1
<1>6. Path(w, h, h, Guarded) /\ w \in Seq(BusSteps)
  <2>1. Path(v \o <<End>>, h, After(End.op, k), Guarded) /\ v \o <<End>> \in Seq(BusSteps)
    BY <1>3, <1>5, Constants, PathMore DEF Guarded
  <2>2. QED BY <1>2, <1>3, <2>1, Constants
<1>7. Path(s, h, h, Guarded) /\ s \in Seq(BusSteps)
  <2>1. Path(w \o <<Forget>>, h, After(Forget.op, h), Guarded) /\ w \o <<Forget>> \in Seq(BusSteps)
    BY <1>3, <1>6, Constants, PathMore DEF Guarded
  <2>2. After(Forget.op, h) = h
    BY Constants, Afters
  <2>3. QED BY <1>2, <2>1, <2>2
<1>8. /\ Quiet(s) /\ \A i \in 1 .. Len(s) : s[i].op \notin {"words", "dot"}
  <2>1. Len(s) = 4 /\ s[1] = Begin /\ s[2] = y /\ s[3] = End /\ s[4] = Forget
    OBVIOUS
  <2>2. \A i \in 1 .. Len(s) : i = 1 \/ i = 2 \/ i = 3 \/ i = 4
    BY <2>1
  <2>3. QED BY <1>1, <2>1, <2>2, Constants DEF Quiet
<1>9. Returns(s, h, h, Guarded)
  BY <1>7, <1>8 DEF Returns
<1>10. s = <<Begin, Madctl(m), End, Forget>>
  BY DEF y
<1>11. QED BY <1>8, <1>9, <1>10

(* What an enlarged character on a background may do without the bus: all  *)
(* but keep it.                                                            *)
Unguarded == {"enter"}

(* Where every step that sends finds the bus taken, so does less.          *)
LEMMA PathWeaker ==
  ASSUME NEW s, NEW h, NEW k, Path(s, h, k, Guarded) PROVE Path(s, h, k, Unguarded)
<1>1. PICK l \in [0 .. Len(s) -> Holds] : l[0] = h /\ l[Len(s)] = k /\ Along(s, l, Guarded)
  BY DEF Path
<1>2. Along(s, l, Unguarded)
  BY <1>1 DEF Along, Guarded, Unguarded
<1>3. QED BY <1>1, <1>2 DEF Path

(* Steps that change nothing, whoever has the bus.                         *)
Flowing ==
  {s \in Seq(BusSteps) : (\A h \in Holds : Path(s, h, h, Unguarded)) /\ Quiet(s) /\ Plain(s)}

(* Steps that flow, one after the other, flow.                             *)
LEMMA FlowingClosed == <<>> \in Flowing /\ \A s, t \in Flowing : s \o t \in Flowing
<1>1. <<>> \in Flowing
  <2>1. PICK s : s = <<>>
    OBVIOUS
  <2>2. s \in Seq(BusSteps) /\ Len(s) = 0
    BY <2>1, EmptySeq
  <2>3. \A h \in Holds : Path(s, h, h, Unguarded)
    BY <2>1, PathEmpty
  <2>4. Quiet(s) /\ Plain(s)
    BY <2>2 DEF Quiet, Plain
  <2>5. s \in Flowing
    BY <2>2, <2>3, <2>4 DEF Flowing
  <2>6. QED BY <2>1, <2>5
<1>2. ASSUME NEW s \in Flowing, NEW t \in Flowing PROVE s \o t \in Flowing
  <2>1. /\ s \in Seq(BusSteps) /\ \A h \in Holds : Path(s, h, h, Unguarded)
        /\ t \in Seq(BusSteps) /\ \A h \in Holds : Path(t, h, h, Unguarded)
        /\ Quiet(s) /\ Quiet(t) /\ Plain(s) /\ Plain(t)
    BY DEF Flowing
  <2> PICK u : u = s \o t
    OBVIOUS
  <2>2. \A h \in Holds : Path(u, h, h, Unguarded)
    BY <2>1, PathJoin
  <2>3. u \in Seq(BusSteps) /\ Quiet(u) /\ Plain(u)
    BY <2>1, ConcatProperties, QuietJoin, PlainJoin
  <2>4. u \in Flowing
    BY <2>2, <2>3 DEF Flowing
  <2>5. QED BY <2>4
<1>3. QED BY <1>1, <1>2

(* A window and its pixels in whatever state the bus is.                   *)
LEMMA BlotIs ==
  ASSUME NEW x \in Sending, NEW y \in Sending PROVE <<x, y>> \in Flowing
<1> PICK s, u : s = <<x, y>> /\ u = <<x>>
  OBVIOUS
<1>1. /\ x \in BusSteps /\ y \in BusSteps
      /\ x.op \notin {"leave", "madctl", "enter"} /\ y.op \notin {"leave", "madctl", "enter"}
  BY DEF Sending
<1>2. s = u \o <<y>>
  <2>1. <<x, y>> = <<x>> \o <<y>>
    BY <1>1, Pair, Zenon
  <2>2. QED BY <2>1
<1>3. ASSUME NEW h \in Holds PROVE Path(s, h, h, Unguarded) /\ s \in Seq(BusSteps)
  <2>1. After(x.op, h) = h /\ After(y.op, h) = h
    BY Afters DEF Sending
  <2>2. Path(<<x>>, h, After(x.op, h), Unguarded)
    BY <1>1, PathOne DEF Unguarded
  <2>3. Path(u, h, h, Unguarded) /\ u \in Seq(BusSteps)
    BY <1>1, <2>1, <2>2
  <2>4. Path(u \o <<y>>, h, After(y.op, h), Unguarded) /\ u \o <<y>> \in Seq(BusSteps)
    BY <1>1, <2>3, PathMore DEF Unguarded
  <2>5. QED BY <1>2, <2>1, <2>4
<1>4. Quiet(s) /\ Plain(s)
  <2>1. Len(s) = 2 /\ s[1] = x /\ s[2] = y
    OBVIOUS
  <2>2. \A i \in 1 .. Len(s) : i = 1 \/ i = 2
    BY <2>1
  <2>3. QED BY <1>1, <2>1, <2>2 DEF Quiet, Plain
<1>5. s \in Seq(BusSteps)
  BY <1>3, Afters
<1>6. s \in Flowing
  BY <1>3, <1>4, <1>5 DEF Flowing
<1>7. QED BY <1>6

(* An enlarged character on a background: fillRect() gives the bus back    *)
(* too early, what comes after is sent without it, and at the end the bus  *)
(* is as it was.                                                           *)
LEMMA BigCharacterIs ==
  ASSUME rotation \in 0 .. 7,
         NEW x \in Int, NEW y \in Int, NEW w \in Nat, NEW h \in Nat,
         NEW size \in Nat,
         NEW dots \in Seq(Points), NEW b \in {"free", "kept"}
  PROVE  /\ Returns(BigCharacter(x, y, w, h, size, dots), b, b, Unguarded)
         /\ Plain(BigCharacter(x, y, w, h, size, dots))
<1> DEFINE blot(i) == LET px == x + size * dots[i][1]
                          py == y + size * dots[i][2]
                      IN  <<Window(px, py, px + size - 1, py + size - 1), Words(size * size)>>
           ss == [i \in DOMAIN dots |-> blot(i)]
<1>1. DOMAIN dots = 1 .. Len(dots) /\ Len(dots) \in Nat /\ \A i \in DOMAIN dots : dots[i] \in Points
  OBVIOUS
<1>2. ASSUME NEW i \in DOMAIN dots PROVE blot(i) \in Flowing
  <2> PICK d1, d2 : d1 = dots[i][1] /\ d2 = dots[i][2]
    OBVIOUS
  <2>1. d1 \in Int /\ d2 \in Int
    BY <1>1 DEF Points
  <2> PICK px, py : px = x + size * d1 /\ py = y + size * d2
    OBVIOUS
  <2>2. px \in Int /\ py \in Int /\ size * size \in Int
    <3>1. size * d1 \in Int /\ size * d2 \in Int /\ size * size \in Int
      BY <2>1, SMTT(30)
    <3>2. QED BY <3>1
  <2>3. px + size - 1 \in Int /\ py + size - 1 \in Int
    BY <2>2
  <2>4. Window(px, py, px + size - 1, py + size - 1) \in Sending /\ Words(size * size) \in Sending
    BY <2>2, <2>3, WindowIs, WordsIs
  <2>5. QED BY <2>4, BlotIs
<1> HIDE DEF blot
<1>3. ss \in [1 .. Len(dots) -> Flowing]
  BY <1>1, <1>2
<1>4. ss \in Seq(Flowing)
  BY <1>1, <1>3, IsSeq
<1>5. FlattenSeq(ss) \in Flowing
  <2> HIDE DEF ss
  <2>1. QED BY <1>4, FlowingClosed, FlattenClosed
<1> DEFINE p == Rect(x, y, w * size, h * size)
<1>6. p \in Prims
  <2>1. w * size \in Int /\ h * size \in Int
    OBVIOUS
  <2>2. QED BY <2>1 DEF Rect, Prim, Prims
<1> HIDE DEF p, ss
<1>7. /\ Primitive(p) \in Calm
      /\ \E k \in {"held", "free"} : Path(Primitive(p), "held", k, Guarded)
  BY <1>6, PrimitiveIs
<1> PICK a, c, d, e : a = <<Begin>> /\ c = Primitive(p) /\ d = FlattenSeq(ss) /\ e = <<End>>
  OBVIOUS
<1>8. /\ a \in Seq(BusSteps) /\ c \in Seq(BusSteps) /\ d \in Seq(BusSteps) /\ e \in Seq(BusSteps)
      /\ Quiet(a) /\ Quiet(c) /\ Quiet(d) /\ Quiet(e) /\ Plain(a) /\ Plain(c) /\ Plain(d)
          /\ Plain(e)
  <2>1. a \in Seq(BusSteps) /\ e \in Seq(BusSteps)
    BY Constants
  <2>2. Len(a) = 1 /\ a[1] = Begin /\ Len(e) = 1 /\ e[1] = End
    OBVIOUS
  <2>3. Quiet(a) /\ Quiet(e) /\ Plain(a) /\ Plain(e)
    BY <2>2, Constants DEF Quiet, Plain
  <2>4. QED BY <1>5, <1>7, <2>1, <2>3 DEF Calm, Flowing
<1> PICK ac : ac = a \o c
  OBVIOUS
<1> PICK acd : acd = ac \o d
  OBVIOUS
<1> PICK s : s = acd \o e
  OBVIOUS
<1>9. /\ ac \in Seq(BusSteps) /\ Quiet(ac) /\ Plain(ac)
      /\ acd \in Seq(BusSteps) /\ Quiet(acd) /\ Plain(acd)
      /\ s \in Seq(BusSteps) /\ Quiet(s) /\ Plain(s)
  <2>1. ac \in Seq(BusSteps) /\ Quiet(ac) /\ Plain(ac)
    BY <1>8, QuietJoin, PlainJoin, ConcatProperties
  <2>2. acd \in Seq(BusSteps) /\ Quiet(acd) /\ Plain(acd)
    BY <1>8, <2>1, QuietJoin, PlainJoin, ConcatProperties
  <2>3. s \in Seq(BusSteps) /\ Quiet(s) /\ Plain(s)
    BY <1>8, <2>2, QuietJoin, PlainJoin, ConcatProperties
  <2>4. QED BY <2>1, <2>2, <2>3
<1>10. PICK k \in Holds : Path(ac, b, k, Unguarded) /\ After("end", k) = b
  <2>1. Path(a, b, After("begin", b), Unguarded)
    <3>1. Begin.op \notin Unguarded /\ b \in Holds
      BY Constants, Afters DEF Unguarded
    <3>2. Path(<<Begin>>, b, After(Begin.op, b), Unguarded)
      BY <3>1, PathOne
    <3>3. QED BY <3>2, Constants
  <2>2. CASE b = "free"
    <3>1. PICK k \in {"held", "free"} : Path(c, "held", k, Guarded)
      BY <1>7
    <3>2. After("begin", b) = "held" /\ k \in Holds /\ After("end", k) = b
      BY <2>2, Afters
    <3>3. Path(c, "held", k, Unguarded)
      BY <3>1, PathWeaker
    <3>4. Path(ac, b, k, Unguarded)
      BY <1>8, <2>1, <3>2, <3>3, PathJoin
    <3>5. QED BY <3>2, <3>4
  <2>3. CASE b = "kept"
    <3>1. After("begin", b) = "kept" /\ b \in Holds /\ After("end", b) = b
      BY <2>3, Afters
    <3>2. Path(c, "kept", "kept", Unguarded)
      BY <1>7, PathWeaker DEF Calm
    <3>3. Path(ac, b, "kept", Unguarded)
      BY <1>8, <2>1, <3>1, <3>2, PathJoin
    <3>4. QED BY <2>3, <3>1, <3>3
  <2>4. QED BY <2>2, <2>3
<1>11. Path(acd, b, k, Unguarded)
  <2>1. Path(d, k, k, Unguarded)
    BY <1>5 DEF Flowing
  <2>2. QED BY <1>8, <1>9, <1>10, <2>1, PathJoin
<1>12. Path(s, b, b, Unguarded)
  <2>1. Path(acd \o <<End>>, b, After(End.op, k), Unguarded)
    BY <1>9, <1>10, <1>11, Constants, PathMore DEF Unguarded
  <2>2. QED BY <1>10, <2>1, Constants
<1>13. Returns(s, b, b, Unguarded) /\ Plain(s)
  BY <1>9, <1>12 DEF Returns
<1>14. BigCharacter(x, y, w, h, size, dots) = s
  BY DEF BigCharacter, ss, blot, p
<1>15. QED BY <1>13, <1>14

(* The greatest of some of the numbers up to n.                            *)
LEMMA MaxIs ==
  ASSUME NEW n \in Nat, NEW s \in SUBSET (1 .. n), n \in s PROVE Max(s) = n
<1>1. n \in s /\ \A y \in s : n >= y
  OBVIOUS
<1>2. \A x \in s : (\A y \in s : x >= y) => x = n
  OBVIOUS
<1> PICK m : m = Max(s)
  OBVIOUS
<1>3. m \in s /\ \A y \in s : m >= y
  BY <1>1 DEF Max
<1>4. QED BY <1>2, <1>3

(* The recursion of a fold from the right, as the community module states  *)
(* it, for values in D.                                                    *)
FoldsTo(it, D, base, g, k) ==
  /\ it \in [SUBSET (1 .. k) -> D]
  /\ \A s \in SUBSET (1 .. k) : it[s] = IF s = {} THEN base ELSE g[it[s \ {Max(s)}]]

(* The recursion of a fold over 1 .. n has a solution.                     *)
LEMMA FoldExists ==
  ASSUME NEW D, NEW base \in D, NEW g \in [D -> D], NEW n \in Nat
  PROVE  \E it : FoldsTo(it, D, base, g, n)
<1> DEFINE Good(k, it) == FoldsTo(it, D, base, g, k)
           T == {k \in Nat : \E it : Good(k, it)}
<1>1. 0 \in T
  <2> DEFINE it == [s \in SUBSET (1 .. 0) |-> base]
  <2>1. \A s \in SUBSET (1 .. 0) : s = {}
    OBVIOUS
  <2>2. Good(0, it)
    BY <2>1 DEF FoldsTo
  <2>3. QED BY <2>2
<1>2. ASSUME NEW k \in Nat, k \in T PROVE k + 1 \in T
  <2>1. PICK it : Good(k, it)
    BY <1>2
  <2> DEFINE m == k + 1
             h == [s \in SUBSET (1 .. m) |-> IF m \in s THEN g[it[s \ {m}]] ELSE it[s]]
  <2>2. \A s \in SUBSET (1 .. m) : s \ {m} \in SUBSET (1 .. k) /\ (m \notin s => s \in SUBSET (1 .. k))
    OBVIOUS
  <2>3. h \in [SUBSET (1 .. m) -> D]
    BY <2>1, <2>2 DEF FoldsTo
  <2>4. ASSUME NEW s \in SUBSET (1 .. m)
        PROVE  h[s] = IF s = {} THEN base ELSE g[h[s \ {Max(s)}]]
    <3>1. CASE m \in s
      <4>1. Max(s) = m
        BY <3>1, MaxIs
      <4>2. PICK r : r = s \ {m}
        OBVIOUS
      <4>3. r \in SUBSET (1 .. m) /\ m \notin r
        BY <4>2
      <4>4. h[r] = it[r] /\ h[s] = g[it[r]]
        BY <3>1, <4>2, <4>3
      <4>5. QED BY <3>1, <4>1, <4>2, <4>4
    <3>2. CASE m \notin s
      <4>1. s \in SUBSET (1 .. k) /\ h[s] = it[s]
        BY <2>2, <3>2
      <4>2. PICK r : r = s \ {Max(s)}
        OBVIOUS
      <4>3. r \in SUBSET (1 .. m) /\ m \notin r
        BY <3>2, <4>2
      <4>4. h[r] = it[r]
        BY <4>3
      <4>5. it[s] = IF s = {} THEN base ELSE g[it[r]]
        BY <2>1, <4>1, <4>2 DEF FoldsTo
      <4>6. QED BY <4>1, <4>2, <4>4, <4>5
    <3>3. QED BY <3>1, <3>2
  <2>5. Good(m, h)
    BY <2>3, <2>4 DEF FoldsTo
  <2> HIDE DEF Good
  <2>6. QED BY <2>5
<1> HIDE DEF T
<1>3. \A k \in 0 .. n : k \in T
  BY <1>1, <1>2, Induct
<1>4. n \in T
  BY <1>3
<1>5. QED BY <1>4 DEF T

(* The state of the loop of drawLine().                                    *)
LineStates == [x : Int, y : Int, err : Int, dlen : Nat, xs : Int, out : Seq(Prims)]

(* Pixels and lines with numbers for arguments are primitives.             *)
LEMMA PrimIs ==
  ASSUME NEW x \in Int, NEW y \in Int, NEW n \in Int
  PROVE  Pixel(x, y) \in Prims /\ VLine(x, y, n) \in Prims /\ HLine(x, y, n) \in Prims
BY DEF Pixel, VLine, HLine, Prim, Prims

(* A run of a line is a primitive, or nothing.                             *)
LEMMA RunIs ==
  ASSUME NEW steep \in BOOLEAN, NEW xs \in Int, NEW y \in Int, NEW n \in Nat
  PROVE  Run(steep, xs, y, n) \in Seq(Prims) /\ OneRun(steep, xs, y, n) \in Seq(Prims)
<1>1. /\ Pixel(y, xs) \in Prims /\ Pixel(xs, y) \in Prims
      /\ VLine(y, xs, n) \in Prims /\ HLine(xs, y, n) \in Prims
  BY PrimIs
<1>2. /\ <<Pixel(y, xs)>> \in Seq(Prims) /\ <<Pixel(xs, y)>> \in Seq(Prims)
      /\ <<VLine(y, xs, n)>> \in Seq(Prims) /\ <<HLine(xs, y, n)>> \in Seq(Prims)
          /\ <<>> \in Seq(Prims)
  BY <1>1
<1>3. Run(steep, xs, y, n) \in Seq(Prims)
  <2>1. n = 0 \/ n > 0
    OBVIOUS
  <2>2. CASE n = 0
    BY <1>2, <2>2 DEF Run
  <2>3. CASE n > 0 /\ steep
    BY <1>2, <2>3 DEF Run
  <2>4. CASE n > 0 /\ ~steep
    BY <1>2, <2>4 DEF Run
  <2>5. QED BY <2>1, <2>2, <2>3, <2>4
<1>4. QED BY <1>2, <1>3 DEF OneRun

(* drawLine() is made of primitives: every pass of its loop keeps its      *)
(* state a state, and adds a primitive or nothing.                         *)
LEMMA LineIs ==
  ASSUME NEW ax \in Int, NEW ay \in Int, NEW bx \in Int, NEW by \in Int
  PROVE  drawLine(ax, ay, bx, by) \in Seq(Prims)
<1> DEFINE steep == Abs(by - ay) > Abs(bx - ax)
           p == IF steep THEN <<ay, ax>> ELSE <<ax, ay>>
           q == IF steep THEN <<by, bx>> ELSE <<bx, by>>
           from == IF p[1] > q[1] THEN q ELSE p
           to == IF p[1] > q[1] THEN p ELSE q
           dx == to[1] - from[1]
           dy == Abs(to[2] - from[2])
           ystep == IF from[2] < to[2] THEN 1 ELSE -1
           pass(s) ==
             IF s.err - dy < 0
             THEN [x |-> s.x + 1, y |-> s.y + ystep, err |-> s.err - dy + dx, dlen |-> 0,
                   xs |-> RunBegins(s, s.x), out |-> s.out \o OneRun(steep, s.xs, s.y, s.dlen + 1)]
             ELSE [s EXCEPT !.x = @ + 1, !.err = @ - dy, !.dlen = @ + 1]
           first == [x |-> from[1], y |-> from[2], err |-> Half(dx), dlen |-> 0,
                     xs |-> from[1], out |-> <<>>]
           Grow(done) == IF Last(done).x <= to[1] THEN Append(done, pass(Last(done))) ELSE done
           n == dx + 1
           D == {d \in Seq(LineStates) : d # <<>>}
           Solves(it) == it = [s \in SUBSET (DOMAIN [i \in 1 .. n |-> i]) |->
                                 IF s = {} THEN <<first>> ELSE Grow(it[s \ {Max(s)}])]
           f == CHOOSE it : Solves(it)
           end == Last(f[DOMAIN [i \in 1 .. n |-> i]])
<1>1. drawLine(ax, ay, bx, by) = end.out \o Run(steep, end.xs, end.y, end.dlen)
  BY DEF drawLine, Passes, FoldLeft, MapThenFoldSet
<1>2. /\ from[1] \in Int /\ from[2] \in Int /\ to[1] \in Int /\ to[2] \in Int
      /\ from[1] <= to[1] /\ steep \in BOOLEAN
  OBVIOUS
<1> HIDE DEF steep, from, to
<1>3. dx \in Nat /\ dy \in Int /\ ystep \in Int /\ n \in Nat
  BY <1>2 DEF Abs
<1>4. ASSUME NEW s \in LineStates PROVE pass(s) \in LineStates
  <2>1. s.x \in Int /\ s.y \in Int /\ s.err \in Int /\ s.dlen \in Nat /\ s.xs \in Int
        /\ s.out \in Seq(Prims)
    BY DEF LineStates
  <2> PICK o : o = s.out \o OneRun(steep, s.xs, s.y, s.dlen + 1)
    OBVIOUS
  <2>2. OneRun(steep, s.xs, s.y, s.dlen + 1) \in Seq(Prims)
    BY <1>2, <2>1, RunIs
  <2>3. o \in Seq(Prims)
    BY <2>1, <2>2
  <2> HIDE DEF dx, dy, ystep
  <2>4. CASE s.err - dy < 0
    <3>1. pass(s) = [x |-> s.x + 1, y |-> s.y + ystep, err |-> s.err - dy + dx, dlen |-> 0,
                     xs |-> s.x + 1, out |-> o]
      BY <2>4 DEF RunBegins
    <3> HIDE DEF pass
    <3>2. QED BY <1>3, <2>1, <2>3, <3>1 DEF LineStates
  <2>5. CASE ~(s.err - dy < 0)
    <3>1. pass(s) = [s EXCEPT !.x = @ + 1, !.err = @ - dy, !.dlen = @ + 1]
      BY <2>5
    <3> PICK a, b, c : a = s.x + 1 /\ b = s.err - dy /\ c = s.dlen + 1
      OBVIOUS
    <3>2. a \in Int /\ b \in Int /\ c \in Nat
      BY <1>3, <2>1
    <3>3. pass(s) = [s EXCEPT !.x = a, !.err = b, !.dlen = c]
      BY <3>1
    <3> HIDE DEF pass
    <3>4. [s EXCEPT !.x = a, !.err = b, !.dlen = c] \in LineStates
      BY <3>2 DEF LineStates
    <3>5. QED BY <3>3, <3>4
  <2>6. QED BY <2>4, <2>5
<1>5. first \in LineStates
  <2>1. Half(dx) \in Int
    BY <1>3 DEF Half
  <2>2. <<>> \in Seq(Prims)
    OBVIOUS
  <2> HIDE DEF dx
  <2>3. QED BY <1>2, <2>1, <2>2 DEF LineStates
<1> HIDE DEF dx, dy, ystep, pass, first
<1>6. ASSUME NEW d \in D PROVE Grow(d) \in D
  <2>1. Last(d) \in LineStates
    BY DEF Last
  <2>2. pass(Last(d)) \in LineStates
    BY <1>4, <2>1
  <2>3. Append(d, pass(Last(d))) \in D
    BY <2>2
  <2>4. QED BY <2>3
<1>7. <<first>> \in D
  BY <1>5
<1> HIDE DEF Grow, D, n
<1>8. Solves(f)
  <2> DEFINE g == [d \in D |-> Grow(d)]
  <2>1. g \in [D -> D]
    BY <1>6
  <2> HIDE DEF g
  <2>2. PICK it \in [SUBSET (1 .. n) -> D] :
          \A s \in SUBSET (1 .. n) : it[s] = IF s = {} THEN <<first>> ELSE g[it[s \ {Max(s)}]]
    <3>1. PICK it : FoldsTo(it, D, <<first>>, g, n)
      BY <1>3, <1>7, <2>1, FoldExists
    <3>2. QED BY <3>1 DEF FoldsTo
  <2>3. ASSUME NEW s \in SUBSET (1 .. n)
        PROVE  it[s] = IF s = {} THEN <<first>> ELSE Grow(it[s \ {Max(s)}])
    <3>1. PICK r : r = s \ {Max(s)}
      OBVIOUS
    <3>2. r \in SUBSET (1 .. n)
      BY <3>1
    <3>3. g[it[r]] = Grow(it[r])
      BY <3>2 DEF g
    <3>4. QED BY <2>2, <3>1, <3>3
  <2>4. DOMAIN [i \in 1 .. n |-> i] = 1 .. n
    OBVIOUS
  <2>5. Solves(it)
    BY <2>3, <2>4
  <2> HIDE DEF Solves
  <2>6. QED BY <2>5
<1>9. \A s \in SUBSET (1 .. n) : f[s] = IF s = {} THEN <<first>> ELSE Grow(f[s \ {Max(s)}])
  <2>1. DOMAIN [i \in 1 .. n |-> i] = 1 .. n
    OBVIOUS
  <2> HIDE DEF f
  <2>2. QED BY <1>8, <2>1
<1> HIDE DEF f, Solves
<1> DEFINE T == {k \in Nat : k <= n => f[1 .. k] \in D}
<1>10. 0 \in T
  <2>1. 1 .. 0 = {} /\ {} \in SUBSET (1 .. n)
    OBVIOUS
  <2>2. f[{}] = <<first>>
    BY <1>9, <2>1
  <2>3. QED BY <1>7, <2>1, <2>2
<1>11. ASSUME NEW k \in Nat, k < n, k \in T PROVE k + 1 \in T
  <2>1. f[1 .. k] \in D
    BY <1>3, <1>11
  <2>2. PICK s : s = 1 .. k + 1
    OBVIOUS
  <2>3. s \in SUBSET (1 .. k + 1) /\ k + 1 \in s /\ s \in SUBSET (1 .. n) /\ s # {}
        /\ s \ {k + 1} = 1 .. k
    BY <1>3, <1>11, <2>2
  <2>4. Max(s) = k + 1
    BY <2>3, MaxIs
  <2>5. f[s] = Grow(f[1 .. k])
    BY <1>9, <2>3, <2>4
  <2>6. QED BY <1>6, <2>1, <2>2, <2>5
<1> HIDE DEF T
<1>12. f[1 .. n] \in D
  <2>1. \A k \in 0 .. n : k \in T
    BY <1>3, <1>10, <1>11, Induct
  <2>2. QED BY <1>3, <2>1 DEF T
<1>13. end \in LineStates
  <2>1. DOMAIN [i \in 1 .. n |-> i] = 1 .. n
    OBVIOUS
  <2>2. QED BY <1>12, <2>1 DEF D, Last
<1> HIDE DEF end
<1>14. end.out \in Seq(Prims) /\ end.xs \in Int /\ end.y \in Int /\ end.dlen \in Nat
  BY <1>13 DEF LineStates
<1>15. Run(steep, end.xs, end.y, end.dlen) \in Seq(Prims)
  BY <1>2, <1>14, RunIs
<1> PICK t, u : t = end.out /\ u = Run(steep, end.xs, end.y, end.dlen)
  OBVIOUS
<1>16. t \o u \in Seq(Prims)
  BY <1>14, <1>15, ConcatProperties
<1>17. drawLine(ax, ay, bx, by) = t \o u
  BY <1>1
<1>18. QED BY <1>16, <1>17

(* Where an edge that is not level crosses a row.                          *)
LEMMA CrossingIs ==
  ASSUME NEW p \in Points, NEW q \in Points, NEW y \in Int, p[2] # q[2]
  PROVE  Crossing(p, q, y) \in Int
<1> PICK px, py, qx, qy : px = p[1] /\ py = p[2] /\ qx = q[1] /\ qy = q[2]
  OBVIOUS
<1>1. px \in Int /\ py \in Int /\ qx \in Int /\ qy \in Int /\ py # qy
  BY DEF Points
<1> PICK m, n, d : m = qx - px /\ n = y - py /\ d = qy - py
  OBVIOUS
<1>2. m \in Int /\ n \in Int /\ d \in Int /\ d # 0
  <2>1. m \in Int
    BY <1>1
  <2>2. n \in Int
    BY <1>1
  <2>3. d \in Int
    BY <1>1
  <2>4. d # 0
    BY <1>1
  <2>5. QED BY <2>1, <2>2, <2>3, <2>4
<1> PICK k : k = m * n
  OBVIOUS
<1>3. k \in Int
  BY <1>2
<1>4. Abs(k) \in Int /\ Abs(d) \in Int /\ Abs(d) > 0
  BY <1>2, <1>3 DEF Abs
<1> PICK e : e = Abs(k) \div Abs(d)
  OBVIOUS
<1>5. e \in Int
  BY <1>4
<1>6. Quot(k, d) \in Int
  BY <1>5 DEF Quot
<1>7. Crossing(p, q, y) = p[1] + Quot(k, d)
  BY DEF Crossing
<1>8. QED BY <1>1, <1>6, <1>7

(* The three swaps of fillTriangle() sort the corners; a triangle as high  *)
(* as nothing is flat.                                                     *)
LEMMA SortedIs ==
  ASSUME NEW a \in Points, NEW b \in Points, NEW c \in Points
  PROVE  /\ \A i \in 1 .. 3 : Sorted(a, b, c)[i] \in Points
         /\ Sorted(a, b, c)[1][2] <= Sorted(a, b, c)[2][2]
         /\ Sorted(a, b, c)[2][2] <= Sorted(a, b, c)[3][2]
         /\ Sorted(a, b, c)[1][2] = Sorted(a, b, c)[3][2] => Flat(a, b, c)
<1>1. a[2] \in Int /\ b[2] \in Int /\ c[2] \in Int
  BY DEF Points
<1> DEFINE s1 == IF a[2] > b[2] THEN <<b, a, c>> ELSE <<a, b, c>>
           s2 == IF s1[2][2] > s1[3][2] THEN <<s1[1], s1[3], s1[2]>> ELSE s1
           s == IF s2[1][2] > s2[2][2] THEN <<s2[2], s2[1], s2[3]>> ELSE s2
<1>2. Sorted(a, b, c) = s
  BY DEF Sorted
<1>3. /\ s1[1] \in {a, b} /\ s1[2] \in {a, b} /\ s1[3] = c
      /\ s1[1][2] <= s1[2][2] /\ (s1[1][2] = s1[2][2] => a[2] = b[2])
      /\ s1[1] \in Points /\ s1[2] \in Points /\ s1[3] \in Points
      /\ s1[1][2] \in Int /\ s1[2][2] \in Int /\ s1[3][2] \in Int
      /\ \A m \in Int : s1[1][2] = m /\ s1[2][2] = m /\ s1[3][2] = m => a[2] = m /\ b[2] = m /\ c[2] = m
  BY <1>1
<1> HIDE DEF s1
<1>4. /\ s2[1] \in Points /\ s2[2] \in Points /\ s2[3] \in Points
      /\ s2[1][2] \in Int /\ s2[2][2] \in Int /\ s2[3][2] \in Int
      /\ s2[1][2] <= s2[3][2] /\ s2[2][2] <= s2[3][2]
      /\ \A m \in Int : s2[1][2] = m /\ s2[2][2] = m /\ s2[3][2] = m => a[2] = m /\ b[2] = m /\ c[2] = m
  BY <1>3
<1> HIDE DEF s2
<1>5. /\ s[1] \in Points /\ s[2] \in Points /\ s[3] \in Points
      /\ s[1][2] \in Int /\ s[2][2] \in Int /\ s[3][2] \in Int
      /\ s[1][2] <= s[2][2] /\ s[2][2] <= s[3][2]
      /\ \A m \in Int : s[1][2] = m /\ s[2][2] = m /\ s[3][2] = m => a[2] = m /\ b[2] = m /\ c[2] = m
  BY <1>4
<1> HIDE DEF s
<1>6. s[1][2] = s[3][2] => Flat(a, b, c)
  <2>1. s[1][2] = s[3][2] => s[2][2] = s[1][2]
    BY <1>5
  <2>2. QED BY <1>5, <2>1 DEF Flat
<1>7. \A i \in 1 .. 3 : s[i] \in Points
  BY <1>5
<1>8. QED BY <1>2, <1>5, <1>6, <1>7

(* A row of a triangle that is not flat divides by no height of 0.         *)
LEMMA RowIs ==
  ASSUME NEW s, \A i \in 1 .. 3 : s[i] \in Points,
         s[1][2] <= s[2][2], s[2][2] <= s[3][2], s[1][2] # s[3][2],
         NEW y \in Int, s[1][2] <= y
  PROVE  Row(s, y) \in Prims
<1> DEFINE a == IF UpperPart(s, y) THEN Crossing(s[1], s[2], y) ELSE Crossing(s[2], s[3], y)
           b == Crossing(s[1], s[3], y)
<1>1. s[1] \in Points /\ s[2] \in Points /\ s[3] \in Points
  OBVIOUS
<1>2. s[1][2] \in Int /\ s[2][2] \in Int /\ s[3][2] \in Int
  BY <1>1 DEF Points
<1>3. b \in Int
  BY <1>1, CrossingIs
<1>4. a \in Int
  <2>1. CASE UpperPart(s, y)
    <3>1. s[1][2] # s[2][2]
      BY <1>2, <2>1 DEF UpperPart
    <3>2. Crossing(s[1], s[2], y) \in Int
      BY <1>1, <3>1, CrossingIs
    <3>3. QED BY <2>1, <3>2
  <2>2. CASE ~UpperPart(s, y)
    <3>1. s[2][2] # s[3][2]
      BY <2>2 DEF UpperPart
    <3>2. Crossing(s[2], s[3], y) \in Int
      BY <1>1, <3>1, CrossingIs
    <3>3. QED BY <2>2, <3>2
  <2>3. QED BY <2>1, <2>2
<1>5. Row(s, y) = IF a > b THEN HLine(b, y, a - b + 1) ELSE HLine(a, y, b - a + 1)
  BY DEF Row
<1> HIDE DEF a, b
<1> PICK m, n : m = a - b + 1 /\ n = b - a + 1
  OBVIOUS
<1>6. m \in Int /\ n \in Int
  BY <1>3, <1>4
<1>7. HLine(b, y, m) \in Prims /\ HLine(a, y, n) \in Prims
  BY <1>3, <1>4, <1>6, PrimIs
<1>8. QED BY <1>5, <1>7

(* The line of a flat triangle.                                            *)
LEMMA FlatLineIs ==
  ASSUME NEW s, \A i \in 1 .. 3 : s[i] \in Points PROVE FlatLine(s) \in Prims
<1> PICK a, b, c, y : a = s[1][1] /\ b = s[2][1] /\ c = s[3][1] /\ y = s[1][2]
  OBVIOUS
<1>1. a \in Int /\ b \in Int /\ c \in Int /\ y \in Int
  BY DEF Points
<1> DEFINE xs == {a, b, c}
           left == CHOOSE x \in xs : \A o \in xs : x <= o
           right == CHOOSE x \in xs : \A o \in xs : x >= o
<1>2. \E x \in xs : \A o \in xs : x <= o
  BY <1>1
<1>3. \E x \in xs : \A o \in xs : x >= o
  BY <1>1
<1>4. left \in xs
  <2> HIDE DEF xs
  <2>1. QED BY <1>2
<1>5. right \in xs
  <2> HIDE DEF xs
  <2>1. QED BY <1>3
<1>6. FlatLine(s) = HLine(left, y, right - left + 1)
  BY DEF FlatLine
<1> HIDE DEF left, right
<1>7. left \in Int /\ right \in Int
  BY <1>1, <1>4, <1>5
<1> PICK n : n = right - left + 1
  OBVIOUS
<1>8. n \in Int
  BY <1>7
<1>9. HLine(left, y, n) \in Prims
  BY <1>1, <1>7, <1>8, PrimIs
<1>10. QED BY <1>6, <1>9

(* fillTriangle() is made of primitives.                                   *)
LEMMA FillIs ==
  ASSUME NEW a \in Points, NEW b \in Points, NEW c \in Points
  PROVE  fillTriangle(a, b, c) \in Seq(Prims)
<1> PICK s : s = Sorted(a, b, c)
  OBVIOUS
<1>1. /\ \A i \in 1 .. 3 : s[i] \in Points
      /\ s[1][2] <= s[2][2] /\ s[2][2] <= s[3][2]
      /\ s[1][2] = s[3][2] => Flat(a, b, c)
  BY SortedIs
<1>2. CASE Flat(a, b, c)
  <2>1. <<FlatLine(s)>> \in Seq(Prims)
    BY <1>1, FlatLineIs
  <2>2. QED BY <1>2, <2>1 DEF fillTriangle
<1>3. CASE ~Flat(a, b, c)
  <2>1. s[1][2] \in Int /\ s[3][2] \in Int /\ s[1][2] <= s[3][2] /\ s[1][2] # s[3][2]
    <3>1. s[1] \in Points /\ s[2] \in Points /\ s[3] \in Points
      BY <1>1
    <3>2. s[1][2] \in Int /\ s[2][2] \in Int /\ s[3][2] \in Int
      BY <3>1 DEF Points
    <3>3. QED BY <1>1, <1>3, <3>2
  <2> PICK n, top : n = s[3][2] - s[1][2] + 1 /\ top = s[1][2]
    OBVIOUS
  <2>2. n \in Nat /\ top \in Int
    BY <2>1
  <2> DEFINE f == [i \in 1 .. n |-> Row(s, top + i - 1)]
  <2>3. ASSUME NEW i \in 1 .. n PROVE Row(s, top + i - 1) \in Prims
    <3>1. top + i - 1 \in Int /\ s[1][2] <= top + i - 1
      BY <2>2
    <3>2. QED BY <1>1, <2>1, <3>1, RowIs
  <2>4. f \in [1 .. n -> Prims]
    BY <2>3
  <2>5. fillTriangle(a, b, c) = f
    BY <1>3 DEF fillTriangle
  <2> HIDE DEF f
  <2>6. QED BY <2>2, <2>4, <2>5, IsSeq
<1>4. QED BY <1>2, <1>3

(* What must not be done outside a transaction, in a call of this kind.    *)
Inside(op) == IF op = "bigChar" THEN Unguarded ELSE Guarded

(* Nothing is written.                                                     *)
NoPixels(s) == \A i \in 1 .. Len(s) : s[i].op \notin {"words", "dot"}

(* A call, made while the bus is in state h, runs to its end: the bus is   *)
(* free or kept, and kept only if it was or by the early return.           *)
Runs(c, h) ==
  \E k : /\ Returns(Steps(c), h, k, Inside(c.op))
         /\ k = "kept" => h = "kept" \/ (c.op = "fillTriangle" /\ Flat(c.a, c.b, c.c))
         /\ Plain(Steps(c)) \/ NoPixels(Steps(c))

(* A call runs if its steps return.                                        *)
LEMMA RunsIf ==
  ASSUME NEW c, NEW h, NEW k, NEW s, Steps(c) = s, Returns(s, h, k, Inside(c.op)), Plain(s),
         k = "kept" => h = "kept" \/ (c.op = "fillTriangle" /\ Flat(c.a, c.b, c.c))
  PROVE  Runs(c, h)
BY DEF Runs

(* A call whose steps are calm runs.                                       *)
LEMMA CalmRuns ==
  ASSUME NEW c, NEW h \in {"free", "kept"}, c.op # "bigChar", Steps(c) \in Calm PROVE Runs(c, h)
<1> PICK s : s = Steps(c)
  OBVIOUS
<1>1. Returns(s, h, h, Inside(c.op)) /\ Plain(s)
  BY CalmReturns DEF Inside
<1>2. QED BY <1>1, RunsIf

(* A call that gives the bus back runs.                                    *)
LEMMA PieceRuns ==
  ASSUME NEW c, NEW h, c.op # "bigChar", Piece(Steps(c), h, "free") PROVE Runs(c, h)
<1> PICK s : s = Steps(c)
  OBVIOUS
<1>1. Returns(s, h, "free", Inside(c.op)) /\ Plain(s)
  BY PieceReturns DEF Inside
<1>2. QED BY <1>1, RunsIf

(* Whatever the sketch calls runs to its end, and leaves the bus as it was *)
(* or gives it back: but for the early return of fillTriangle(), which     *)
(* keeps it.                                                               *)
LEMMA CallsRun ==
  ASSUME rotation \in 0 .. 7, NEW c \in SketchCalls, NEW h \in {"free", "kept"}
  PROVE  Runs(c, h)
<1>1. CASE c \in [op : {"draw", "shape"}, prims : Seq(Prims)]
  <2>1. c.prims \in Seq(Prims) /\ c.op \in {"draw", "shape"}
    BY <1>1
  <2>2. CASE c.op = "draw"
    <3>1. Steps(c) = Draw(c.prims)
      BY <2>2 DEF Steps
    <3>2. QED BY <2>1, <2>2, <3>1, DrawIs, CalmRuns
  <2>3. CASE c.op = "shape"
    <3>1. Steps(c) = Shape(c.prims)
      BY <2>3 DEF Steps
    <3>2. QED BY <2>1, <2>3, <3>1, ShapeIs, PieceRuns
  <2>4. QED BY <2>1, <2>2, <2>3
<1>2. CASE c \in [op : {"drawTriangle", "fillTriangle"}, a : Points, b : Points, c : Points]
  <2>1. /\ c.a \in Points /\ c.b \in Points /\ c.c \in Points
        /\ c.op \in {"drawTriangle", "fillTriangle"}
    BY <1>2
  <2>2. CASE c.op = "drawTriangle"
    <3>1. Steps(c) = TriangleLines(c.a, c.b, c.c)
      BY <2>2 DEF Steps
    <3> PICK p, q, r : p = c.a /\ q = c.b /\ r = c.c
      OBVIOUS
    <3>2. /\ p[1] \in Int /\ p[2] \in Int /\ q[1] \in Int /\ q[2] \in Int
          /\ r[1] \in Int /\ r[2] \in Int
      BY <2>1 DEF Points
    <3>3. /\ drawLine(p[1], p[2], q[1], q[2]) \in Seq(Prims)
          /\ drawLine(q[1], q[2], r[1], r[2]) \in Seq(Prims)
          /\ drawLine(r[1], r[2], p[1], p[2]) \in Seq(Prims)
      BY <3>2, LineIs
    <3>4. Piece(TriangleLines(p, q, r), h, "free")
      BY <3>3, TriangleIs
    <3>5. QED BY <2>2, <3>1, <3>4, PieceRuns
  <2>3. CASE c.op = "fillTriangle"
    <3> PICK p, q, r : p = c.a /\ q = c.b /\ r = c.c
      OBVIOUS
    <3>1. Steps(c) = FilledTriangle(p, q, r)
      BY <2>3 DEF Steps
    <3>2. fillTriangle(p, q, r) \in Seq(Prims)
      BY <2>1, FillIs
    <3>3. CASE Flat(p, q, r)
      <4> PICK s : s = <<Begin, Enter>> \o Draw(fillTriangle(p, q, r))
        OBVIOUS
      <4>1. Steps(c) = s
        BY <3>1, <3>3 DEF FilledTriangle
      <4>2. Returns(s, h, "kept", Inside(c.op)) /\ Plain(s)
        BY <2>3, <3>2, FlatIs DEF Inside
      <4>3. QED BY <2>3, <3>3, <4>1, <4>2, RunsIf
    <3>4. CASE ~Flat(p, q, r)
      <4>1. Steps(c) = Shape(fillTriangle(p, q, r))
        BY <3>1, <3>4 DEF FilledTriangle
      <4>2. QED BY <2>3, <3>2, <4>1, ShapeIs, PieceRuns
    <3>5. QED BY <3>3, <3>4
  <2>4. QED BY <2>1, <2>2, <2>3
<1>3. CASE c \in [op : {"drawChar"}, x : Int, y : Int]
  <2>1. c.x \in Int /\ c.y \in Int /\ c.op = "drawChar"
    BY <1>3
  <2>2. Steps(c) = Cell(c.x, c.y)
    BY <2>1 DEF Steps
  <2>3. QED BY <2>1, <2>2, CellIs, CalmRuns
<1>4. CASE c \in [op : {"bigChar"}, x : Int, y : Int, w : Nat, h : Nat, size : Nat, dots : Seq(Points)]
  <2>1. /\ c.x \in Int /\ c.y \in Int /\ c.w \in Nat /\ c.h \in Nat /\ c.size \in Nat
        /\ c.dots \in Seq(Points) /\ c.op = "bigChar"
    BY <1>4
  <2> PICK s : s = BigCharacter(c.x, c.y, c.w, c.h, c.size, c.dots)
    OBVIOUS
  <2>2. Steps(c) = s
    BY <2>1 DEF Steps
  <2>3. Returns(s, h, h, Inside(c.op)) /\ Plain(s)
    BY <2>1, BigCharacterIs DEF Inside
  <2>4. QED BY <2>2, <2>3, RunsIf
<1>5. CASE c \in [op : {"image"}, p : Prims, parts : Seq(Nat)]
  <2>1. c.p \in Prims /\ c.parts \in Seq(Nat) /\ c.op = "image"
    BY <1>5
  <2>2. Steps(c) = Image(c.p, c.parts)
    BY <2>1 DEF Steps
  <2>3. QED BY <2>1, <2>2, ImageIs, CalmRuns
<1>6. CASE c \in [op : {"pushRect"}, x : Int, y : Int, w : Nat, h : Nat]
  <2>1. c.x \in Int /\ c.y \in Int /\ c.w \in Int /\ c.h \in Int /\ c.op = "pushRect"
    BY <1>6
  <2>2. Steps(c) = IF c.x > _width \/ c.y > _height \/ c.w = 0 \/ c.h = 0 THEN <<>>
                   ELSE Sent(WindowOf(c), c.w * c.h)
    BY <2>1 DEF Steps
  <2>3. Sent(WindowOf(c), c.w * c.h) \in Calm /\ <<>> \in Calm
    BY <2>1, AreaSent, CalmClosed
  <2>4. QED BY <2>1, <2>2, <2>3, CalmRuns
<1>7. CASE c \in [op : {"drawJpgFile"}, x : Int, y : Int, maxW : Nat, maxH : Nat, jpgW : Nat,
                  jpgH : Nat, offX : Nat, offY : Nat, block : Nat \ {0}]
  <2>1. /\ c.x \in Int /\ c.y \in Int /\ c.maxW \in Nat /\ c.maxH \in Nat /\ c.jpgW \in Nat
        /\ c.jpgH \in Nat /\ c.offX \in Nat /\ c.offY \in Nat /\ c.block \in Nat \ {0}
        /\ c.op = "drawJpgFile"
    BY <1>7
  <2>2. Steps(c) = Jpeg(c)
    BY <2>1 DEF Steps
  <2>3. QED BY <2>1, <2>2, JpegIs, CalmRuns
<1>8. CASE c \in [op : {"setRotation"}, m : Nat]
  <2>1. c.m \in Nat /\ c.op = "setRotation"
    BY <1>8
  <2> PICK s : s = <<Begin, Madctl(c.m), End, Forget>>
    OBVIOUS
  <2>2. Steps(c) = s
    BY <2>1 DEF Steps
  <2>3. Returns(s, h, h, Guarded) /\ NoPixels(s)
    BY <2>1, TurnIs DEF NoPixels
  <2>4. QED BY <2>1, <2>2, <2>3 DEF Runs, Inside
<1>9. QED BY <1>1, <1>2, <1>3, <1>4, <1>5, <1>6, <1>7, <1>8 DEF SketchCalls

(* The invariant. What the flags say of the bus; the steps that are left   *)
(* end well from there; and a call that turns the screen has written       *)
(* nothing.                                                                *)
Held == IF locked THEN "free" ELSE IF inTransaction THEN "kept" ELSE "held"

EndsWell ==
  \E k \in {"free", "kept"} :
    Path(todo, Held, k, Inside(call.op)) /\ (k = "kept" => flat /\ Quiet(todo))

TurnsFirst == Plain(todo) \/ (NoPixels(todo) /\ drawn = {})

BusInv ==
  /\ TypeOK /\ LockMatches /\ OnlyInTransaction
  /\ todo \in Seq(BusSteps) /\ (locked => ~inTransaction)
  /\ EndsWell /\ TurnsFirst

(* Where no step is left, a path has ended.                                *)
LEMMA NothingLeft == ASSUME NEW h, NEW k, NEW N, Path(<<>>, h, k, N) PROVE h = k
<1> PICK s : s = <<>>
  OBVIOUS
<1>1. Len(s) = 0 /\ Path(s, h, k, N)
  OBVIOUS
<1>2. QED BY <1>1 DEF Path

(* The invariant says what BusSound says.                                  *)
LEMMA BusInvSays == BusInv => BusSound
<1> SUFFICES ASSUME BusInv PROVE BusSound
  OBVIOUS
<1>1. TypeOK /\ LockMatches /\ OnlyInTransaction
  BY DEF BusInv
<1>2. ASSUME todo = <<>>, ~flat PROVE locked /\ ~inTransaction
  <2>1. PICK k \in {"free", "kept"} :
          Path(todo, Held, k, Inside(call.op)) /\ (k = "kept" => flat /\ Quiet(todo))
    BY DEF BusInv, EndsWell
  <2>2. Held = "free"
    <3>1. k = "free" /\ Path(<<>>, Held, k, Inside(call.op))
      BY <1>2, <2>1
    <3>2. Held = k
      BY <3>1, NothingLeft
    <3>3. QED BY <3>1, <3>2
  <2>3. locked
    BY <2>2 DEF Held
  <2>4. QED BY <2>3 DEF BusInv
<1>3. GivesBack
  BY <1>2 DEF GivesBack
<1>4. QED BY <1>1, <1>3 DEF BusSound

(* It holds at the beginning.                                              *)
LEMMA BusInit == Init => BusInv
<1> SUFFICES ASSUME Init PROVE BusInv
  OBVIOUS
<1>1. TypeOK
  <2>1. rotation \in 0 .. 7 /\ bus \in {"free", "lcd", "sd"} /\ addr_col \in Nat /\ addr_row \in Nat
    BY DEF Init, Unknown
  <2>2. locked \in BOOLEAN /\ inTransaction \in BOOLEAN /\ flat \in BOOLEAN /\ stray \in BOOLEAN
    BY DEF Init
  <2>3. drawn \subseteq Glass
    BY DEF Init
  <2>4. QED BY <2>1, <2>2, <2>3 DEF TypeOK
<1>2. LockMatches /\ OnlyInTransaction /\ ~inTransaction
  BY DEF Init, LockMatches, OnlyInTransaction
<1> PICK s : s = todo
  OBVIOUS
<1>3. s = <<>> /\ s \in Seq(BusSteps) /\ Len(s) = 0
  BY DEF Init
<1>4. EndsWell
  <2>1. Held = "free" /\ "free" \in Holds
    BY DEF Init, Held, Holds
  <2>2. Path(s, Held, "free", Inside(call.op))
    BY <1>3, <2>1, PathEmpty
  <2>3. QED BY <2>2 DEF EndsWell
<1>5. TurnsFirst
  BY <1>3 DEF TurnsFirst, Plain
<1>6. QED BY <1>1, <1>2, <1>3, <1>4, <1>5 DEF BusInv

(* What is said of all the steps that are left is said of the first of     *)
(* them, and of the rest.                                                  *)
LEMMA RestIs ==
  ASSUME NEW s \in Seq(BusSteps), s # <<>>
  PROVE  /\ Head(s) \in BusSteps /\ Tail(s) \in Seq(BusSteps)
         /\ Quiet(s) => Quiet(Tail(s)) /\ Head(s).op # "leave"
         /\ Plain(s) => Plain(Tail(s)) /\ Head(s).op # "madctl"
         /\ NoPixels(s) => NoPixels(Tail(s)) /\ Head(s).op \notin {"words", "dot"}
<1> PICK t, n : t = Tail(s) /\ n = Len(s)
  OBVIOUS
<1>1. /\ n \in Nat /\ n >= 1 /\ Len(s) = n /\ t \in Seq(BusSteps) /\ Len(t) = n - 1
      /\ \A i \in 1 .. n - 1 : t[i] = s[i + 1]
      /\ Head(s) = s[1] /\ s[1] \in BusSteps
  OBVIOUS
<1>2. \A i \in 1 .. n - 1 : i + 1 \in 1 .. n
  BY <1>1
<1>3. 1 \in 1 .. n
  BY <1>1
<1>4. Quiet(s) => Quiet(t) /\ s[1].op # "leave"
  BY <1>1, <1>2, <1>3 DEF Quiet
<1>5. Plain(s) => Plain(t) /\ s[1].op # "madctl"
  BY <1>1, <1>2, <1>3 DEF Plain
<1>6. NoPixels(s) => NoPixels(t) /\ s[1].op \notin {"words", "dot"}
  BY <1>1, <1>2, <1>3 DEF NoPixels
<1>7. QED BY <1>1, <1>4, <1>5, <1>6

(* A call finds the bus as the last one left it.                           *)
LEMMA BusCalling == ASSUME BusInv, NEW c \in Calls, Calling(c) PROVE BusInv'
<1>1. /\ todo = <<>> /\ call' = c /\ todo' = Steps(c) /\ drawn' = {} /\ stray' = FALSE
      /\ flat' = (flat \/ (c.op = "fillTriangle" /\ Flat(c.a, c.b, c.c)))
      /\ UNCHANGED <<rotation, addr_col, addr_row, locked, inTransaction, bus, lcd>>
  BY DEF Calling, cache, transaction
<1>2. TypeOK /\ LockMatches /\ (locked => ~inTransaction)
  BY DEF BusInv
<1>3. TypeOK' /\ LockMatches' /\ OnlyInTransaction' /\ (locked' => ~inTransaction')
  <2>1. Glass' = Glass
    BY <1>1 DEF Glass
  <2>2. flat' \in BOOLEAN
    BY <1>1
  <2>3. TypeOK'
    BY <1>1, <1>2, <2>1, <2>2 DEF TypeOK
  <2>4. QED BY <1>1, <1>2, <2>3 DEF LockMatches, OnlyInTransaction
<1>4. PICK k \in {"free", "kept"} :
        Path(todo, Held, k, Inside(call.op)) /\ (k = "kept" => flat /\ Quiet(todo))
  BY DEF BusInv, EndsWell
<1>5. Held = k
  BY <1>1, <1>4, NothingLeft
<1>6. Runs(c, k)
  <2>1. rotation \in 0 .. 7 /\ c \in SketchCalls
    BY <1>2, CallsAssumption DEF TypeOK
  <2>2. QED BY <2>1, CallsRun
<1>7. PICK j : /\ Returns(Steps(c), k, j, Inside(c.op))
               /\ j = "kept" => k = "kept" \/ (c.op = "fillTriangle" /\ Flat(c.a, c.b, c.c))
               /\ Plain(Steps(c)) \/ NoPixels(Steps(c))
  BY <1>6 DEF Runs
<1>8. todo' \in Seq(BusSteps) /\ TurnsFirst'
  BY <1>1, <1>7 DEF Returns, TurnsFirst
<1>9. EndsWell'
  <2>1. Held' = k
    BY <1>1, <1>5 DEF Held
  <2>2. j \in {"free", "kept"} /\ Path(todo', Held', j, Inside(call'.op))
    BY <1>1, <1>7, <2>1 DEF Returns
  <2>3. j = "kept" => flat' /\ Quiet(todo')
    BY <1>1, <1>4, <1>7 DEF Returns
  <2>4. QED BY <2>2, <2>3 DEF EndsWell
<1>10. QED BY <1>3, <1>8, <1>9 DEF BusInv

(* What a step of a call has to show for itself, and what follows for the  *)
(* rest of the call.                                                       *)
LEMMA StepIs ==
  ASSUME BusInv, todo # <<>>, todo' = Tail(todo), call' = call
  PROVE  /\ step \in BusSteps /\ todo' \in Seq(BusSteps)
         /\ step.op \in Inside(call.op) => Held # "free"
         /\ step.op = "madctl" => drawn = {}
         /\ Held' = After(step.op, Held) /\ (step.op = "leave" \/ flat' = flat) => EndsWell'
         /\ (step.op \in {"words", "dot"} \/ drawn' = drawn) => TurnsFirst'
<1>1. todo \in Seq(BusSteps) /\ step = Head(todo)
  BY DEF BusInv, step
<1>2. PICK k \in {"free", "kept"} :
        Path(todo, Held, k, Inside(call.op)) /\ (k = "kept" => flat /\ Quiet(todo))
  BY DEF BusInv, EndsWell
<1>3. /\ step.op \in Inside(call.op) => Held # "free"
      /\ Path(todo', After(step.op, Held), k, Inside(call.op))
  BY <1>1, <1>2, PathTail
<1>4. /\ step \in BusSteps /\ todo' \in Seq(BusSteps)
      /\ Quiet(todo) => Quiet(todo') /\ step.op # "leave"
      /\ Plain(todo) => Plain(todo') /\ step.op # "madctl"
      /\ NoPixels(todo) => NoPixels(todo') /\ step.op \notin {"words", "dot"}
  BY <1>1, RestIs
<1>5. TurnsFirst
  BY DEF BusInv
<1>6. step.op = "madctl" => drawn = {}
  BY <1>4, <1>5 DEF TurnsFirst
<1>7. ASSUME Held' = After(step.op, Held), step.op = "leave" \/ flat' = flat PROVE EndsWell'
  <2>1. Path(todo', Held', k, Inside(call'.op))
    BY <1>3, <1>7
  <2>2. k = "kept" => flat' /\ Quiet(todo')
    BY <1>2, <1>4, <1>7
  <2>3. QED BY <2>1, <2>2 DEF EndsWell
<1>8. ASSUME step.op \in {"words", "dot"} \/ drawn' = drawn PROVE TurnsFirst'
  <2>1. CASE Plain(todo)
    BY <1>4, <2>1 DEF TurnsFirst
  <2>2. CASE NoPixels(todo) /\ drawn = {}
    <3>1. drawn' = {} /\ NoPixels(todo')
      BY <1>4, <1>8, <2>2
    <3>2. QED BY <3>1 DEF TurnsFirst
  <2>3. QED BY <1>5, <2>1, <2>2 DEF TurnsFirst
<1>9. QED BY <1>3, <1>4, <1>6, <1>7, <1>8

(* The other task takes the bus where it is free, and gives back its own.  *)
LEMMA OthersStep ==
  ASSUME BusInv, bus' \in {"free", "sd"}, bus # "lcd",
         UNCHANGED <<rotation, cache, locked, inTransaction, lcd, todo, call, history>>
  PROVE  BusInv'
<1>1. UNCHANGED <<rotation, addr_col, addr_row, locked, inTransaction, todo, call, drawn, flat, stray>>
  BY DEF cache, history
<1>2. TypeOK' /\ LockMatches' /\ OnlyInTransaction' /\ (locked' => ~inTransaction')
  <2>1. Glass' = Glass
    BY <1>1 DEF Glass
  <2>2. QED BY <1>1, <2>1 DEF BusInv, TypeOK, LockMatches, OnlyInTransaction
<1>3. EndsWell' /\ TurnsFirst'
  <2>1. Held' = Held
    BY <1>1 DEF Held
  <2>2. EndsWell'
    BY <1>1, <2>1 DEF BusInv, EndsWell
  <2>3. TurnsFirst'
    BY <1>1 DEF BusInv, TurnsFirst
  <2>4. QED BY <2>2, <2>3
<1>4. QED BY <1>1, <1>2, <1>3 DEF BusInv

(* spi_begin(): taken twice is taken once.                                 *)
LEMMA BusBegins == ASSUME BusInv, BeginTransaction PROVE BusInv'
<1>1. /\ todo # <<>> /\ step.op = "begin" /\ todo' = Tail(todo)
      /\ UNCHANGED <<rotation, addr_col, addr_row, inTransaction, call, drawn, flat, stray>>
      /\ \/ locked /\ bus = "free" /\ locked' = FALSE /\ bus' = "lcd"
         \/ ~locked /\ locked' = locked /\ bus' = bus
  BY DEF BeginTransaction, Doing, step, cache, history, Unlocks
<1>2. TypeOK /\ LockMatches /\ OnlyInTransaction /\ (locked => ~inTransaction)
  BY DEF BusInv
<1>3. TypeOK' /\ LockMatches' /\ OnlyInTransaction' /\ (locked' => ~inTransaction')
  <2>1. Glass' = Glass
    BY <1>1 DEF Glass
  <2>2. locked' \in BOOLEAN /\ bus' \in {"free", "lcd", "sd"}
    BY <1>1, <1>2 DEF TypeOK
  <2>3. TypeOK'
    BY <1>1, <1>2, <2>1, <2>2 DEF TypeOK
  <2>4. (locked' => bus' # "lcd") /\ (bus' # "lcd" => locked')
    BY <1>1, <1>2 DEF LockMatches
  <2>5. LockMatches'
    BY <2>4 DEF LockMatches
  <2>6. OnlyInTransaction'
    BY <1>1, <1>2 DEF OnlyInTransaction
  <2>7. locked' => ~inTransaction'
    BY <1>1, <1>2
  <2>8. QED BY <2>3, <2>5, <2>6, <2>7
<1>4. Held' = After(step.op, Held)
  BY <1>1, <1>2 DEF Held, After
<1>5. QED BY <1>1, <1>3, <1>4, StepIs DEF BusInv

(* spi_end(): nothing is given back inside the transaction of a shape.     *)
LEMMA BusEnds == ASSUME BusInv, EndTransaction PROVE BusInv'
<1>1. /\ todo # <<>> /\ step.op = "end" /\ todo' = Tail(todo)
      /\ UNCHANGED <<rotation, addr_col, addr_row, inTransaction, call, drawn, flat, stray>>
      /\ \/ ~inTransaction /\ ~locked /\ locked' = TRUE /\ bus' = "free"
         \/ ~(~inTransaction /\ ~locked) /\ locked' = locked /\ bus' = bus
  BY DEF EndTransaction, Doing, step, cache, history, Ends
<1>2. TypeOK /\ LockMatches /\ OnlyInTransaction /\ (locked => ~inTransaction)
  BY DEF BusInv
<1>3. TypeOK' /\ LockMatches' /\ OnlyInTransaction' /\ (locked' => ~inTransaction')
  <2>1. Glass' = Glass
    BY <1>1 DEF Glass
  <2>2. locked' \in BOOLEAN /\ bus' \in {"free", "lcd", "sd"}
    BY <1>1, <1>2 DEF TypeOK
  <2>3. TypeOK'
    BY <1>1, <1>2, <2>1, <2>2 DEF TypeOK
  <2>4. (locked' => bus' # "lcd") /\ (bus' # "lcd" => locked')
    BY <1>1, <1>2 DEF LockMatches
  <2>5. LockMatches'
    BY <2>4 DEF LockMatches
  <2>6. OnlyInTransaction'
    BY <1>1, <1>2 DEF OnlyInTransaction
  <2>7. locked' => ~inTransaction'
    BY <1>1, <1>2
  <2>8. QED BY <2>3, <2>5, <2>6, <2>7
<1>4. Held' = After(step.op, Held)
  BY <1>1, <1>2 DEF Held, After
<1>5. QED BY <1>1, <1>3, <1>4, StepIs DEF BusInv

(* A transaction is kept open only by who has the bus.                     *)
LEMMA BusEnters == ASSUME BusInv, EnterTransaction PROVE BusInv'
<1>1. /\ todo # <<>> /\ step.op = "enter" /\ todo' = Tail(todo) /\ inTransaction' = TRUE
      /\ UNCHANGED <<rotation, addr_col, addr_row, locked, bus, call, drawn, flat, stray>>
  BY DEF EnterTransaction, Doing, step, cache, history
<1>2. TypeOK /\ LockMatches /\ OnlyInTransaction
  BY DEF BusInv
<1>3. ~locked
  <2>1. "enter" \in Inside(call.op)
    BY DEF Inside, Guarded, Unguarded
  <2>2. Held # "free"
    BY <1>1, <2>1, StepIs
  <2>3. QED BY <2>2 DEF Held
<1>4. TypeOK' /\ LockMatches' /\ OnlyInTransaction' /\ (locked' => ~inTransaction')
  <2>1. Glass' = Glass
    BY <1>1 DEF Glass
  <2>2. QED BY <1>1, <1>2, <1>3, <2>1 DEF TypeOK, LockMatches, OnlyInTransaction
<1>5. Held' = After(step.op, Held)
  BY <1>1, <1>3 DEF Held, After
<1>6. QED BY <1>1, <1>4, <1>5, StepIs DEF BusInv

(* And closed whatever the bus.                                            *)
LEMMA BusLeaves == ASSUME BusInv, LeaveTransaction PROVE BusInv'
<1>1. /\ todo # <<>> /\ step.op = "leave" /\ todo' = Tail(todo)
      /\ inTransaction' = FALSE /\ flat' = FALSE
      /\ UNCHANGED <<rotation, addr_col, addr_row, locked, bus, call, drawn, stray>>
  BY DEF LeaveTransaction, Doing, step, cache
<1>2. TypeOK /\ LockMatches /\ OnlyInTransaction /\ (locked => ~inTransaction)
  BY DEF BusInv
<1>3. TypeOK' /\ LockMatches' /\ OnlyInTransaction' /\ (locked' => ~inTransaction')
  <2>1. Glass' = Glass
    BY <1>1 DEF Glass
  <2>2. QED BY <1>1, <1>2, <2>1 DEF TypeOK, LockMatches, OnlyInTransaction
<1>4. Held' = After(step.op, Held)
  BY <1>1, <1>2 DEF Held, After
<1>5. QED BY <1>1, <1>3, <1>4, StepIs DEF BusInv

(* A step that sends keeps the bus; in a call other than that of an        *)
(* enlarged character, the driver has it.                                  *)
LEMMA SendsInside ==
  ASSUME BusInv, todo # <<>>, todo' = Tail(todo), step.op \in Guarded \ {"enter"}, Sends,
         UNCHANGED <<locked, inTransaction, bus, call, flat>>
  PROVE  /\ stray' \in BOOLEAN /\ OnlyInTransaction' /\ LockMatches' /\ (locked' => ~inTransaction')
         /\ Held' = After(step.op, Held) /\ EndsWell'
<1>1. TypeOK /\ LockMatches /\ OnlyInTransaction /\ (locked => ~inTransaction)
  BY DEF BusInv
<1>2. stray' = (stray \/ bus # "lcd")
  BY DEF Sends
<1>3. call.op # "bigChar" => bus = "lcd"
  <2>1. call.op # "bigChar" => step.op \in Inside(call.op)
    BY DEF Inside
  <2>2. call.op # "bigChar" => ~locked
    BY <2>1, StepIs DEF Held
  <2>3. QED BY <1>1, <2>2 DEF LockMatches
<1>4. OnlyInTransaction'
  BY <1>1, <1>2, <1>3 DEF OnlyInTransaction
<1>5. stray' \in BOOLEAN
  BY <1>2
<1>6. Held' = After(step.op, Held)
  BY DEF Held, After, Guarded
<1>7. EndsWell'
  BY <1>6, StepIs
<1>8. QED BY <1>1, <1>4, <1>5, <1>6, <1>7 DEF LockMatches

(* setAddrWindow().                                                        *)
LEMMA BusWindow == ASSUME BusInv, setAddrWindow PROVE BusInv'
<1>1. /\ todo # <<>> /\ step.op = "window" /\ todo' = Tail(todo) /\ Sends
      /\ addr_col' = Unknown /\ addr_row' = Unknown
      /\ UNCHANGED <<rotation, locked, inTransaction, bus, call, drawn, flat>>
  BY DEF setAddrWindow, Doing, step, transaction, Forgets
<1>2. /\ stray' \in BOOLEAN /\ OnlyInTransaction' /\ LockMatches' /\ (locked' => ~inTransaction')
      /\ EndsWell'
  BY <1>1, SendsInside DEF Guarded
<1>3. TypeOK'
  <2>1. Glass' = Glass
    BY <1>1 DEF Glass
  <2>2. QED BY <1>1, <1>2, <2>1 DEF BusInv, TypeOK, Unknown
<1>4. TurnsFirst' /\ todo' \in Seq(BusSteps)
  BY <1>1, StepIs
<1>5. QED BY <1>2, <1>3, <1>4 DEF BusInv

(* drawPixel().                                                            *)
LEMMA BusDot == ASSUME BusInv, drawPixel PROVE BusInv'
<1>1. /\ todo # <<>> /\ step.op = "dot" /\ todo' = Tail(todo) /\ Sends
      /\ addr_col' = step.x /\ addr_row' = step.y
      /\ UNCHANGED <<rotation, locked, inTransaction, bus, call, flat>>
      /\ \E l : drawn' = drawn \cup Written(l, 1)
  BY DEF drawPixel, Doing, step, transaction
<1>2. /\ stray' \in BOOLEAN /\ OnlyInTransaction' /\ LockMatches' /\ (locked' => ~inTransaction')
      /\ EndsWell'
  BY <1>1, SendsInside DEF Guarded
<1>3. TypeOK'
  <2>1. Glass' = Glass
    BY <1>1 DEF Glass
  <2>2. PICK l : drawn' = drawn \cup Written(l, 1)
    BY <1>1
  <2>3. Written(l, 1) \subseteq Glass
    BY DEF Written
  <2>4. drawn' \subseteq Glass
    BY <2>2, <2>3 DEF BusInv, TypeOK
  <2>5. step.x \in Nat /\ step.y \in Nat
    <3>1. step \in BusSteps
      BY <1>1, StepIs
    <3>2. QED BY <1>1, <3>1 DEF BusSteps
  <2>6. QED BY <1>1, <1>2, <2>1, <2>4, <2>5 DEF BusInv, TypeOK
<1>4. TurnsFirst' /\ todo' \in Seq(BusSteps)
  BY <1>1, StepIs
<1>5. QED BY <1>2, <1>3, <1>4 DEF BusInv

(* pushColors() and its like.                                              *)
LEMMA BusWords == ASSUME BusInv, PushPixels PROVE BusInv'
<1>1. /\ todo # <<>> /\ step.op = "words" /\ todo' = Tail(todo) /\ Sends
      /\ drawn' = drawn \cup Written(lcd, step.n)
      /\ UNCHANGED <<rotation, addr_col, addr_row, locked, inTransaction, bus, call, flat>>
  BY DEF PushPixels, Doing, step, transaction, cache
<1>2. /\ stray' \in BOOLEAN /\ OnlyInTransaction' /\ LockMatches' /\ (locked' => ~inTransaction')
      /\ EndsWell'
  BY <1>1, SendsInside DEF Guarded
<1>3. TypeOK'
  <2>1. Glass' = Glass
    BY <1>1 DEF Glass
  <2>2. Written(lcd, step.n) \subseteq Glass
    BY DEF Written
  <2>3. drawn' \subseteq Glass
    BY <1>1, <2>2 DEF BusInv, TypeOK
  <2>4. QED BY <1>1, <1>2, <2>1, <2>3 DEF BusInv, TypeOK
<1>4. TurnsFirst' /\ todo' \in Seq(BusSteps)
  BY <1>1, StepIs
<1>5. QED BY <1>2, <1>3, <1>4 DEF BusInv

(* setRotation() turns an empty picture.                                   *)
LEMMA BusMadctl == ASSUME BusInv, SetMadctl PROVE BusInv'
<1>1. /\ todo # <<>> /\ step.op = "madctl" /\ todo' = Tail(todo) /\ Sends
      /\ rotation' = step.m % 8
      /\ UNCHANGED <<addr_col, addr_row, locked, inTransaction, bus, call, drawn, flat>>
  BY DEF SetMadctl, Doing, step, transaction, cache, Limited
<1>2. /\ stray' \in BOOLEAN /\ OnlyInTransaction' /\ LockMatches' /\ (locked' => ~inTransaction')
      /\ EndsWell'
  BY <1>1, SendsInside DEF Guarded
<1>3. TypeOK'
  <2>1. drawn' = {}
    BY <1>1, StepIs
  <2>2. step.m \in Nat
    <3>1. step \in BusSteps
      BY <1>1, StepIs
    <3>2. QED BY <1>1, <3>1 DEF BusSteps
  <2>3. rotation' \in 0 .. 7
    BY <1>1, <2>2
  <2>4. QED BY <1>1, <1>2, <2>1, <2>3 DEF BusInv, TypeOK
<1>4. TurnsFirst' /\ todo' \in Seq(BusSteps)
  BY <1>1, StepIs
<1>5. QED BY <1>2, <1>3, <1>4 DEF BusInv

(* The window is forgotten after a turn.                                   *)
LEMMA BusForgets == ASSUME BusInv, ForgetWindow PROVE BusInv'
<1>1. /\ todo # <<>> /\ step.op = "forget" /\ todo' = Tail(todo)
      /\ addr_col' = Unknown /\ addr_row' = Unknown
      /\ UNCHANGED <<rotation, locked, inTransaction, bus, call, drawn, flat, stray>>
  BY DEF ForgetWindow, Doing, step, transaction, history, Forgets
<1>2. TypeOK' /\ LockMatches' /\ OnlyInTransaction' /\ (locked' => ~inTransaction')
  <2>1. Glass' = Glass
    BY <1>1 DEF Glass
  <2>2. QED BY <1>1, <2>1 DEF BusInv, TypeOK, LockMatches, OnlyInTransaction, Unknown
<1>3. Held' = After(step.op, Held)
  BY <1>1 DEF Held, After
<1>4. QED BY <1>1, <1>2, <1>3, StepIs DEF BusInv

(* Where nothing changes, nothing changes.                                 *)
LEMMA BusStays == ASSUME BusInv, UNCHANGED vars PROVE BusInv'
<1>1. UNCHANGED <<rotation, addr_col, addr_row, locked, inTransaction, bus, todo, call, drawn, flat, stray>>
  BY DEF vars, cache, transaction, history
<1>2. Glass' = Glass /\ Held' = Held
  BY <1>1 DEF Glass, Held
<1>3. TypeOK' /\ LockMatches' /\ OnlyInTransaction'
  BY <1>1, <1>2 DEF BusInv, TypeOK, LockMatches, OnlyInTransaction
<1>4. EndsWell' /\ TurnsFirst'
  BY <1>1, <1>2 DEF BusInv, EndsWell, TurnsFirst
<1>5. QED BY <1>1, <1>3, <1>4 DEF BusInv

(* Every step keeps the invariant.                                         *)
LEMMA BusKept == BusInv /\ [Next]_vars => BusInv'
<1> SUFFICES ASSUME BusInv, [Next]_vars PROVE BusInv'
  OBVIOUS
<1>1. ASSUME NEW c \in Calls, Calling(c) PROVE BusInv'
  BY <1>1, BusCalling
<1>2. CASE Step
  BY <1>2, BusBegins, BusEnds, BusEnters, BusLeaves, BusWindow, BusDot, BusWords, BusMadctl,
     BusForgets DEF Step
<1>3. CASE SdTakes \/ SdGives
  BY <1>3, OthersStep DEF SdTakes, SdGives
<1>4. CASE UNCHANGED vars
  BY <1>4, BusStays
<1>5. QED BY <1>1, <1>2, <1>3, <1>4 DEF Next

(* For every size of the screen and whatever the sketch calls: the bus is  *)
(* the driver's exactly while its flag says so; what is sent is sent while *)
(* it is (but for the enlarged character on a background); when a call     *)
(* returns, the bus and both flags are as they were (but for the early     *)
(* return of fillTriangle()); and all variables have their types.          *)
THEOREM BusStaysSound == Spec => []BusSound
<1>1. QED BY BusInit, BusInvSays, BusKept, PTL DEF Spec

-----------------------------------------------------------------------------
(* What a sequence of steps draws.  A panel is the controller and what the *)
(* driver remembers of it.                                                 *)
Lcds == [cols : Nat \X Nat, rows : Nat \X Nat, next : Nat]
Panels ==
  {l \in [lcd : Lcds, col : Nat, row : Nat] :
     /\ l.col # Unknown => l.lcd.cols = <<l.col, l.col>>
     /\ l.row # Unknown => l.lcd.rows = <<l.row, l.row>>}

(* What a step makes of a panel, and which pixels of the canvas it writes  *)
Placed(l, x, y) ==
  [cols |-> IF l.col # x THEN <<x, x>> ELSE l.lcd.cols,
   rows |-> IF l.row # y THEN <<y, y>> ELSE l.lcd.rows, next |-> 0]
Pushed(l, n) ==
  [l EXCEPT !.next = IF Open(l) THEN (@ + n) % (Span(l.cols) * Span(l.rows)) ELSE @]
Panel(lcd1, col, row) == [lcd |-> lcd1, col |-> col, row |-> row]
Turned(x, l) ==
  IF x.op = "window"
  THEN Panel([cols |-> Halves(x.x0, x.x1), rows |-> Halves(x.y0, x.y1), next |-> 0], Unknown, Unknown)
  ELSE IF x.op = "dot" THEN Panel([Placed(l, x.x, x.y) EXCEPT !.next = 1], x.x, x.y)
  ELSE IF x.op = "words" THEN Panel(Pushed(l.lcd, x.n), l.col, l.row)
  ELSE IF x.op = "forget" THEN Panel(l.lcd, Unknown, Unknown)
  ELSE l
Lit(l, n) ==
  IF Open(l) THEN {Spot(l, i) : i \in l.next .. l.next + n - 1} \cap Canvas ELSE {}
Ink(x, l) ==
  IF x.op = "dot" THEN Lit(Placed(l, x.x, x.y), 1)
  ELSE IF x.op = "words" THEN Lit(l.lcd, x.n) ELSE {}

(* From the panel l the steps s lead to the panel k and write the pixels P *)
Goes(s, f) ==
  \A i \in 1 .. Len(s) : s[i].op # "madctl" /\ f[i] = Turned(s[i], f[i - 1])
Inks(s, f, z) == \E i \in 1 .. Len(s) : z \in Ink(s[i], f[i - 1])
Leads(s, l, k, P) ==
  \E f \in [0 .. Len(s) -> Panels] :
    f[0] = l /\ f[Len(s)] = k /\ Goes(s, f) /\ \A z : z \in P <=> Inks(s, f, z)

(* A step leaves the controller and the memory of it true.                 *)
LEMMA TurnedType ==
  ASSUME NEW x \in BusSteps, NEW l \in Panels PROVE Turned(x, l) \in Panels
<1>1. /\ l.lcd \in Lcds /\ l.col \in Nat /\ l.row \in Nat
      /\ l.lcd.cols \in Nat \X Nat /\ l.lcd.rows \in Nat \X Nat /\ l.lcd.next \in Nat
      /\ l.col # Unknown => l.lcd.cols = <<l.col, l.col>>
      /\ l.row # Unknown => l.lcd.rows = <<l.row, l.row>>
  BY DEF Panels, Lcds
<1>2. Unknown \in Nat
  BY DEF Unknown
<1>3. CASE x.op = "window"
  <2>1. x.x0 \in Int /\ x.x1 \in Int /\ x.y0 \in Int /\ x.y1 \in Int
    BY <1>3 DEF BusSteps
  <2>2. \A a, b \in Int : Halves(a, b) \in Nat \X Nat
    BY DEF Halves
  <2>3. Halves(x.x0, x.x1) \in Nat \X Nat /\ Halves(x.y0, x.y1) \in Nat \X Nat
    BY <2>1, <2>2
  <2>4. PICK c, r : c = Halves(x.x0, x.x1) /\ r = Halves(x.y0, x.y1)
    OBVIOUS
  <2>5. [cols |-> c, rows |-> r, next |-> 0] \in Lcds
    BY <2>3, <2>4 DEF Lcds
  <2>6. Turned(x, l) = Panel([cols |-> c, rows |-> r, next |-> 0], Unknown, Unknown)
    BY <1>3, <2>4 DEF Turned
  <2>7. QED BY <1>2, <2>5, <2>6 DEF Panel, Panels
<1>4. CASE x.op = "dot"
  <2>1. x.x \in Nat /\ x.y \in Nat
    BY <1>4 DEF BusSteps
  <2>2. PICK c, r : /\ c = (IF l.col # x.x THEN <<x.x, x.x>> ELSE l.lcd.cols)
                    /\ r = (IF l.row # x.y THEN <<x.y, x.y>> ELSE l.lcd.rows)
    OBVIOUS
  <2>3. c \in Nat \X Nat /\ r \in Nat \X Nat
    BY <1>1, <2>1, <2>2
  <2>4. Placed(l, x.x, x.y) = [cols |-> c, rows |-> r, next |-> 0]
    BY <2>2 DEF Placed
  <2>5. [cols |-> c, rows |-> r, next |-> 1] \in Lcds
    BY <2>3 DEF Lcds
  <2>6. Turned(x, l) = Panel([cols |-> c, rows |-> r, next |-> 1], x.x, x.y)
    <3>1. Turned(x, l) = Panel([Placed(l, x.x, x.y) EXCEPT !.next = 1], x.x, x.y)
      BY <1>4 DEF Turned
    <3>2. [Placed(l, x.x, x.y) EXCEPT !.next = 1] = [cols |-> c, rows |-> r, next |-> 1]
      BY <2>4
    <3>3. QED BY <3>1, <3>2
  <2>7. (x.x # Unknown => c = <<x.x, x.x>>) /\ (x.y # Unknown => r = <<x.y, x.y>>)
    BY <1>1, <2>2
  <2>8. PICK d : d = [cols |-> c, rows |-> r, next |-> 1]
    OBVIOUS
  <2>9. d \in Lcds /\ d.cols = c /\ d.rows = r
    BY <2>5, <2>8
  <2>10. Panel(d, x.x, x.y) \in Panels
    BY <2>1, <2>7, <2>9 DEF Panel, Panels
  <2>11. QED BY <2>6, <2>8, <2>10
<1>5. CASE x.op = "words"
  <2>1. x.n \in Int
    BY <1>5 DEF BusSteps
  <2>2. PICK d, n : d = l.lcd /\ n = (IF Open(d) THEN (d.next + x.n) % (Span(d.cols) * Span(d.rows)) ELSE d.next)
    OBVIOUS
  <2>3. n \in Nat
    <3>1. CASE Open(d)
      <4>1. PICK a, b : a = Span(d.cols) /\ b = Span(d.rows)
        OBVIOUS
      <4>2. a \in Int /\ b \in Int /\ a > 0 /\ b > 0
        BY <1>1, <2>2, <3>1, <4>1 DEF Open, Span
      <4>3. a * b \in Nat \ {0}
        BY <4>2
      <4>4. d.next + x.n \in Int
        BY <1>1, <2>1, <2>2
      <4>5. (d.next + x.n) % (a * b) \in Nat
        BY <4>3, <4>4
      <4>6. QED BY <2>2, <3>1, <4>1, <4>5
    <3>2. CASE ~Open(d)
      BY <1>1, <2>2, <3>2
    <3>3. QED BY <3>1, <3>2
  <2>4. Pushed(d, x.n) = [d EXCEPT !.next = n]
    BY <2>2 DEF Pushed
  <2>5. [d EXCEPT !.next = n] \in Lcds
    BY <1>1, <2>2, <2>3 DEF Lcds
  <2>6. Turned(x, l) = Panel(Pushed(d, x.n), l.col, l.row)
    BY <1>5, <2>2 DEF Turned
  <2>7. PICK e : e = Pushed(d, x.n)
    OBVIOUS
  <2>8. e \in Lcds /\ e.cols = l.lcd.cols /\ e.rows = l.lcd.rows
    BY <2>2, <2>4, <2>5, <2>7 DEF Lcds
  <2>9. Panel(e, l.col, l.row) \in Panels
    BY <1>1, <2>8 DEF Panel, Panels
  <2>10. QED BY <2>2, <2>6, <2>7, <2>9
<1>6. CASE x.op = "forget"
  BY <1>1, <1>2, <1>6 DEF Turned, Panel, Panels
<1>7. CASE x.op \notin {"window", "dot", "words", "forget"}
  BY <1>7 DEF Turned
<1>8. QED BY <1>3, <1>4, <1>5, <1>6, <1>7

(* No step leads where it is, and writes nothing.                          *)
LEMMA LeadsNone ==
  ASSUME NEW l \in Panels PROVE Leads(<<>>, l, l, {})
<1> DEFINE f == [i \in 0 .. 0 |-> l]
<1>1. f \in [0 .. 0 -> Panels] /\ f[0] = l
  OBVIOUS
<1>2. Len(<<>>) = 0
  OBVIOUS
<1> HIDE DEF f
<1>3. Goes(<<>>, f) /\ \A z : ~Inks(<<>>, f, z)
  BY <1>2 DEF Goes, Inks
<1>4. QED BY <1>1, <1>2, <1>3 DEF Leads

(* One step leads where it turns the controller, and writes its ink.       *)
LEMMA LeadsOne ==
  ASSUME NEW x \in BusSteps, x.op # "madctl", NEW l \in Panels
  PROVE  Leads(<<x>>, l, Turned(x, l), Ink(x, l))
<1> PICK k : k = Turned(x, l)
  OBVIOUS
<1>1. k \in Panels
  BY TurnedType
<1> DEFINE f == [i \in 0 .. 1 |-> IF i = 0 THEN l ELSE k]
<1>2. f \in [0 .. 1 -> Panels] /\ f[0] = l /\ f[1] = k
  BY <1>1
<1> PICK s : s = <<x>>
  OBVIOUS
<1>3. Len(s) = 1 /\ s[1] = x
  OBVIOUS
<1> HIDE DEF f
<1>4. Goes(s, f)
  <2> SUFFICES ASSUME NEW i \in 1 .. 1 PROVE s[i].op # "madctl" /\ f[i] = Turned(s[i], f[i - 1])
    BY <1>3 DEF Goes
  <2>1. i = 1 /\ i - 1 = 0
    OBVIOUS
  <2>2. QED BY <1>2, <1>3, <2>1
<1>5. ASSUME NEW z PROVE z \in Ink(x, l) <=> Inks(s, f, z)
  <2>1. Inks(s, f, z) <=> \E i \in 1 .. 1 : z \in Ink(s[i], f[i - 1])
    BY <1>3 DEF Inks
  <2>2. 1 \in 1 .. 1 /\ 1 - 1 = 0 /\ \A i \in 1 .. 1 : i = 1
    OBVIOUS
  <2>3. z \in Ink(s[1], f[1 - 1]) <=> z \in Ink(x, l)
    BY <1>2, <1>3, <2>2
  <2>4. QED BY <2>1, <2>2, <2>3
<1>6. Leads(s, l, k, Ink(x, l))
  BY <1>2, <1>3, <1>4, <1>5 DEF Leads
<1>7. QED BY <1>6

(* One sequence after the other                                            *)
LEMMA LeadsJoin ==
  ASSUME NEW s \in Seq(BusSteps), NEW t \in Seq(BusSteps), NEW l, NEW k, NEW j, NEW P, NEW Q,
         Leads(s, l, k, P), Leads(t, k, j, Q)
  PROVE  Leads(s \o t, l, j, P \cup Q)
<1>1. PICK f \in [0 .. Len(s) -> Panels] :
        f[0] = l /\ f[Len(s)] = k /\ Goes(s, f) /\ \A z : z \in P <=> Inks(s, f, z)
  BY DEF Leads
<1>2. PICK g \in [0 .. Len(t) -> Panels] :
        g[0] = k /\ g[Len(t)] = j /\ Goes(t, g) /\ \A z : z \in Q <=> Inks(t, g, z)
  BY DEF Leads
<1> PICK a, b, u : a = Len(s) /\ b = Len(t) /\ u = s \o t
  OBVIOUS
<1>3. /\ a \in Nat /\ b \in Nat /\ Len(u) = a + b
      /\ \A i \in 1 .. a + b : u[i] = IF i <= a THEN s[i] ELSE t[i - a]
  BY ConcatProperties
<1> DEFINE n == [i \in 0 .. a + b |-> IF i <= a THEN f[i] ELSE g[i - a]]
<1>4. n \in [0 .. a + b -> Panels]
  <2> SUFFICES ASSUME NEW i \in 0 .. a + b PROVE n[i] \in Panels
    OBVIOUS
  <2>1. CASE i <= a
    <3>1. i \in 0 .. a
      BY <1>3, <2>1
    <3>2. QED BY <2>1, <3>1
  <2>2. CASE ~(i <= a)
    <3>1. i - a \in 0 .. b
      BY <1>3, <2>2
    <3>2. QED BY <1>3, <2>2, <3>1
  <2>3. QED BY <2>1, <2>2
<1>5. n[0] = l
  BY <1>1, <1>3
<1>6. \A i \in 0 .. a : n[i] = f[i]
  BY <1>3
<1>7. \A d \in 0 .. b : n[a + d] = g[d]
  <2> TAKE d \in 0 .. b
  <2>1. a + d \in 0 .. a + b
    BY <1>3
  <2>2. CASE d = 0
    <3>1. a + d = a /\ a \in 0 .. a
      BY <1>3, <2>2
    <3>2. QED BY <1>1, <1>2, <1>6, <2>2, <3>1
  <2>3. CASE d # 0
    <3>1. ~(a + d <= a) /\ (a + d) - a = d
      BY <1>3, <2>3
    <3>2. QED BY <2>1, <3>1
  <2>4. QED BY <2>2, <2>3
<1> HIDE DEF n
<1>8. n[a + b] = j
  BY <1>2, <1>3, <1>7
<1>9. /\ \A i \in 1 .. a : i \in 1 .. a + b /\ u[i] = s[i] /\ n[i] = f[i] /\ n[i - 1] = f[i - 1]
      /\ \A d \in 1 .. b : /\ a + d \in 1 .. a + b /\ u[a + d] = t[d] /\ n[a + d] = g[d]
                           /\ n[(a + d) - 1] = g[d - 1]
      /\ \A i \in 1 .. a + b : i \in 1 .. a \/ \E d \in 1 .. b : i = a + d
  <2>1. ASSUME NEW i \in 1 .. a
        PROVE  i \in 1 .. a + b /\ u[i] = s[i] /\ n[i] = f[i] /\ n[i - 1] = f[i - 1]
    <3>1. i \in 1 .. a + b /\ i <= a /\ i \in 0 .. a /\ i - 1 \in 0 .. a
      BY <1>3
    <3>2. QED BY <1>3, <1>6, <3>1
  <2>2. ASSUME NEW d \in 1 .. b
        PROVE  /\ a + d \in 1 .. a + b /\ u[a + d] = t[d] /\ n[a + d] = g[d]
               /\ n[(a + d) - 1] = g[d - 1]
    <3>1. /\ a + d \in 1 .. a + b /\ ~(a + d <= a) /\ (a + d) - a = d /\ d \in 0 .. b
          /\ d - 1 \in 0 .. b /\ (a + d) - 1 = a + (d - 1)
      BY <1>3
    <3>2. QED BY <1>3, <1>7, <3>1
  <2>3. ASSUME NEW i \in 1 .. a + b PROVE i \in 1 .. a \/ \E d \in 1 .. b : i = a + d
    <3>1. CASE i <= a
      BY <1>3, <3>1
    <3>2. CASE ~(i <= a)
      <4>1. i - a \in 1 .. b /\ i = a + (i - a)
        BY <1>3, <3>2
      <4>2. QED BY <4>1
    <3>3. QED BY <3>1, <3>2
  <2>4. QED BY <2>1, <2>2, <2>3
<1>10. Goes(u, n)
  <2>1. ASSUME NEW i \in 1 .. a + b PROVE u[i].op # "madctl" /\ n[i] = Turned(u[i], n[i - 1])
    <3>1. CASE i \in 1 .. a
      <4>1. s[i].op # "madctl" /\ f[i] = Turned(s[i], f[i - 1])
        BY <1>1, <3>1 DEF Goes
      <4>2. QED BY <1>9, <3>1, <4>1
    <3>2. ASSUME NEW d \in 1 .. b, i = a + d PROVE u[i].op # "madctl" /\ n[i] = Turned(u[i], n[i - 1])
      <4>1. t[d].op # "madctl" /\ g[d] = Turned(t[d], g[d - 1])
        BY <1>2 DEF Goes
      <4>2. QED BY <1>9, <3>2, <4>1
    <3>3. QED BY <1>9, <3>1, <3>2
  <2>2. QED BY <1>3, <2>1 DEF Goes
<1>11. ASSUME NEW z PROVE z \in P \cup Q <=> Inks(u, n, z)
  <2>1. ASSUME z \in P PROVE Inks(u, n, z)
    <3>1. PICK i \in 1 .. a : z \in Ink(s[i], f[i - 1])
      BY <1>1, <2>1 DEF Inks
    <3>2. i \in 1 .. Len(u) /\ z \in Ink(u[i], n[i - 1])
      BY <1>3, <1>9, <3>1
    <3>3. QED BY <3>2 DEF Inks
  <2>2. ASSUME z \in Q PROVE Inks(u, n, z)
    <3>1. PICK d \in 1 .. b : z \in Ink(t[d], g[d - 1])
      BY <1>2, <2>2 DEF Inks
    <3>2. a + d \in 1 .. Len(u) /\ z \in Ink(u[a + d], n[(a + d) - 1])
      BY <1>3, <1>9, <3>1
    <3>3. QED BY <3>2 DEF Inks
  <2>3. ASSUME Inks(u, n, z) PROVE z \in P \cup Q
    <3>1. PICK i \in 1 .. a + b : z \in Ink(u[i], n[i - 1])
      BY <1>3, <2>3 DEF Inks
    <3>2. CASE i \in 1 .. a
      <4>1. z \in Ink(s[i], f[i - 1])
        BY <1>9, <3>1, <3>2
      <4>2. Inks(s, f, z)
        BY <3>2, <4>1 DEF Inks
      <4>3. QED BY <1>1, <4>2
    <3>3. ASSUME NEW d \in 1 .. b, i = a + d PROVE z \in P \cup Q
      <4>1. z \in Ink(t[d], g[d - 1])
        BY <1>9, <3>1, <3>3
      <4>2. Inks(t, g, z)
        BY <4>1 DEF Inks
      <4>3. QED BY <1>2, <4>2
    <3>4. QED BY <1>9, <3>2, <3>3
  <2>4. QED BY <2>1, <2>2, <2>3
<1>12. Leads(u, l, j, P \cup Q)
  BY <1>3, <1>4, <1>5, <1>8, <1>10, <1>11 DEF Leads
<1>13. QED BY <1>12

(* After its first step a sequence goes on from the panel it left, and     *)
(* writes the rest                                                         *)
LEMMA LeadsTail ==
  ASSUME NEW s \in Seq(BusSteps), s # <<>>, NEW l, NEW k, NEW P, Leads(s, l, k, P)
  PROVE  /\ Head(s).op # "madctl"
         /\ \E Q : Leads(Tail(s), Turned(Head(s), l), k, Q) /\ P = Ink(Head(s), l) \cup Q
<1>1. PICK f \in [0 .. Len(s) -> Panels] :
        f[0] = l /\ f[Len(s)] = k /\ Goes(s, f) /\ \A z : z \in P <=> Inks(s, f, z)
  BY DEF Leads
<1> PICK a, u, x : a = Len(s) /\ u = Tail(s) /\ x = Head(s)
  OBVIOUS
<1>2. a \in Nat \ {0} /\ Len(u) = a - 1 /\ x = s[1] /\ \A i \in 1 .. a - 1 : u[i] = s[i + 1]
  OBVIOUS
<1> DEFINE n == [i \in 0 .. a - 1 |-> f[i + 1]]
           Q == {z \in P : Inks(u, n, z)}
<1>3. n \in [0 .. a - 1 -> Panels]
  BY <1>2
<1>4. \A i \in 0 .. a - 1 : n[i] = f[i + 1]
  OBVIOUS
<1> HIDE DEF n
<1>5. n[0] = Turned(x, l) /\ x.op # "madctl"
  <2>1. 1 \in 1 .. a /\ 1 - 1 = 0 /\ 0 \in 0 .. a - 1 /\ 0 + 1 = 1
    BY <1>2
  <2>2. f[1] = Turned(s[1], f[1 - 1]) /\ s[1].op # "madctl"
    BY <1>1, <2>1 DEF Goes
  <2>3. QED BY <1>1, <1>2, <1>4, <2>1, <2>2
<1>6. n[a - 1] = k
  <2>1. a - 1 \in 0 .. a - 1 /\ (a - 1) + 1 = a
    BY <1>2
  <2>2. QED BY <1>1, <1>4, <2>1
<1>7. \A i \in 1 .. a - 1 : /\ i + 1 \in 1 .. a /\ n[i] = f[i + 1] /\ u[i] = s[i + 1]
                            /\ n[i - 1] = f[i] /\ (i + 1) - 1 = i
  <2> TAKE i \in 1 .. a - 1
  <2>1. /\ i \in 0 .. a - 1 /\ i - 1 \in 0 .. a - 1 /\ (i - 1) + 1 = i /\ i + 1 \in 1 .. a
        /\ (i + 1) - 1 = i
    BY <1>2
  <2>2. QED BY <1>2, <1>4, <2>1
<1>8. Goes(u, n)
  <2>1. ASSUME NEW i \in 1 .. a - 1 PROVE u[i].op # "madctl" /\ n[i] = Turned(u[i], n[i - 1])
    <3>1. s[i + 1].op # "madctl" /\ f[i + 1] = Turned(s[i + 1], f[(i + 1) - 1])
      BY <1>1, <1>7 DEF Goes
    <3>2. QED BY <1>7, <3>1
  <2>2. QED BY <1>2, <2>1 DEF Goes
<1>9. ASSUME NEW z, Inks(u, n, z) PROVE z \in P
  <2>1. PICK i \in 1 .. a - 1 : z \in Ink(u[i], n[i - 1])
    BY <1>2, <1>9 DEF Inks
  <2>2. i + 1 \in 1 .. a /\ z \in Ink(s[i + 1], f[(i + 1) - 1])
    BY <1>7, <2>1
  <2>3. Inks(s, f, z)
    BY <2>2 DEF Inks
  <2>4. QED BY <1>1, <2>3
<1>10. \A z : z \in Q <=> Inks(u, n, z)
  BY <1>9
<1> HIDE DEF Q
<1>11. Leads(u, Turned(x, l), k, Q)
  BY <1>2, <1>3, <1>5, <1>6, <1>8, <1>10 DEF Leads
<1>12. ASSUME NEW z PROVE z \in P <=> z \in Ink(x, l) \/ z \in Q
  <2>1. 1 \in 1 .. a /\ 1 - 1 = 0
    BY <1>2
  <2>2. ASSUME z \in Ink(x, l) PROVE z \in P
    <3>1. z \in Ink(s[1], f[1 - 1])
      BY <1>1, <1>2, <2>1, <2>2
    <3>2. Inks(s, f, z)
      BY <2>1, <3>1 DEF Inks
    <3>3. QED BY <1>1, <3>2
  <2>3. ASSUME z \in Q PROVE z \in P
    BY <1>9, <1>10, <2>3
  <2>4. ASSUME z \in P PROVE z \in Ink(x, l) \/ z \in Q
    <3>1. PICK i \in 1 .. a : z \in Ink(s[i], f[i - 1])
      BY <1>1, <2>4 DEF Inks
    <3>2. CASE i = 1
      <4>1. i - 1 = 0
        BY <3>2
      <4>2. QED BY <1>1, <1>2, <3>1, <3>2, <4>1
    <3>3. CASE i # 1
      <4>1. PICK d : d = i - 1
        OBVIOUS
      <4>2. d \in 1 .. a - 1 /\ i = d + 1 /\ (d + 1) - 1 = d
        BY <1>2, <3>3, <4>1
      <4>3. z \in Ink(s[d + 1], f[d])
        BY <3>1, <4>1, <4>2
      <4>4. z \in Ink(u[d], n[d - 1])
        BY <1>7, <4>2, <4>3
      <4>5. Inks(u, n, z)
        BY <1>2, <4>2, <4>4 DEF Inks
      <4>6. QED BY <1>10, <4>5
    <3>4. QED BY <3>2, <3>3
  <2>5. QED BY <2>2, <2>3, <2>4
<1>13. P = Ink(x, l) \cup Q
  BY <1>12
<1>14. QED BY <1>5, <1>11, <1>13

(* Where no step is left, nothing is left to be written.                   *)
LEMMA LeadsEnd ==
  ASSUME NEW l, NEW k, NEW P, Leads(<<>>, l, k, P) PROVE P = {}
<1>1. Len(<<>>) = 0
  OBVIOUS
<1>2. PICK f : \A z : z \in P <=> Inks(<<>>, f, z)
  BY DEF Leads
<1>3. \A z : ~Inks(<<>>, f, z)
  BY <1>1 DEF Inks
<1>4. QED BY <1>2, <1>3

(* From any panel of A, the steps s lead to one of B and write P.          *)
Takes(s, A, B, P) ==
  s \in Seq(BusSteps) /\ A \subseteq Panels /\ \A l \in A : \E k \in B : Leads(s, l, k, P)

(* No step takes the panels of A anywhere.                                 *)
LEMMA TakesNone == ASSUME NEW A, A \subseteq Panels PROVE Takes(<<>>, A, A, {})
<1>1. <<>> \in Seq(BusSteps)
  OBVIOUS
<1>2. QED BY <1>1, LeadsNone DEF Takes

(* One step takes them where it turns each of them, if it writes the same  *)
(* on all.                                                                 *)
LEMMA TakesOne ==
  ASSUME NEW x \in BusSteps, x.op # "madctl", NEW A, A \subseteq Panels, NEW B, NEW P,
         \A l \in A : Turned(x, l) \in B /\ Ink(x, l) = P
  PROVE  Takes(<<x>>, A, B, P)
<1>1. <<x>> \in Seq(BusSteps)
  OBVIOUS
<1>2. ASSUME NEW l \in A PROVE \E k \in B : Leads(<<x>>, l, k, P)
  <2>1. l \in Panels
    OBVIOUS
  <2>2. Leads(<<x>>, l, Turned(x, l), Ink(x, l))
    BY <2>1, LeadsOne, Zenon
  <2>3. PICK k : k = Turned(x, l)
    OBVIOUS
  <2>4. Leads(<<x>>, l, k, P) /\ k \in B
    BY <2>2, <2>3, Zenon
  <2>5. QED BY <2>4
<1>3. QED BY <1>1, <1>2 DEF Takes

(* The steps of a transaction do nothing to a panel.                       *)
LEMMA TakesIdle ==
  ASSUME NEW x \in BusSteps, x.op \in {"begin", "end", "enter", "leave"}, NEW A, A \subseteq Panels
  PROVE  Takes(<<x>>, A, A, {})
<1>1. \A l \in A : Turned(x, l) \in A /\ Ink(x, l) = {}
  BY DEF Turned, Ink
<1>2. QED BY <1>1, TakesOne

(* What is written one after the other is written together.                *)
LEMMA TakesJoin ==
  ASSUME NEW s, NEW t, NEW A, NEW B, NEW C, NEW P, NEW Q, Takes(s, A, B, P), Takes(t, B, C, Q)
  PROVE  Takes(s \o t, A, C, P \cup Q)
<1>1. s \in Seq(BusSteps) /\ t \in Seq(BusSteps) /\ A \subseteq Panels
  BY DEF Takes
<1>2. s \o t \in Seq(BusSteps)
  BY <1>1, ConcatProperties
<1>3. ASSUME NEW l \in A PROVE \E j \in C : Leads(s \o t, l, j, P \cup Q)
  <2>1. PICK k \in B : Leads(s, l, k, P)
    BY DEF Takes
  <2>2. PICK j \in C : Leads(t, k, j, Q)
    BY DEF Takes
  <2>3. Leads(s \o t, l, j, P \cup Q)
    BY <1>1, <2>1, <2>2, LeadsJoin
  <2>4. QED BY <2>3
<1>4. QED BY <1>1, <1>2, <1>3 DEF Takes

(* A step before which nothing, and one after which nothing, is drawn      *)
LEMMA TakesAfter ==
  ASSUME NEW s, NEW x, NEW A, NEW B, NEW P, Takes(s, A, B, P), B \subseteq Panels,
         x \in BusSteps, x.op \in {"begin", "end", "enter", "leave"}
  PROVE  Takes(s \o <<x>>, A, B, P)
<1>1. Takes(<<x>>, B, B, {})
  BY TakesIdle
<1>2. PICK t : t = <<x>>
  OBVIOUS
<1>3. Takes(s \o t, A, B, P \cup {})
  BY <1>1, <1>2, TakesJoin
<1>4. P \cup {} = P
  OBVIOUS
<1>5. QED BY <1>2, <1>3, <1>4

(* One sequence after the other                                            *)
Together(ps, n) == UNION {ps[i] : i \in 1 .. n}

(* The pieces of a call, one after the other: each takes the panels from   *)
(* g[i - 1] to g[i].                                                       *)
LEMMA FlattenTakes ==
  ASSUME NEW S, NEW ss \in Seq(S), NEW g, NEW ps,
         g[0] \subseteq Panels,
         \A i \in 1 .. Len(ss) : Takes(ss[i], g[i - 1], g[i], ps[i])
  PROVE  Takes(FlattenSeq(ss), g[0], g[Len(ss)], Together(ps, Len(ss)))
<1>1. Len(ss) \in Nat
  OBVIOUS
<1>2. CASE ss = <<>>
  <2>1. Len(ss) = 0 /\ Together(ps, 0) = {}
    BY <1>2 DEF Together
  <2>2. QED BY <1>2, <2>1, FlattenNone, TakesNone
<1>3. CASE ss # <<>>
  <2>1. PICK f : /\ FlattenSeq(ss) = f[Len(ss)] /\ f[1] = ss[1]
                 /\ \A i \in 2 .. Len(ss) : f[i] = f[i - 1] \o ss[i]
    BY <1>3, FlattenIs
  <2> DEFINE V == {n \in Nat : n = 0 \/ Takes(f[n], g[0], g[n], Together(ps, n))}
  <2>2. 0 \in V
    OBVIOUS
  <2>3. ASSUME NEW n \in Nat, n < Len(ss), n \in V PROVE n + 1 \in V
    <3>1. n + 1 \in 1 .. Len(ss) /\ (n + 1) - 1 = n
      BY <1>1, <2>3
    <3>2. PICK m : m = n + 1
      OBVIOUS
    <3>3. Takes(ss[m], g[n], g[m], ps[m])
      BY <3>1, <3>2
    <3>4. Together(ps, m) = Together(ps, n) \cup ps[m]
      <4>1. \A i : i \in 1 .. m <=> i \in 1 .. n \/ i = m
        BY <3>2
      <4>2. QED BY <4>1 DEF Together
    <3>5. CASE n = 0
      <4>1. Together(ps, n) = {}
        BY <3>5 DEF Together
      <4>2. m = 1
        BY <3>2, <3>5
      <4>6. Together(ps, m) = ps[m]
        BY <3>4, <4>1
      <4>3. f[m] = ss[m]
        BY <2>1, <4>2
      <4>4. Takes(f[m], g[0], g[m], Together(ps, m))
        BY <3>3, <3>5, <4>3, <4>6
      <4>5. QED BY <3>2, <4>4
    <3>6. CASE n # 0
      <4>1. Takes(f[n], g[0], g[n], Together(ps, n))
        BY <2>3, <3>6
      <4>2. m \in 2 .. Len(ss) /\ m - 1 = n
        BY <3>1, <3>2, <3>6
      <4>3. PICK a, b : a = f[n] /\ b = ss[m]
        OBVIOUS
      <4>4. f[m] = a \o b
        BY <2>1, <4>2, <4>3
      <4>5. Takes(a \o b, g[0], g[m], Together(ps, n) \cup ps[m])
        BY <3>3, <4>1, <4>3, TakesJoin
      <4>6. Takes(f[m], g[0], g[m], Together(ps, m))
        BY <3>4, <4>4, <4>5, Zenon
      <4>7. QED BY <3>2, <4>6
    <3>7. QED BY <3>5, <3>6
  <2> HIDE DEF V
  <2>4. \A n \in 0 .. Len(ss) : n \in V
    BY <1>1, <2>2, <2>3, Induct
  <2>5. Len(ss) \in V /\ Len(ss) # 0
    BY <1>1, <1>3, <2>4
  <2>6. Takes(f[Len(ss)], g[0], g[Len(ss)], Together(ps, Len(ss)))
    BY <2>5 DEF V
  <2>7. QED BY <2>1, <2>6
<1>4. QED BY <1>2, <1>3

-----------------------------------------------------------------------------
(* Division with a remainder                                               *)
LEMMA Division ==
  ASSUME NEW a \in Nat, NEW w \in Nat \ {0}
  PROVE  /\ a \div w \in Nat /\ a % w \in 0 .. w - 1 /\ a = w * (a \div w) + (a % w)
<1>1. a \div w \in Nat
  OBVIOUS
<1>2. a % w \in 0 .. w - 1
  OBVIOUS
<1>3. a = w * (a \div w) + (a % w)
  OBVIOUS
<1>4. QED BY <1>1, <1>2, <1>3

(* There is one quotient and one remainder.                                *)
LEMMA DivisionOnly ==
  ASSUME NEW w \in Nat \ {0}, NEW q \in Nat, NEW r \in 0 .. w - 1
  PROVE  (w * q + r) \div w = q /\ (w * q + r) % w = r
<1> PICK a, d, m : a = w * q + r /\ d = a \div w /\ m = a % w
  OBVIOUS
<1>1. w * q \in Nat
  OBVIOUS
<1>2. a \in Nat
  BY <1>1
<1>3. d \in Nat /\ m \in 0 .. w - 1 /\ a = w * d + m
  BY <1>2, Division
<1>4. d = q
  <2>1. w * d + m = w * q + r
    BY <1>3
  <2>2. ~(d < q)
    <3> SUFFICES ASSUME d < q PROVE FALSE
      OBVIOUS
    <3>1. PICK e \in Nat : q = d + 1 + e
      <4>1. q - d - 1 \in Nat /\ q = d + 1 + (q - d - 1)
        BY <1>3
      <4>2. QED BY <4>1
    <3>2. w * q = w * d + w + w * e
      BY <1>3, <3>1
    <3>3. w * e \in Nat /\ w * d \in Nat
      BY <1>3
    <3>4. QED BY <1>3, <2>1, <3>2, <3>3
  <2>3. ~(q < d)
    <3> SUFFICES ASSUME q < d PROVE FALSE
      OBVIOUS
    <3>1. PICK e \in Nat : d = q + 1 + e
      <4>1. d - q - 1 \in Nat /\ d = q + 1 + (d - q - 1)
        BY <1>3
      <4>2. QED BY <4>1
    <3>2. w * d = w * q + w + w * e
      BY <1>3, <3>1
    <3>3. w * e \in Nat /\ w * q \in Nat
      BY <1>3
    <3>4. QED BY <1>3, <2>1, <3>2, <3>3
  <2>4. QED BY <1>3, <2>2, <2>3
<1>5. m = r
  BY <1>1, <1>3, <1>4
<1>6. QED BY <1>4, <1>5

(* The cells of a rectangle, row after row                                 *)
LEMMA Raster ==
  ASSUME NEW w \in Nat \ {0}, NEW h \in Nat \ {0}
  PROVE  /\ \A i \in 0 .. w * h - 1 : i % w \in 0 .. w - 1 /\ i \div w \in 0 .. h - 1
         /\ \A u \in 0 .. w - 1, v \in 0 .. h - 1 : w * v + u \in 0 .. w * h - 1
<1>1. w * h \in Nat
  OBVIOUS
<1>2. ASSUME NEW i \in 0 .. w * h - 1 PROVE i % w \in 0 .. w - 1 /\ i \div w \in 0 .. h - 1
  <2> PICK d, m : d = i \div w /\ m = i % w
    OBVIOUS
  <2>1. i \in Nat
    BY <1>1
  <2>2. d \in Nat /\ m \in 0 .. w - 1 /\ i = w * d + m
    BY <2>1, Division
  <2>3. d < h
    <3> SUFFICES ASSUME ~(d < h) PROVE FALSE
      OBVIOUS
    <3>1. PICK e \in Nat : d = h + e
      <4>1. d - h \in Nat /\ d = h + (d - h)
        BY <2>2
      <4>2. QED BY <4>1
    <3>2. w * d = w * h + w * e
      BY <3>1
    <3>3. w * e \in Nat
      OBVIOUS
    <3>4. QED BY <1>1, <2>2, <3>2, <3>3
  <2>4. QED BY <2>2, <2>3
<1>3. ASSUME NEW u \in 0 .. w - 1, NEW v \in 0 .. h - 1 PROVE w * v + u \in 0 .. w * h - 1
  <2>1. PICK e \in Nat : h = v + 1 + e
    <3>1. h - v - 1 \in Nat /\ h = v + 1 + (h - v - 1)
      OBVIOUS
    <3>2. QED BY <3>1
  <2>2. w * h = w * v + w + w * e
    BY <2>1
  <2>3. w * e \in Nat /\ w * v \in Nat
    OBVIOUS
  <2>4. QED BY <2>2, <2>3
<1>4. QED BY <1>2, <1>3

(* The cells i .. j - 1 of a rectangle of width w at the column a and the  *)
(* row b, row after row; and all of them                                   *)
Cells(a, b, w, i, j) == {<<a + (k % w), b + (k \div w)>> : k \in i .. j - 1}

(* The number of pixels of a window.                                       *)
Whole(w, h, n) == n = w * h

(* The pixels of a window, row after row, are all of its columns and rows. *)
LEMMA CellsAre ==
  ASSUME NEW a \in Nat, NEW b \in Nat, NEW w \in Nat \ {0}, NEW h \in Nat \ {0}, NEW n, Whole(w, h, n)
  PROVE  Cells(a, b, w, 0, n) = (a .. a + w - 1) \X (b .. b + h - 1)
<1> n = w * h
  BY DEF Whole
<1>1. ASSUME NEW k \in 0 .. n - 1
      PROVE  <<a + (k % w), b + (k \div w)>> \in (a .. a + w - 1) \X (b .. b + h - 1)
  <2>1. PICK m, d : m = k % w /\ d = k \div w
    OBVIOUS
  <2>2. m \in 0 .. w - 1 /\ d \in 0 .. h - 1
    BY <2>1, Raster
  <2>3. a + m \in a .. a + w - 1 /\ b + d \in b .. b + h - 1
    BY <2>2
  <2>4. QED BY <2>1, <2>3
<1>2. ASSUME NEW x \in a .. a + w - 1, NEW y \in b .. b + h - 1
      PROVE  \E k \in 0 .. n - 1 : <<x, y>> = <<a + (k % w), b + (k \div w)>>
  <2>1. PICK u, v : u = x - a /\ v = y - b
    OBVIOUS
  <2>2. u \in 0 .. w - 1 /\ v \in 0 .. h - 1 /\ x = a + u /\ y = b + v
    BY <2>1
  <2>3. PICK k : k = w * v + u
    OBVIOUS
  <2>4. k \in 0 .. n - 1
    BY <2>2, <2>3, Raster
  <2>5. v \in Nat
    BY <2>2
  <2>6. k \div w = v /\ k % w = u
    BY <2>2, <2>3, <2>5, DivisionOnly
  <2>7. QED BY <2>2, <2>4, <2>6
<1>3. Cells(a, b, w, 0, n) \subseteq (a .. a + w - 1) \X (b .. b + h - 1)
  BY <1>1 DEF Cells
<1>4. (a .. a + w - 1) \X (b .. b + h - 1) \subseteq Cells(a, b, w, 0, n)
  <2> SUFFICES ASSUME NEW z \in (a .. a + w - 1) \X (b .. b + h - 1) PROVE z \in Cells(a, b, w, 0, n)
    OBVIOUS
  <2>1. PICK x \in a .. a + w - 1, y \in b .. b + h - 1 : z = <<x, y>>
    OBVIOUS
  <2>2. PICK k \in 0 .. n - 1 : <<x, y>> = <<a + (k % w), b + (k \div w)>>
    BY <1>2
  <2>3. QED BY <2>1, <2>2 DEF Cells
<1>5. QED BY <1>3, <1>4

(* What a window takes: the n cells from the i-th on                       *)
Opened(l, a, b, w, h, i) ==
  l.cols = <<a, a + w - 1>> /\ l.rows = <<b, b + h - 1>> /\ l.next = i

(* The numbers of a window that has been opened.                           *)
LEMMA OpenedSpans ==
  ASSUME NEW a \in Nat, NEW b \in Nat, NEW w \in Nat, NEW h \in Nat, NEW i, NEW l,
         Opened(l, a, b, w, h, i)
  PROVE  Span(l.cols) = w /\ Span(l.rows) = h /\ l.cols[1] = a /\ l.rows[1] = b /\ l.next = i
<1>1. l.cols[1] = a /\ l.cols[2] = a + w - 1 /\ l.rows[1] = b /\ l.rows[2] = b + h - 1 /\ l.next = i
  BY DEF Opened
<1>2. QED BY <1>1 DEF Span

(* What is sent to an open window goes to its next cells.                  *)
LEMMA WindowTakes ==
  ASSUME NEW a \in Nat, NEW b \in Nat, NEW w \in Nat \ {0}, NEW h \in Nat \ {0},
         NEW i \in Nat, NEW n \in Nat, i + n <= w * h, NEW l, Opened(l, a, b, w, h, i)
  PROVE  Lit(l, n) = Cells(a, b, w, i, i + n) \cap Canvas
<1>1. Span(l.cols) = w /\ Span(l.rows) = h /\ l.cols[1] = a /\ l.rows[1] = b /\ l.next = i
  BY OpenedSpans
<1>2. Open(l)
  BY <1>1 DEF Open
<1>3. ASSUME NEW k \in i .. i + n - 1
      PROVE  Spot(l, k) = <<a + (k % w), b + (k \div w)>>
  <2>1. w * h \in Int
    OBVIOUS
  <2>2. k \in 0 .. w * h - 1
    BY <2>1
  <2>3. PICK d : d = k \div w
    OBVIOUS
  <2>4. d \in 0 .. h - 1
    BY <2>2, <2>3, Raster
  <2>5. d % h = d
    <3>1. 0 \in Nat /\ h * 0 + d = d
      BY <2>4
    <3>2. (h * 0 + d) % h = d
      BY <2>4, <3>1, DivisionOnly
    <3>3. QED BY <3>1, <3>2
  <2>6. Spot(l, k) = <<a + (k % w), b + ((k \div w) % h)>>
    BY <1>1 DEF Spot
  <2>7. QED BY <2>3, <2>5, <2>6
<1>4. {Spot(l, k) : k \in i .. i + n - 1} = {<<a + (k % w), b + (k \div w)>> : k \in i .. i + n - 1}
  BY <1>3
<1>5. Lit(l, n) = {Spot(l, k) : k \in i .. i + n - 1} \cap Canvas
  BY <1>1, <1>2 DEF Lit
<1>6. Cells(a, b, w, i, i + n) = {<<a + (k % w), b + (k \div w)>> : k \in i .. i + n - 1}
  BY DEF Cells
<1>7. QED BY <1>4, <1>5, <1>6, Zenon

(* No pixels, or a window that ends before it begins: nothing is written.  *)
LEMMA NothingWritten ==
  ASSUME NEW l \in Lcds, NEW n \in Int, n <= 0 \/ ~Open(l) PROVE Lit(l, n) = {}
<1>1. l.next \in Nat
  BY DEF Lcds
<1>2. n <= 0 => l.next .. l.next + n - 1 = {}
  BY <1>1
<1>3. QED BY <1>2 DEF Lit

(* Two numbers of 16 bits are their two halves.                            *)
LEMMA HalvesAre ==
  ASSUME NEW a \in Nat, NEW b \in Nat, a < 65536, b < 65536 PROVE Halves(a, b) = <<a, b>>
<1>1. ASSUME NEW n \in Nat, n < 65536 PROVE n % 65536 = n
  BY <1>1
<1>2. a % 65536 = a /\ b % 65536 = b
  BY <1>1
<1>3. ~(b < 0)
  OBVIOUS
<1>4. QED BY <1>2, <1>3 DEF Halves

(* The controller after setAddrWindow()                                    *)
NewWindow(a, b, c, d) == [cols |-> Halves(a, c), rows |-> Halves(b, d), next |-> 0]

(* The window registers hold numbers, whatever setAddrWindow() is given.   *)
LEMMA NewWindowIs ==
  ASSUME NEW a \in Int, NEW b \in Int, NEW c \in Int, NEW d \in Int PROVE NewWindow(a, b, c, d) \in Lcds
<1>1. \A p, q \in Int : Halves(p, q) \in Nat \X Nat
  BY DEF Halves
<1>2. Halves(a, c) \in Nat \X Nat /\ Halves(b, d) \in Nat \X Nat
  BY <1>1
<1>3. PICK e, f : e = Halves(a, c) /\ f = Halves(b, d)
  OBVIOUS
<1>4. [cols |-> e, rows |-> f, next |-> 0] \in Lcds
  BY <1>2, <1>3 DEF Lcds
<1>5. QED BY <1>3, <1>4 DEF NewWindow

(* The registers hold it                                                   *)
Fits(a, w) == a + w <= 65536

(* A window within 16 bits is opened as it is given.                       *)
LEMMA NewWindowOpened ==
  ASSUME NEW a \in Nat, NEW b \in Nat, NEW w \in Nat \ {0}, NEW h \in Nat \ {0},
         Fits(a, w), Fits(b, h)
  PROVE  Opened(NewWindow(a, b, a + w - 1, b + h - 1), a, b, w, h, 0)
<1>1. PICK c, d : c = a + w - 1 /\ d = b + h - 1
  OBVIOUS
<1>2. a < 65536 /\ b < 65536 /\ c \in Nat /\ d \in Nat /\ c < 65536 /\ d < 65536
  BY <1>1 DEF Fits
<1>3. Halves(a, c) = <<a, c>> /\ Halves(b, d) = <<b, d>>
  BY <1>2, HalvesAre
<1>4. NewWindow(a, b, c, d) = [cols |-> <<a, c>>, rows |-> <<b, d>>, next |-> 0]
  BY <1>3 DEF NewWindow
<1>5. Opened([cols |-> <<a, c>>, rows |-> <<b, d>>, next |-> 0], a, b, w, h, 0)
  BY <1>1 DEF Opened
<1>6. QED BY <1>1, <1>4, <1>5

(* A window that begins left of or above the screen ends before it begins  *)
LEMMA NewWindowClosed ==
  ASSUME NEW a \in Int, NEW b \in Int, NEW c \in Int, NEW d \in Int,
         (a < 0 /\ c >= 0 /\ c - a < 100) \/ (b < 0 /\ d >= 0 /\ d - b < 100)
  PROVE  ~Open(NewWindow(a, b, c, d))
<1>1. ASSUME NEW p \in Int, NEW q \in Int, p < 0, q >= 0, q - p < 100 PROVE ~(Span(Halves(p, q)) > 0)
  <2>1. q % 65536 = q /\ p % 65536 = p + 65536
    BY <1>1
  <2>2. ~(q < 0)
    BY <1>1
  <2>3. Halves(p, q) = <<p + 65536, q>>
    BY <2>1, <2>2 DEF Halves
  <2>4. Span(<<p + 65536, q>>) = q - (p + 65536) + 1
    BY DEF Span
  <2>5. QED BY <1>1, <2>3, <2>4
<1>2. PICK e, f : e = Halves(a, c) /\ f = Halves(b, d)
  OBVIOUS
<1>3. ~(Span(e) > 0) \/ ~(Span(f) > 0)
  BY <1>1, <1>2
<1>4. NewWindow(a, b, c, d).cols = e /\ NewWindow(a, b, c, d).rows = f
  BY <1>2 DEF NewWindow
<1>5. QED BY <1>3, <1>4 DEF Open

(* What setAddrWindow() and the pixels do.                                 *)
LEMMA TurnedIs ==
  ASSUME NEW l
  PROVE  /\ \A a, b, c, d : Turned(Window(a, b, c, d), l) = Panel(NewWindow(a, b, c, d), Unknown, Unknown)
                           /\ Ink(Window(a, b, c, d), l) = {}
         /\ \A n : Turned(Words(n), l) = Panel(Pushed(l.lcd, n), l.col, l.row)
                   /\ Ink(Words(n), l) = Lit(l.lcd, n)
<1>1. ASSUME NEW a, NEW b, NEW c, NEW d
      PROVE  /\ Turned(Window(a, b, c, d), l) = Panel(NewWindow(a, b, c, d), Unknown, Unknown)
             /\ Ink(Window(a, b, c, d), l) = {}
  <2>1. PICK x : x = Window(a, b, c, d)
    OBVIOUS
  <2>2. x.op = "window" /\ x.x0 = a /\ x.y0 = b /\ x.x1 = c /\ x.y1 = d
    BY <2>1 DEF Window
  <2>3. Turned(x, l) = Panel(NewWindow(a, b, c, d), Unknown, Unknown)
    BY <2>2, Zenon DEF Turned, NewWindow
  <2>4. Ink(x, l) = {}
    BY <2>2 DEF Ink
  <2>5. QED BY <2>1, <2>3, <2>4
<1>2. ASSUME NEW n
      PROVE  /\ Turned(Words(n), l) = Panel(Pushed(l.lcd, n), l.col, l.row)
             /\ Ink(Words(n), l) = Lit(l.lcd, n)
  <2>1. PICK x : x = Words(n)
    OBVIOUS
  <2>2. x.op = "words" /\ x.n = n
    BY <2>1 DEF Words
  <2>3. Turned(x, l) = Panel(Pushed(l.lcd, n), l.col, l.row)
    BY <2>2 DEF Turned
  <2>4. Ink(x, l) = Lit(l.lcd, n)
    BY <2>2 DEF Ink
  <2>5. QED BY <2>1, <2>3, <2>4
<1>3. QED BY <1>1, <1>2

(* A window and its pixels, alone and in a transaction of their own        *)
Behind(d) == {l \in Panels : l.lcd = d}

(* Wherever the controller was, it is behind the new window.               *)
LEMMA WindowGoes ==
  ASSUME NEW a \in Int, NEW b \in Int, NEW c \in Int, NEW d \in Int
  PROVE  Takes(<<Window(a, b, c, d)>>, Panels, Behind(NewWindow(a, b, c, d)), {})
<1>1. PICK x, e : x = Window(a, b, c, d) /\ e = NewWindow(a, b, c, d)
  OBVIOUS
<1>2. x \in BusSteps /\ x.op # "madctl"
  BY <1>1, WindowIs DEF Sending
<1>3. ASSUME NEW l \in Panels PROVE Turned(x, l) \in Behind(e) /\ Ink(x, l) = {}
  <2>1. Turned(x, l) = Panel(e, Unknown, Unknown) /\ Ink(x, l) = {}
    <3>1. /\ Turned(Window(a, b, c, d), l) = Panel(NewWindow(a, b, c, d), Unknown, Unknown)
          /\ Ink(Window(a, b, c, d), l) = {}
      BY TurnedIs
    <3>2. QED BY <1>1, <3>1
  <2>2. Turned(x, l) \in Panels
    BY <1>2, TurnedType
  <2>3. QED BY <2>1, <2>2 DEF Behind, Panel
<1>4. Takes(<<x>>, Panels, Behind(e), {})
  BY <1>2, <1>3, TakesOne
<1>5. QED BY <1>1, <1>4

(* Pixels go to the window the controller has.                             *)
LEMMA WordsGo ==
  ASSUME NEW d, NEW n \in Int
  PROVE  Takes(<<Words(n)>>, Behind(d), Behind(Pushed(d, n)), Lit(d, n))
<1>1. PICK x, e : x = Words(n) /\ e = Pushed(d, n)
  OBVIOUS
<1>2. x \in BusSteps /\ x.op # "madctl"
  BY <1>1, WordsIs DEF Sending
<1>3. ASSUME NEW l \in Behind(d) PROVE Turned(x, l) \in Behind(e) /\ Ink(x, l) = Lit(d, n)
  <2>1. l \in Panels /\ l.lcd = d
    BY DEF Behind
  <2>2. Turned(x, l) = Panel(e, l.col, l.row) /\ Ink(x, l) = Lit(d, n)
    BY <1>1, <2>1, TurnedIs
  <2>3. Turned(x, l) \in Panels
    BY <1>2, <2>1, TurnedType
  <2>4. QED BY <2>2, <2>3 DEF Behind, Panel
<1>4. Behind(d) \subseteq Panels
  BY DEF Behind
<1>5. Takes(<<x>>, Behind(d), Behind(e), Lit(d, n))
  BY <1>2, <1>3, <1>4, TakesOne
<1>6. QED BY <1>1, <1>5

(* What takes more panels, to fewer, takes these.                          *)
LEMMA TakesWeaker ==
  ASSUME NEW s, NEW A, NEW B, NEW C, NEW D, NEW P, Takes(s, A, B, P), C \subseteq A, B \subseteq D
  PROVE  Takes(s, C, D, P)
BY DEF Takes

(* A window and its pixels draw the same whatever was before.              *)
LEMMA WindowAndWords ==
  ASSUME NEW a \in Int, NEW b \in Int, NEW c \in Int, NEW d \in Int, NEW n \in Int
  PROVE  Takes(<<Window(a, b, c, d), Words(n)>>, Panels, Panels, Lit(NewWindow(a, b, c, d), n))
<1>1. PICK x, y, e, P : /\ x = Window(a, b, c, d) /\ y = Words(n) /\ e = NewWindow(a, b, c, d)
                        /\ P = Lit(e, n)
  OBVIOUS
<1>2. Takes(<<x>>, Panels, Behind(e), {})
  BY <1>1, WindowGoes
<1>3. Takes(<<y>>, Behind(e), Panels, P)
  <2>1. Takes(<<y>>, Behind(e), Behind(Pushed(e, n)), P)
    BY <1>1, WordsGo
  <2>2. Behind(Pushed(e, n)) \subseteq Panels
    BY DEF Behind
  <2>3. QED BY <2>1, <2>2, TakesWeaker
<1>4. Takes(<<x>> \o <<y>>, Panels, Panels, {} \cup P)
  BY <1>2, <1>3, TakesJoin
<1>5. {} \cup P = P /\ <<x, y>> = <<x>> \o <<y>>
  BY Pair
<1>6. Takes(<<x, y>>, Panels, Panels, P)
  BY <1>4, <1>5, Zenon
<1>7. QED BY <1>1, <1>6, Zenon

(* So they do in a transaction of their own.                               *)
LEMMA SentTakes ==
  ASSUME NEW a \in Int, NEW b \in Int, NEW c \in Int, NEW d \in Int, NEW n \in Int
  PROVE  Takes(Sent(Window(a, b, c, d), n), Panels, Panels, Lit(NewWindow(a, b, c, d), n))
<1>1. PICK x, y, P : x = Window(a, b, c, d) /\ y = Words(n) /\ P = Lit(NewWindow(a, b, c, d), n)
  OBVIOUS
<1>2. Takes(<<x, y>>, Panels, Panels, P)
  BY <1>1, WindowAndWords
<1>3. Takes(<<Begin>>, Panels, Panels, {})
  BY Constants, TakesIdle
<1>4. Takes(<<Begin>> \o <<x, y>>, Panels, Panels, {} \cup P)
  BY <1>2, <1>3, TakesJoin
<1>5. <<Begin, x, y>> = <<Begin>> \o <<x, y>>
  OBVIOUS
<1>6. {} \cup P = P
  OBVIOUS
<1>7. Takes(<<Begin, x, y>>, Panels, Panels, P)
  BY <1>4, <1>5, <1>6, Zenon
<1>8. Takes(<<Begin, x, y>> \o <<End>>, Panels, Panels, P)
  BY <1>7, Constants, TakesAfter
<1>9. Sent(x, n) = <<Begin, x, y>> \o <<End>>
  BY <1>1, Quadruple DEF Sent
<1>10. QED BY <1>1, <1>8, <1>9

(* The pixels of a window, all of them                                     *)
LEMMA Filled ==
  ASSUME NEW a \in Nat, NEW b \in Nat, NEW w \in Nat \ {0}, NEW h \in Nat \ {0},
         Fits(a, w), Fits(b, h)
  PROVE  Lit(NewWindow(a, b, a + w - 1, b + h - 1), w * h) =
         ((a .. a + w - 1) \X (b .. b + h - 1)) \cap Canvas
<1>1. PICK l, n : l = NewWindow(a, b, a + w - 1, b + h - 1) /\ n = w * h
  OBVIOUS
<1>2. n \in Nat /\ 0 + n <= n /\ 0 + n = n
  BY <1>1
<1>3. Opened(l, a, b, w, h, 0)
  BY <1>1, NewWindowOpened
<1>4. Lit(l, n) = Cells(a, b, w, 0, 0 + n) \cap Canvas
  BY <1>1, <1>2, <1>3, WindowTakes
<1>5. Lit(l, n) = Cells(a, b, w, 0, n) \cap Canvas
  BY <1>2, <1>4
<1>6. Whole(w, h, n)
  BY <1>1 DEF Whole
<1>7. Cells(a, b, w, 0, n) = (a .. a + w - 1) \X (b .. b + h - 1)
  BY <1>6, CellsAre
<1>8. QED BY <1>1, <1>5, <1>7

(* The part of an area that is on the glass, column- and row-wise          *)
Strip(x, w, n) == (x .. x + w - 1) \cap (0 .. n - 1)
Visible(x, y, w, h) == Strip(x, w, _width) \X Strip(y, h, _height)

(* The part of an area that is on the screen.                              *)
LEMMA VisibleIs ==
  ASSUME NEW x, NEW y, NEW w, NEW h
  PROVE  ((x .. x + w - 1) \X (y .. y + h - 1)) \cap Canvas = Visible(x, y, w, h)
<1>1. \A A, B, C, D : (A \X B) \cap (C \X D) = (A \cap C) \X (B \cap D)
  OBVIOUS
<1> PICK A, B, C, D : /\ A = x .. x + w - 1 /\ B = y .. y + h - 1
                      /\ C = 0 .. _width - 1 /\ D = 0 .. _height - 1
  OBVIOUS
<1>2. Canvas = C \X D /\ Visible(x, y, w, h) = (A \cap C) \X (B \cap D)
  BY DEF Canvas, Visible, Strip
<1>3. QED BY <1>1, <1>2

(* What is to be seen of a primitive.                                      *)
LEMMA CutIs ==
  ASSUME NEW p, p.x \in Int, p.y \in Int, p.w \in Int, p.h \in Int
  PROVE  Cut(p) = IF p.x < 0 \/ p.y < 0 THEN {} ELSE Visible(p.x, p.y, p.w, p.h)
<1>1. Area(p) \cap Canvas = Visible(p.x, p.y, p.w, p.h)
  BY VisibleIs DEF Area
<1>2. QED BY <1>1 DEF Cut

(* A strip that has no width or begins beyond the screen is empty.         *)
LEMMA StripEmpty ==
  ASSUME NEW x \in Int, NEW w \in Int, NEW n \in Int, w < 1 \/ x >= n PROVE Strip(x, w, n) = {}
BY DEF Strip

(* A strip cut off at the edge shows the same.                             *)
LEMMA StripCut ==
  ASSUME NEW x \in Int, NEW w \in Int, NEW n \in Int, x + w >= n
  PROVE  Strip(x, n - x, n) = Strip(x, w, n)
BY DEF Strip

(* Nothing is seen of an area of which no column or no row is.             *)
LEMMA VisibleEmpty ==
  ASSUME NEW x, NEW y, NEW w, NEW h, Strip(x, w, _width) = {} \/ Strip(y, h, _height) = {}
  PROVE  Visible(x, y, w, h) = {}
BY DEF Visible

(* An area in full                                                         *)
LEMMA FilledVisible ==
  ASSUME NEW x \in Nat, NEW y \in Nat, NEW w \in Nat, NEW h \in Nat, Fits(x, w), Fits(y, h)
  PROVE  Lit(NewWindow(x, y, x + w - 1, y + h - 1), w * h) = Visible(x, y, w, h)
<1>1. CASE w # 0 /\ h # 0
  <2>1. w \in Nat \ {0} /\ h \in Nat \ {0}
    BY <1>1
  <2>2. Lit(NewWindow(x, y, x + w - 1, y + h - 1), w * h) =
        ((x .. x + w - 1) \X (y .. y + h - 1)) \cap Canvas
    BY <2>1, Filled
  <2>3. QED BY <2>2, VisibleIs
<1>2. CASE w = 0 \/ h = 0
  <2>1. w * h = 0
    BY <1>2
  <2>2. PICK c, d : c = x + w - 1 /\ d = y + h - 1
    OBVIOUS
  <2>3. c \in Int /\ d \in Int /\ x \in Int /\ y \in Int
    BY <2>2
  <2>4. NewWindow(x, y, c, d) \in Lcds
    BY <2>3, NewWindowIs
  <2>5. Lit(NewWindow(x, y, c, d), 0) = {}
    BY <2>4, NothingWritten
  <2>6. _width \in Int /\ _height \in Int => Visible(x, y, w, h) = {}
    BY <1>2, StripEmpty, VisibleEmpty
  <2>7. Visible(x, y, w, h) = {}
    BY <1>2 DEF Visible, Strip
  <2>8. QED BY <2>1, <2>2, <2>5, <2>7
<1>3. QED BY <1>1, <1>2

(* A window and its pixels fill what is to be seen of the area.            *)
LEMMA AreaTakes ==
  ASSUME NEW x \in Nat, NEW y \in Nat, NEW w \in Nat, NEW h \in Nat, Fits(x, w), Fits(y, h)
  PROVE  Takes(Sent(Window(x, y, x + w - 1, y + h - 1), w * h), Panels, Panels, Visible(x, y, w, h))
<1>1. PICK c, d, n : c = x + w - 1 /\ d = y + h - 1 /\ n = w * h
  OBVIOUS
<1>2. c \in Int /\ d \in Int /\ n \in Int /\ x \in Int /\ y \in Int
  BY <1>1
<1>3. Takes(Sent(Window(x, y, c, d), n), Panels, Panels, Lit(NewWindow(x, y, c, d), n))
  BY <1>2, SentTakes
<1>4. Lit(NewWindow(x, y, c, d), n) = Visible(x, y, w, h)
  BY <1>1, FilledVisible
<1>5. QED BY <1>1, <1>3, <1>4

(* One pixel is a window of one cell.                                      *)
LEMMA OneCell ==
  ASSUME NEW a \in Nat, NEW b \in Nat
  PROVE  Cells(a, b, 1, 0, 1) = (a .. a + 1 - 1) \X (b .. b + 1 - 1)
<1>1. ASSUME NEW w \in Nat \ {0}, NEW h \in Nat \ {0}, NEW n, Whole(w, h, n)
      PROVE  Cells(a, b, w, 0, n) = (a .. a + w - 1) \X (b .. b + h - 1)
  BY <1>1, CellsAre
<1>2. 1 \in Nat \ {0} /\ Whole(1, 1, 1)
  BY DEF Whole
<1>3. QED BY <1>1, <1>2

(* drawPixel()                                                             *)
LEMMA DotTakes ==
  ASSUME rotation \in 0 .. 7, NEW x \in Nat, NEW y \in Nat, x < _width, y < _height
  PROVE  Takes(<<Begin, Dot(x, y), End>>, Panels, Panels, Visible(x, y, 1, 1))
<1>1. PICK d, P : d = Dot(x, y) /\ P = Visible(x, y, 1, 1)
  OBVIOUS
<1>2. d \in BusSteps /\ d.op = "dot" /\ d.x = x /\ d.y = y
  BY <1>1 DEF Dot, BusSteps
<1>3. _width \in Int /\ _width <= 1000 /\ _height \in Int /\ _height <= 1000
  BY Sizes
<1>4. x # Unknown /\ y # Unknown
  BY <1>3 DEF Unknown
<1>5. ASSUME NEW l \in Panels PROVE Turned(d, l) \in Panels /\ Ink(d, l) = P
  <2>1. Turned(d, l) \in Panels
    BY <1>2, TurnedType
  <2>2. (l.col = x => l.lcd.cols = <<x, x>>) /\ (l.row = y => l.lcd.rows = <<y, y>>)
    BY <1>4 DEF Panels
  <2>3. Placed(l, x, y) = [cols |-> <<x, x>>, rows |-> <<y, y>>, next |-> 0]
    BY <2>2 DEF Placed
  <2>4. PICK m : m = Placed(l, x, y)
    OBVIOUS
  <2>5. PICK u : u = 1
    OBVIOUS
  <2>6. u \in Nat \ {0} /\ u \in Nat /\ 0 \in Nat /\ 0 + u <= u * u /\ 0 + u = u /\ u = u * u
    BY <2>5
  <2>7. Opened(m, x, y, u, u, 0)
    <3>1. x = x + u - 1 /\ y = y + u - 1
      BY <2>5
    <3>2. QED BY <2>3, <2>4, <3>1 DEF Opened
  <2>8. Lit(m, u) = Cells(x, y, u, 0, 0 + u) \cap Canvas
    BY <2>6, <2>7, WindowTakes
  <2>9. Cells(x, y, u, 0, u) = (x .. x + u - 1) \X (y .. y + u - 1)
    BY <2>5, OneCell
  <2>10. Lit(m, 1) = P
    <3>1. P = ((x .. x + u - 1) \X (y .. y + u - 1)) \cap Canvas
      BY <1>1, <2>5, VisibleIs
    <3>2. QED BY <2>5, <2>6, <2>8, <2>9, <3>1
  <2>11. Ink(d, l) = Lit(m, 1)
    BY <1>2, <2>4 DEF Ink
  <2>12. QED BY <2>1, <2>10, <2>11
<1>6. Takes(<<d>>, Panels, Panels, P)
  BY <1>2, <1>5, TakesOne
<1>7. Takes(<<Begin>>, Panels, Panels, {})
  BY Constants, TakesIdle
<1>8. Takes(<<Begin>> \o <<d>>, Panels, Panels, {} \cup P)
  BY <1>6, <1>7, TakesJoin
<1>9. <<Begin, d>> = <<Begin>> \o <<d>> /\ {} \cup P = P
  BY Pair
<1>10. Takes(<<Begin, d>>, Panels, Panels, P)
  BY <1>8, <1>9, Zenon
<1>11. Takes(<<Begin, d>> \o <<End>>, Panels, Panels, P)
  BY <1>10, Constants, TakesAfter
<1>12. QED BY <1>1, <1>11, Triple

(* The screen has at most 1000 columns and rows.                           *)
LEMMA Small ==
  rotation \in 0 .. 7 => _width \in Nat /\ _height \in Nat /\ _width <= 1000 /\ _height <= 1000
<1> SUFFICES ASSUME rotation \in 0 .. 7
             PROVE  _width \in Nat /\ _height \in Nat /\ _width <= 1000 /\ _height <= 1000
  OBVIOUS
<1>1. _width \in Int /\ _width <= 1000 /\ _height \in Int /\ _height <= 1000
  BY Sizes
<1>2. _width >= 1 /\ _height >= 1
  BY Sizes
<1>3. QED BY <1>1, <1>2

(* What is clipped is within 16 bits, and shows the same.                  *)
LEMMA ClippedStrip ==
  ASSUME NEW x \in Nat, NEW w \in Nat \ {0}, NEW n \in Nat, n <= 1000, x <= n, NEW v,
         (v = n - x /\ x + w >= n) \/ (v = w /\ x + w <= n + 1)
  PROVE  v \in Nat /\ Fits(x, v) /\ Strip(x, v, n) = Strip(x, w, n)
<1>1. CASE v = n - x /\ x + w >= n
  <2>1. Strip(x, n - x, n) = Strip(x, w, n)
    BY <1>1, StripCut
  <2>2. QED BY <1>1, <2>1 DEF Fits
<1>2. CASE v = w /\ x + w <= n + 1
  BY <1>2 DEF Fits
<1>3. QED BY <1>1, <1>2

(* Clipping a primitive takes nothing away that would be seen.             *)
LEMMA ClippedIs ==
  ASSUME rotation \in 0 .. 7, NEW p \in Prims, Seen(p)
  PROVE  /\ Clipped(p).x = p.x /\ Clipped(p).y = p.y /\ p.x \in Nat /\ p.y \in Nat
         /\ Clipped(p).w \in Nat /\ Clipped(p).h \in Nat
         /\ Fits(p.x, Clipped(p).w) /\ Fits(p.y, Clipped(p).h)
         /\ Visible(p.x, p.y, Clipped(p).w, Clipped(p).h) = Visible(p.x, p.y, p.w, p.h)
<1>1. /\ p.x \in Nat /\ p.y \in Nat /\ p.w \in Nat \ {0} /\ p.h \in Nat \ {0}
      /\ p.x <= _width /\ p.y <= _height
  BY Small DEF Seen, Prims
<1>2. _width \in Nat /\ _width <= 1000 /\ _height \in Nat /\ _height <= 1000
  BY Small
<1> PICK v, u :
      /\ v = (IF IF p.op = "rect" THEN p.x + p.w - 1 > _width ELSE p.x + p.w - 1 >= _width
              THEN _width - p.x ELSE p.w)
      /\ u = (IF IF p.op = "rect" THEN p.y + p.h - 1 > _height ELSE p.y + p.h - 1 >= _height
              THEN _height - p.y ELSE p.h)
  OBVIOUS
<1>3. Clipped(p) = [p EXCEPT !.w = v, !.h = u]
  BY Zenon DEF Clipped
<1>4. Clipped(p).x = p.x /\ Clipped(p).y = p.y /\ Clipped(p).w = v /\ Clipped(p).h = u
  BY <1>3 DEF Prims
<1>5. (v = _width - p.x /\ p.x + p.w >= _width) \/ (v = p.w /\ p.x + p.w <= _width + 1)
  BY <1>1, <1>2
<1>6. (u = _height - p.y /\ p.y + p.h >= _height) \/ (u = p.h /\ p.y + p.h <= _height + 1)
  BY <1>1, <1>2
<1>7. v \in Nat /\ Fits(p.x, v) /\ Strip(p.x, v, _width) = Strip(p.x, p.w, _width)
  BY <1>1, <1>2, <1>5, ClippedStrip
<1>8. u \in Nat /\ Fits(p.y, u) /\ Strip(p.y, u, _height) = Strip(p.y, p.h, _height)
  BY <1>1, <1>2, <1>6, ClippedStrip
<1>9. Visible(p.x, p.y, v, u) = Visible(p.x, p.y, p.w, p.h)
  BY <1>7, <1>8 DEF Visible
<1>10. QED BY <1>1, <1>4, <1>7, <1>8, <1>9

(* drawPixel(), drawFastVLine(), drawFastHLine() and fillRect() draw what  *)
(* is to be seen of them, whatever the window was and whatever the driver  *)
(* remembers of it.                                                        *)
LEMMA PrimitiveTakes ==
  ASSUME rotation \in 0 .. 7, NEW p \in Prims PROVE Takes(Primitive(p), Panels, Panels, Cut(p))
<1>1. p.x \in Int /\ p.y \in Int /\ p.w \in Int /\ p.h \in Int
      /\ (p.op = "pixel" => p.w = 1 /\ p.h = 1)
  BY DEF Prims
<1>2. _width \in Nat /\ _height \in Nat
  BY Small
<1>3. Cut(p) = IF p.x < 0 \/ p.y < 0 THEN {} ELSE Visible(p.x, p.y, p.w, p.h)
  BY <1>1, CutIs
<1>4. CASE ~Seen(p)
  <2>1. Primitive(p) = <<>>
    BY <1>4 DEF Primitive
  <2>2. CASE p.x < 0 \/ p.y < 0
    BY <1>3, <2>1, <2>2, TakesNone
  <2>3. CASE ~(p.x < 0 \/ p.y < 0)
    <3>1. p.w < 1 \/ p.h < 1 \/ p.x >= _width \/ p.y >= _height
      BY <1>1, <1>2, <1>4, <2>3 DEF Seen
    <3>2. Strip(p.x, p.w, _width) = {} \/ Strip(p.y, p.h, _height) = {}
      BY <1>1, <1>2, <3>1, StripEmpty
    <3>3. Cut(p) = {}
      BY <1>3, <2>3, <3>2, VisibleEmpty
    <3>4. QED BY <2>1, <3>3, TakesNone
  <2>4. QED BY <2>2, <2>3
<1>5. CASE Seen(p) /\ p.op = "pixel"
  <2>1. p.x \in Nat /\ p.y \in Nat /\ p.x < _width /\ p.y < _height
    BY <1>1, <1>5 DEF Seen
  <2>2. Primitive(p) = <<Begin, Dot(p.x, p.y), End>>
    BY <1>5 DEF Primitive
  <2>3. Cut(p) = Visible(p.x, p.y, 1, 1)
    BY <1>1, <1>3, <1>5, <2>1
  <2>4. Takes(<<Begin, Dot(p.x, p.y), End>>, Panels, Panels, Visible(p.x, p.y, 1, 1))
    BY <2>1, DotTakes
  <2>5. QED BY <2>2, <2>3, <2>4
<1>6. CASE Seen(p) /\ p.op # "pixel"
  <2> PICK q : q = Clipped(p)
    OBVIOUS
  <2>1. /\ q.x = p.x /\ q.y = p.y /\ p.x \in Nat /\ p.y \in Nat /\ q.w \in Nat /\ q.h \in Nat
        /\ Fits(p.x, q.w) /\ Fits(p.y, q.h)
        /\ Visible(p.x, p.y, q.w, q.h) = Visible(p.x, p.y, p.w, p.h)
    BY <1>6, ClippedIs
  <2>2. Primitive(p) = Sent(WindowOf(q), q.w * q.h)
    BY <1>6 DEF Primitive
  <2>3. WindowOf(q) = Window(p.x, p.y, p.x + q.w - 1, p.y + q.h - 1)
    BY <2>1 DEF WindowOf
  <2>4. Takes(Sent(Window(p.x, p.y, p.x + q.w - 1, p.y + q.h - 1), q.w * q.h), Panels, Panels,
              Visible(p.x, p.y, q.w, q.h))
    BY <2>1, AreaTakes
  <2>5. Cut(p) = Visible(p.x, p.y, q.w, q.h)
    BY <1>1, <1>3, <2>1
  <2>6. QED BY <2>2, <2>3, <2>4, <2>5
<1>7. QED BY <1>4, <1>5, <1>6

(* Sequences of pieces each of which may start anywhere                    *)
LEMMA Pieces ==
  ASSUME NEW S, NEW ss \in Seq(S), NEW ps, \A i \in 1 .. Len(ss) : Takes(ss[i], Panels, Panels, ps[i])
  PROVE  Takes(FlattenSeq(ss), Panels, Panels, Together(ps, Len(ss)))
<1> PICK n : n = Len(ss)
  OBVIOUS
<1>1. n \in Nat
  OBVIOUS
<1> PICK g : g = [i \in 0 .. n |-> Panels]
  OBVIOUS
<1>2. \A i \in 0 .. n : g[i] = Panels
  OBVIOUS
<1>3. g[0] = Panels /\ g[n] = Panels /\ g[0] \subseteq Panels
  BY <1>1, <1>2
<1>4. ASSUME NEW i \in 1 .. n PROVE Takes(ss[i], g[i - 1], g[i], ps[i])
  <2>1. i - 1 \in 0 .. n /\ i \in 0 .. n
    BY <1>1
  <2>2. g[i - 1] = Panels /\ g[i] = Panels
    BY <1>2, <2>1
  <2>3. QED BY <2>2
<1>5. Takes(FlattenSeq(ss), g[0], g[Len(ss)], Together(ps, Len(ss)))
  BY <1>3, <1>4, FlattenTakes
<1>6. QED BY <1>3, <1>5

(* So do any number of them.                                               *)
LEMMA DrawTakes ==
  ASSUME rotation \in 0 .. 7, NEW prims \in Seq(Prims)
  PROVE  Takes(Draw(prims), Panels, Panels, Picture(prims))
<1> PICK n : n = Len(prims)
  OBVIOUS
<1>1. n \in Nat /\ DOMAIN prims = 1 .. n
  OBVIOUS
<1>0. PICK ss, ps : ss = [i \in 1 .. n |-> Primitive(prims[i])] /\ ps = [i \in 1 .. n |-> Cut(prims[i])]
  OBVIOUS
<1>2. ss \in Seq(Calm) /\ Len(ss) = n
  <2>1. \A i \in 1 .. n : Primitive(prims[i]) \in Calm
    BY PrimitiveIs
  <2>2. ss \in [1 .. n -> Calm]
    BY <1>0, <2>1
  <2>3. QED BY <1>1, <2>2, IsSeq
<1>3. ASSUME NEW i \in 1 .. n PROVE Takes(ss[i], Panels, Panels, ps[i])
  <2>1. prims[i] \in Prims
    BY <1>1
  <2>2. Takes(Primitive(prims[i]), Panels, Panels, Cut(prims[i]))
    BY <2>1, PrimitiveTakes
  <2>3. QED BY <1>0, <2>2
<1>4. Takes(FlattenSeq(ss), Panels, Panels, Together(ps, n))
  <2>1. \A i \in 1 .. Len(ss) : Takes(ss[i], Panels, Panels, ps[i])
    BY <1>2, <1>3
  <2>2. Takes(FlattenSeq(ss), Panels, Panels, Together(ps, Len(ss)))
    BY <1>2, <2>1, Pieces
  <2>3. QED BY <1>2, <2>2
<1>5. Draw(prims) = FlattenSeq(ss)
  BY <1>0, <1>1 DEF Draw
<1>6. Picture(prims) = Together(ps, n)
  <2>1. {Cut(prims[i]) : i \in 1 .. n} = {ps[i] : i \in 1 .. n}
    BY <1>0
  <2>2. Picture(prims) = UNION {Cut(prims[i]) : i \in 1 .. n}
    BY <1>1 DEF Picture
  <2>3. QED BY <2>1, <2>2 DEF Together
<1>7. QED BY <1>4, <1>5, <1>6

-----------------------------------------------------------------------------
(* How a shape begins.                                                     *)
LEMMA OpensTake == Takes(<<Begin, Enter>>, Panels, Panels, {})
<1>1. Takes(<<Begin>>, Panels, Panels, {})
  BY Constants, TakesIdle
<1>2. Takes(<<Begin>> \o <<Enter>>, Panels, Panels, {})
  BY <1>1, Constants, TakesAfter
<1>3. QED BY <1>2, Pair

(* How a shape ends.                                                       *)
LEMMA ClosesTake == Takes(<<Leave, End>>, Panels, Panels, {})
<1>1. Takes(<<Leave>>, Panels, Panels, {})
  BY Constants, TakesIdle
<1>2. Takes(<<Leave>> \o <<End>>, Panels, Panels, {})
  BY <1>1, Constants, TakesAfter
<1>3. QED BY <1>2, Pair

(* A piece that may start on any panel, and what it paints                 *)
Paints(s, P) == Takes(s, Panels, Panels, P)

(* Two pictures, one after the other, are both.                            *)
LEMMA PaintsJoin ==
  ASSUME NEW s, NEW t, NEW P, NEW Q, Paints(s, P), Paints(t, Q) PROVE Paints(s \o t, P \cup Q)
BY TakesJoin DEF Paints

(* A shape that is left by an early return has been drawn.                 *)
LEMMA OpenPaints ==
  ASSUME rotation \in 0 .. 7, NEW prims \in Seq(Prims)
  PROVE  Paints(<<Begin, Enter>> \o Draw(prims), Picture(prims))
<1>1. Paints(<<Begin, Enter>>, {}) /\ Paints(Draw(prims), Picture(prims))
  BY OpensTake, DrawTakes DEF Paints
<1>2. Paints(<<Begin, Enter>> \o Draw(prims), {} \cup Picture(prims))
  BY <1>1, PaintsJoin
<1>3. {} \cup Picture(prims) = Picture(prims)
  OBVIOUS
<1>4. QED BY <1>2, <1>3, Zenon

(* A shape is drawn.                                                       *)
LEMMA ShapePaints ==
  ASSUME rotation \in 0 .. 7, NEW prims \in Seq(Prims) PROVE Paints(Shape(prims), Picture(prims))
<1> PICK s, t, P : s = <<Begin, Enter>> \o Draw(prims) /\ t = <<Leave, End>> /\ P = Picture(prims)
  OBVIOUS
<1>1. Paints(s, P) /\ Paints(t, {})
  <2>1. Paints(s, P)
    BY OpenPaints
  <2>2. Paints(t, {})
    BY ClosesTake DEF Paints
  <2>3. QED BY <2>1, <2>2
<1>2. Paints(s \o t, P \cup {})
  BY <1>1, PaintsJoin
<1>3. P \cup {} = P /\ Shape(prims) = s \o t
  BY DEF Shape
<1>4. QED BY <1>2, <1>3

(* The picture of two lists of primitives is that of both.                 *)
LEMMA PictureJoin ==
  ASSUME NEW s \in Seq(Prims), NEW t \in Seq(Prims)
  PROVE  Picture(s \o t) = Picture(s) \cup Picture(t)
<1> PICK a, b, u : a = Len(s) /\ b = Len(t) /\ u = s \o t
  OBVIOUS
<1>1. /\ a \in Nat /\ b \in Nat /\ Len(u) = a + b /\ u \in Seq(Prims)
      /\ \A i \in 1 .. a + b : u[i] = IF i <= a THEN s[i] ELSE t[i - a]
  BY ConcatProperties
<1>2. DOMAIN s = 1 .. a /\ DOMAIN t = 1 .. b /\ DOMAIN u = 1 .. a + b
  BY <1>1
<1>3. \A z : z \in Picture(s) <=> \E i \in 1 .. a : z \in Cut(s[i])
  BY <1>2 DEF Picture
<1>4. \A z : z \in Picture(t) <=> \E i \in 1 .. b : z \in Cut(t[i])
  BY <1>2 DEF Picture
<1>5. \A z : z \in Picture(u) <=> \E i \in 1 .. a + b : z \in Cut(u[i])
  BY <1>2 DEF Picture
<1>6. ASSUME NEW z, z \in Picture(u) PROVE z \in Picture(s) \cup Picture(t)
  <2>1. PICK i \in 1 .. a + b : z \in Cut(u[i])
    BY <1>5, <1>6
  <2>2. CASE i <= a
    <3>1. i \in 1 .. a /\ u[i] = s[i]
      BY <1>1, <2>2
    <3>2. z \in Cut(s[i])
      BY <2>1, <3>1
    <3>3. QED BY <1>3, <3>1, <3>2
  <2>3. CASE ~(i <= a)
    <3>1. i - a \in 1 .. b /\ u[i] = t[i - a]
      BY <1>1, <2>3
    <3>2. z \in Cut(t[i - a])
      BY <2>1, <3>1
    <3>3. QED BY <1>4, <3>1, <3>2
  <2>4. QED BY <2>2, <2>3
<1>7. ASSUME NEW z, z \in Picture(s) PROVE z \in Picture(u)
  <2>1. PICK i \in 1 .. a : z \in Cut(s[i])
    BY <1>3, <1>7
  <2>2. i \in 1 .. a + b /\ u[i] = s[i]
    BY <1>1
  <2>3. z \in Cut(u[i])
    BY <2>1, <2>2
  <2>4. QED BY <1>5, <2>2, <2>3
<1>8. ASSUME NEW z, z \in Picture(t) PROVE z \in Picture(u)
  <2>1. PICK i \in 1 .. b : z \in Cut(t[i])
    BY <1>4, <1>8
  <2>2. PICK k : k = a + i
    OBVIOUS
  <2>3. k \in 1 .. a + b /\ ~(k <= a) /\ k - a = i
    BY <1>1, <2>2
  <2>4. u[k] = t[i]
    BY <1>1, <2>3
  <2>5. z \in Cut(u[k])
    BY <2>1, <2>4
  <2>6. QED BY <1>5, <2>3, <2>5
<1>9. Picture(u) = Picture(s) \cup Picture(t)
  BY <1>6, <1>7, <1>8
<1>10. QED BY <1>9

(* drawTriangle() draws its three lines.                                   *)
LEMMA TrianglePaints ==
  ASSUME rotation \in 0 .. 7, NEW a \in Points, NEW b \in Points, NEW c \in Points
  PROVE  Paints(TriangleLines(a, b, c), Picture(drawTriangle(a, b, c)))
<1>1. a[1] \in Int /\ a[2] \in Int /\ b[1] \in Int /\ b[2] \in Int /\ c[1] \in Int /\ c[2] \in Int
  BY DEF Points
<1>2. PICK s, t, u : /\ s = drawLine(a[1], a[2], b[1], b[2]) /\ t = drawLine(b[1], b[2], c[1], c[2])
                     /\ u = drawLine(c[1], c[2], a[1], a[2])
  OBVIOUS
<1>3. s \in Seq(Prims) /\ t \in Seq(Prims) /\ u \in Seq(Prims)
  BY <1>1, <1>2, LineIs
<1>4. PICK o, d, S, T, U : /\ o = <<Begin, Enter>> /\ d = <<Leave, End>>
                           /\ S = Shape(s) /\ T = Shape(t) /\ U = Shape(u)
  OBVIOUS
<1>5. TriangleLines(a, b, c) = o \o S \o T \o U \o d
  BY <1>2, <1>4, Zenon DEF TriangleLines
<1>6. PICK P, Q, R : P = Picture(s) /\ Q = Picture(t) /\ R = Picture(u)
  OBVIOUS
<1>7. Picture(drawTriangle(a, b, c)) = P \cup Q \cup R
  <2>1. drawTriangle(a, b, c) = s \o t \o u
    BY <1>2, Zenon DEF drawTriangle
  <2>2. PICK st : st = s \o t
    OBVIOUS
  <2>3. st \in Seq(Prims) /\ Picture(st) = P \cup Q
    BY <1>3, <1>6, <2>2, PictureJoin, ConcatProperties
  <2>4. Picture(st \o u) = Picture(st) \cup R
    BY <1>3, <1>6, <2>3, PictureJoin
  <2>5. QED BY <2>1, <2>2, <2>3, <2>4
<1>8. Paints(S, P) /\ Paints(T, Q) /\ Paints(U, R)
  BY <1>3, <1>4, <1>6, ShapePaints
<1>9. Paints(o, {}) /\ Paints(d, {})
  BY <1>4, OpensTake, ClosesTake DEF Paints
<1>10. Paints(o \o S, {} \cup P)
  BY <1>8, <1>9, PaintsJoin
<1>11. Paints((o \o S) \o T, ({} \cup P) \cup Q)
  BY <1>8, <1>10, PaintsJoin
<1>12. Paints(((o \o S) \o T) \o U, (({} \cup P) \cup Q) \cup R)
  BY <1>8, <1>11, PaintsJoin
<1>13. Paints((((o \o S) \o T) \o U) \o d, ((({} \cup P) \cup Q) \cup R) \cup {})
  BY <1>9, <1>12, PaintsJoin
<1>14. ((({} \cup P) \cup Q) \cup R) \cup {} = P \cup Q \cup R
  OBVIOUS
<1>15. QED BY <1>5, <1>7, <1>13, <1>14, Zenon

(* fillTriangle() draws its rows, flat or not.                             *)
LEMMA FillPaints ==
  ASSUME rotation \in 0 .. 7, NEW a \in Points, NEW b \in Points, NEW c \in Points
  PROVE  Paints(FilledTriangle(a, b, c), Picture(fillTriangle(a, b, c)))
<1>1. PICK s : s = fillTriangle(a, b, c)
  OBVIOUS
<1>2. s \in Seq(Prims)
  BY <1>1, FillIs
<1>3. Paints(<<Begin, Enter>> \o Draw(s), Picture(s)) /\ Paints(Shape(s), Picture(s))
  BY <1>2, OpenPaints, ShapePaints
<1>4. FilledTriangle(a, b, c) = IF Flat(a, b, c) THEN <<Begin, Enter>> \o Draw(s) ELSE Shape(s)
  BY <1>1 DEF FilledTriangle
<1>5. QED BY <1>1, <1>3, <1>4

(* No step draws nothing.                                                  *)
LEMMA NothingPaints == Paints(<<>>, {})
BY TakesNone DEF Paints

(* A character of font 1: the ninth row of its window gets no pixel, and   *)
(* one that begins left of or above the screen is not drawn.               *)
LEMMA CellPaints ==
  ASSUME rotation \in 0 .. 7, NEW x \in Int, NEW y \in Int
  PROVE  Paints(Cell(x, y), Cut(Rect(x, y, 6, 8)))
<1>1. _width \in Nat /\ _height \in Nat /\ _width <= 1000 /\ _height <= 1000
  BY Small
<1>2. Cut(Rect(x, y, 6, 8)) = IF x < 0 \/ y < 0 THEN {} ELSE Visible(x, y, 6, 8)
  <2>1. PICK p : p = Rect(x, y, 6, 8)
    OBVIOUS
  <2>2. p.x = x /\ p.y = y /\ p.w = 6 /\ p.h = 8
    BY <2>1 DEF Rect, Prim
  <2>3. Cut(p) = IF p.x < 0 \/ p.y < 0 THEN {} ELSE Visible(p.x, p.y, p.w, p.h)
    BY <2>2, CutIs
  <2>4. QED BY <2>1, <2>2, <2>3
<1>3. CASE x >= _width \/ y >= _height \/ x + 5 < 0 \/ y + 7 < 0
  <2>1. Cell(x, y) = <<>>
    BY <1>3 DEF Cell
  <2>2. Cut(Rect(x, y, 6, 8)) = {}
    <3>1. CASE x < 0 \/ y < 0
      BY <1>2, <3>1
    <3>2. CASE ~(x < 0 \/ y < 0)
      <4>1. x >= _width \/ y >= _height
        BY <1>3, <3>2
      <4>2. Strip(x, 6, _width) = {} \/ Strip(y, 8, _height) = {}
        BY <1>1, <4>1, StripEmpty
      <4>3. QED BY <1>2, <3>2, <4>2, VisibleEmpty
    <3>3. QED BY <3>1, <3>2
  <2>3. QED BY <2>1, <2>2, NothingPaints
<1>4. CASE ~(x >= _width \/ y >= _height \/ x + 5 < 0 \/ y + 7 < 0)
  <2>1. x < _width /\ y < _height /\ x + 5 >= 0 /\ y + 7 >= 0
    BY <1>1, <1>4
  <2>2. PICK c, d : c = x + 5 /\ d = y + 8
    OBVIOUS
  <2>3. c \in Int /\ d \in Int /\ 48 \in Int
    BY <2>2
  <2>4. Cell(x, y) = Sent(Window(x, y, c, d), 48)
    BY <1>4, <2>2 DEF Cell
  <2>5. PICK l : l = NewWindow(x, y, c, d)
    OBVIOUS
  <2>6. Paints(Sent(Window(x, y, c, d), 48), Lit(l, 48))
    BY <2>3, <2>5, SentTakes DEF Paints
  <2>7. Lit(l, 48) = Cut(Rect(x, y, 6, 8))
    <3>1. CASE x < 0 \/ y < 0
      <4>1. (x < 0 /\ c >= 0 /\ c - x < 100) \/ (y < 0 /\ d >= 0 /\ d - y < 100)
        BY <2>1, <2>2, <3>1
      <4>2. ~Open(l)
        BY <2>3, <2>5, <4>1, NewWindowClosed
      <4>3. l \in Lcds
        BY <2>3, <2>5, NewWindowIs
      <4>4. Lit(l, 48) = {}
        BY <2>3, <4>2, <4>3, NothingWritten
      <4>5. QED BY <1>2, <3>1, <4>4
    <3>2. CASE ~(x < 0 \/ y < 0)
      <4>1. x \in Nat /\ y \in Nat
        BY <3>2
      <4>2. PICK w, h, k, n : w = 6 /\ h = 9 /\ k = 8 /\ n = 48
        OBVIOUS
      <4>3. /\ w \in Nat \ {0} /\ h \in Nat \ {0} /\ k \in Nat \ {0} /\ n \in Nat /\ 0 \in Nat
            /\ 0 + n <= w * h /\ 0 + n = n /\ n = w * k
            /\ c = x + w - 1 /\ d = y + h - 1
        BY <2>2, <4>2
      <4>4. Fits(x, w) /\ Fits(y, h)
        BY <1>1, <2>1, <4>2 DEF Fits
      <4>5. Opened(l, x, y, w, h, 0)
        BY <2>5, <4>1, <4>3, <4>4, NewWindowOpened
      <4>6. Lit(l, n) = Cells(x, y, w, 0, 0 + n) \cap Canvas
        BY <4>1, <4>3, <4>5, WindowTakes
      <4>7. Whole(w, k, n)
        BY <4>3 DEF Whole
      <4>8. Cells(x, y, w, 0, n) = (x .. x + w - 1) \X (y .. y + k - 1)
        BY <4>1, <4>3, <4>7, CellsAre
      <4>9. Lit(l, n) = Visible(x, y, w, k)
        BY <4>3, <4>6, <4>8, VisibleIs
      <4>10. QED BY <1>2, <3>2, <4>2, <4>9
    <3>3. QED BY <3>1, <3>2
  <2>8. QED BY <2>4, <2>6, <2>7
<1>5. QED BY <1>3, <1>4

(* pushRect(), where it is not left out: the controller cuts at the edges. *)
LEMMA PushPaints ==
  ASSUME NEW p, p.x \in Nat, p.y \in Nat, p.w \in Nat, p.h \in Nat, Fits(p.x, p.w), Fits(p.y, p.h)
  PROVE  Paints(Sent(WindowOf(p), p.w * p.h), Cut(p))
<1>1. WindowOf(p) = Window(p.x, p.y, p.x + p.w - 1, p.y + p.h - 1)
  BY DEF WindowOf
<1>2. Cut(p) = Visible(p.x, p.y, p.w, p.h)
  BY CutIs
<1>3. Paints(Sent(Window(p.x, p.y, p.x + p.w - 1, p.y + p.h - 1), p.w * p.h), Visible(p.x, p.y, p.w, p.h))
  BY AreaTakes DEF Paints
<1>4. QED BY <1>1, <1>2, <1>3

(* The squares of an enlarged character lie in its background              *)
LEMMA SquareInside ==
  ASSUME NEW s \in Nat, NEW w \in Nat, NEW d \in 0 .. w - 1
  PROVE  s * d \in Nat /\ w * s \in Nat /\ s * d + s <= w * s
<1>1. PICK e \in Nat : w = d + 1 + e
  <2>1. w - d - 1 \in Nat /\ w = d + 1 + (w - d - 1)
    OBVIOUS
  <2>2. QED BY <2>1
<1>2. w * s = s * d + s + s * e
  BY <1>1
<1>3. s * d \in Nat /\ s * e \in Nat /\ w * s \in Nat
  OBVIOUS
<1>4. QED BY <1>2, <1>3

(* A strip inside another.                                                 *)
LEMMA StripInside ==
  ASSUME NEW x \in Int, NEW a \in Int, NEW w \in Int, NEW b \in Int, NEW n \in Int, x <= a, a + b <= x + w
  PROVE  Strip(a, b, n) \subseteq Strip(x, w, n)
BY DEF Strip

(* One dot of an enlarged character.                                       *)
Square(x, y, size, d) ==
  LET px == x + size * d[1]
      py == y + size * d[2]
  IN <<Window(px, py, px + size - 1, py + size - 1), Words(size * size)>>

(* A dot of an enlarged character is drawn within its box.                 *)
LEMMA SquarePaints ==
  ASSUME rotation \in 0 .. 7, NEW x \in Nat, NEW y \in Nat, NEW w \in Nat, NEW h \in Nat,
         NEW size \in Nat,
         Fits(x, w * size), Fits(y, h * size), NEW d, d[1] \in 0 .. w - 1, d[2] \in 0 .. h - 1
  PROVE  \E P : Paints(Square(x, y, size, d), P) /\ P \subseteq Visible(x, y, w * size, h * size)
<1>1. PICK u, v, a, b : u = size * d[1] /\ v = size * d[2] /\ a = w * size /\ b = h * size
  OBVIOUS
<1>2. u \in Nat /\ a \in Nat /\ u + size <= a
  BY <1>1, SquareInside
<1>3. v \in Nat /\ b \in Nat /\ v + size <= b
  BY <1>1, SquareInside
<1>4. PICK px, py : px = x + u /\ py = y + v
  OBVIOUS
<1>5. /\ px \in Nat /\ py \in Nat /\ x <= px /\ y <= py
      /\ px + size <= x + a /\ py + size <= y + b
  BY <1>2, <1>3, <1>4
<1>6. Fits(px, size) /\ Fits(py, size)
  <2>1. Fits(x, a) /\ Fits(y, b)
    BY <1>1
  <2>2. QED BY <1>2, <1>3, <1>5, <2>1 DEF Fits
<1>7. PICK c, e, n : c = px + size - 1 /\ e = py + size - 1 /\ n = size * size
  OBVIOUS
<1>8. c \in Int /\ e \in Int /\ n \in Int /\ px \in Int /\ py \in Int
  BY <1>5, <1>7
<1>9. Paints(<<Window(px, py, c, e), Words(n)>>, Lit(NewWindow(px, py, c, e), n))
  BY <1>8, WindowAndWords DEF Paints
<1>10. Lit(NewWindow(px, py, c, e), n) = Visible(px, py, size, size)
  BY <1>5, <1>6, <1>7, FilledVisible
<1>11. Square(x, y, size, d) = <<Window(px, py, c, e), Words(n)>>
  BY <1>1, <1>4, <1>7, Zenon DEF Square
<1>12. _width \in Int /\ _height \in Int
  BY Small
<1>13. Strip(px, size, _width) \subseteq Strip(x, a, _width)
  BY <1>2, <1>5, <1>12, StripInside
<1>14. Strip(py, size, _height) \subseteq Strip(y, b, _height)
  BY <1>3, <1>5, <1>12, StripInside
<1>15. Visible(px, py, size, size) \subseteq Visible(x, y, a, b)
  BY <1>13, <1>14 DEF Visible
<1>16. QED BY <1>1, <1>9, <1>10, <1>11, <1>15

(* An enlarged character on a background draws its box.                    *)
LEMMA CharacterPaints ==
  ASSUME rotation \in 0 .. 7, NEW x \in Nat, NEW y \in Nat, NEW w \in Nat, NEW h \in Nat,
         NEW size \in Nat,
         Fits(x, w * size), Fits(y, h * size), NEW dots \in Seq(Points),
         \A i \in DOMAIN dots : dots[i][1] \in 0 .. w - 1 /\ dots[i][2] \in 0 .. h - 1
  PROVE  Paints(BigCharacter(x, y, w, h, size, dots), Cut(Rect(x, y, w * size, h * size)))
<1>1. PICK a, b : a = w * size /\ b = h * size
  OBVIOUS
<1>2. a \in Int /\ b \in Int /\ x \in Int /\ y \in Int
  BY <1>1
<1>3. PICK r, V : r = Rect(x, y, a, b) /\ V = Visible(x, y, a, b)
  OBVIOUS
<1>4. r \in Prims /\ Cut(r) = V
  <2>1. r = [op |-> "rect", x |-> x, y |-> y, w |-> a, h |-> b]
    BY <1>3 DEF Rect, Prim
  <2>2. r \in Prims /\ r.x = x /\ r.y = y /\ r.w = a /\ r.h = b
    BY <1>2, <2>1 DEF Prims
  <2>3. Cut(r) = IF r.x < 0 \/ r.y < 0 THEN {} ELSE Visible(r.x, r.y, r.w, r.h)
    BY <1>2, <2>2, CutIs
  <2>4. QED BY <1>3, <2>2, <2>3
<1>5. PICK n : n = Len(dots)
  OBVIOUS
<1>6. n \in Nat /\ DOMAIN dots = 1 .. n
  BY <1>5
<1>7. PICK ss : ss = [i \in 1 .. n |-> Square(x, y, size, dots[i])]
  OBVIOUS
<1>8. BigCharacter(x, y, w, h, size, dots) = <<Begin>> \o Primitive(r) \o FlattenSeq(ss) \o <<End>>
  BY <1>1, <1>3, <1>6, <1>7, Zenon DEF BigCharacter, Square
<1>9. \A i \in 1 .. n : \E P : Paints(ss[i], P) /\ P \subseteq V
  <2> TAKE i \in 1 .. n
  <2>1. PICK d : d = dots[i]
    OBVIOUS
  <2>2. d[1] \in 0 .. w - 1 /\ d[2] \in 0 .. h - 1
    BY <1>6, <2>1
  <2>3. \E P : Paints(Square(x, y, size, d), P) /\ P \subseteq Visible(x, y, w * size, h * size)
    BY <2>2, SquarePaints
  <2>4. ss[i] = Square(x, y, size, d)
    BY <1>7, <2>1
  <2>5. QED BY <1>1, <1>3, <2>3, <2>4
<1>10. PICK ps : ps = [i \in 1 .. n |-> CHOOSE P : Paints(ss[i], P) /\ P \subseteq V]
  OBVIOUS
<1>11. ASSUME NEW i \in 1 .. n PROVE Paints(ss[i], ps[i]) /\ ps[i] \subseteq V
  <2>1. ps[i] = CHOOSE P : Paints(ss[i], P) /\ P \subseteq V
    BY <1>10
  <2>2. \E P : Paints(ss[i], P) /\ P \subseteq V
    BY <1>9
  <2>3. QED BY <2>1, <2>2, Zenon
<1>12. ss \in Seq(Seq(BusSteps)) /\ Len(ss) = n
  <2>1. \A i \in 1 .. n : ss[i] \in Seq(BusSteps)
    BY <1>11 DEF Paints, Takes
  <2>2. ss \in [1 .. n -> Seq(BusSteps)]
    BY <1>7, <2>1
  <2>3. QED BY <1>6, <1>7, <2>2, IsSeq
<1>13. PICK U : U = Together(ps, n)
  OBVIOUS
<1>14. Paints(FlattenSeq(ss), U)
  <2>1. \A i \in 1 .. Len(ss) : Takes(ss[i], Panels, Panels, ps[i])
    BY <1>11, <1>12 DEF Paints
  <2>2. Takes(FlattenSeq(ss), Panels, Panels, Together(ps, Len(ss)))
    BY <1>12, <2>1, Pieces
  <2>3. QED BY <1>12, <1>13, <2>2 DEF Paints
<1>15. U \subseteq V
  BY <1>11, <1>13 DEF Together
<1>16. PICK s, t, o, d : s = Primitive(r) /\ t = FlattenSeq(ss) /\ o = <<Begin>> /\ d = <<End>>
  OBVIOUS
<1>17. Paints(s, V)
  BY <1>4, <1>16, PrimitiveTakes DEF Paints
<1>18. Paints(o, {}) /\ Paints(d, {})
  BY <1>16, Constants, TakesIdle DEF Paints
<1>19. Paints(o \o s, {} \cup V)
  BY <1>17, <1>18, PaintsJoin
<1>20. Paints((o \o s) \o t, ({} \cup V) \cup U)
  BY <1>14, <1>16, <1>19, PaintsJoin
<1>21. Paints(((o \o s) \o t) \o d, (({} \cup V) \cup U) \cup {})
  BY <1>18, <1>20, PaintsJoin
<1>22. (({} \cup V) \cup U) \cup {} = Cut(r)
  BY <1>4, <1>15
<1>23. Paints(BigCharacter(x, y, w, h, size, dots), Cut(r))
  BY <1>8, <1>16, <1>21, <1>22, Zenon
<1>24. QED BY <1>1, <1>3, <1>23, Zenon

(* An image: the window after j of its pixels                              *)
At(x, y, w, h, j) ==
  [cols |-> <<x, x + w - 1>>, rows |-> <<y, y + h - 1>>, next |-> IF j = w * h THEN 0 ELSE j]

(* Pixels sent to a window in part: the next ones go on from there.        *)
LEMMA PushedIs ==
  ASSUME NEW x \in Nat, NEW y \in Nat, NEW w \in Nat \ {0}, NEW h \in Nat \ {0},
         NEW n, Whole(w, h, n), NEW j \in Nat, NEW k \in Nat, j + k <= n
  PROVE  /\ Pushed(At(x, y, w, h, j), k) = At(x, y, w, h, j + k)
         /\ Lit(At(x, y, w, h, j), k) = Cells(x, y, w, j, j + k) \cap Canvas
<1>1. n = w * h
  BY DEF Whole
<1>2. PICK l, i : l = At(x, y, w, h, j) /\ i = IF j = n THEN 0 ELSE j
  OBVIOUS
<1>3. n \in Nat \ {0} /\ j + k <= n
  BY <1>1
<1>4. l = [cols |-> <<x, x + w - 1>>, rows |-> <<y, y + h - 1>>, next |-> i]
  BY <1>1, <1>2 DEF At
<1>5. i \in Nat /\ i + k <= n /\ (i = j \/ (j = n /\ i = 0 /\ k = 0))
  BY <1>2, <1>3
<1>6. Opened(l, x, y, w, h, i)
  BY <1>4 DEF Opened
<1>7. Span(l.cols) = w /\ Span(l.rows) = h /\ l.next = i
  BY <1>6, OpenedSpans
<1>8. Open(l)
  BY <1>7 DEF Open
<1>9. (i + k) % n = IF j + k = n THEN 0 ELSE j + k
  <2>1. CASE i + k = n
    <3>1. n % n = 0
      <4>1. 1 \in Nat /\ 0 \in 0 .. n - 1 /\ n * 1 + 0 = n
        BY <1>3
      <4>2. (n * 1 + 0) % n = 0
        BY <1>3, <4>1, DivisionOnly
      <4>3. QED BY <4>1, <4>2
    <3>2. QED BY <1>3, <1>5, <2>1, <3>1
  <2>2. CASE i + k < n
    <3>1. PICK m : m = i + k
      OBVIOUS
    <3>2. 0 \in Nat /\ m \in 0 .. n - 1 /\ n * 0 + m = m
      BY <1>3, <1>5, <2>2, <3>1
    <3>3. (n * 0 + m) % n = m
      BY <1>3, <3>2, DivisionOnly
    <3>4. m % n = m
      BY <3>2, <3>3
    <3>5. m = IF j + k = n THEN 0 ELSE j + k
      BY <1>3, <1>5, <2>2, <3>1
    <3>6. QED BY <3>1, <3>4, <3>5
  <2>3. QED BY <1>3, <1>5, <2>1, <2>2
<1>10. Pushed(l, k) = At(x, y, w, h, j + k)
  <2>1. PICK m : m = IF j + k = n THEN 0 ELSE j + k
    OBVIOUS
  <2>2. Pushed(l, k) = [l EXCEPT !.next = IF Open(l) THEN (@ + k) % (Span(l.cols) * Span(l.rows)) ELSE @]
    BY Zenon DEF Pushed
  <2>3. (IF Open(l) THEN (l.next + k) % (Span(l.cols) * Span(l.rows)) ELSE l.next) = m
    BY <1>1, <1>7, <1>8, <1>9, <2>1
  <2>4. Pushed(l, k) = [l EXCEPT !.next = m]
    BY <2>2, <2>3, Zenon
  <2>5. At(x, y, w, h, j + k) = [cols |-> <<x, x + w - 1>>, rows |-> <<y, y + h - 1>>, next |-> m]
    BY <1>1, <2>1 DEF At
  <2>6. QED BY <1>4, <2>4, <2>5
<1>11. Lit(l, k) = Cells(x, y, w, j, j + k) \cap Canvas
  <2>1. Lit(l, k) = Cells(x, y, w, i, i + k) \cap Canvas
    BY <1>1, <1>5, <1>6, WindowTakes
  <2>2. CASE i = j
    BY <2>1, <2>2
  <2>3. CASE j = n /\ i = 0 /\ k = 0
    <3>1. PICK p, q : p = i + k /\ q = j + k
      OBVIOUS
    <3>2. i .. p - 1 = {} /\ j .. q - 1 = {}
      BY <1>3, <2>3, <3>1
    <3>3. Cells(x, y, w, i, p) = {} /\ Cells(x, y, w, j, q) = {}
      BY <3>2 DEF Cells
    <3>4. QED BY <2>1, <3>1, <3>3
  <2>4. QED BY <1>5, <2>2, <2>3
<1>12. QED BY <1>2, <1>10, <1>11

-----------------------------------------------------------------------------
(* A step in a transaction of its own                                      *)
LEMMA BracketTakes ==
  ASSUME NEW x, NEW A, NEW B, NEW P, Takes(<<x>>, A, B, P), B \subseteq Panels
  PROVE  Takes(<<Begin, x, End>>, A, B, P)
<1>1. A \subseteq Panels
  BY DEF Takes
<1>2. Takes(<<Begin>>, A, A, {})
  BY <1>1, Constants, TakesIdle
<1>3. Takes(<<Begin>> \o <<x>>, A, B, {} \cup P)
  BY <1>2, TakesJoin
<1>4. {} \cup P = P /\ <<Begin>> \o <<x>> = <<Begin, x>>
  BY Pair
<1>5. Takes(<<Begin, x>>, A, B, P)
  BY <1>3, <1>4, Zenon
<1>6. Takes(<<Begin, x>> \o <<End>>, A, B, P)
  BY <1>5, Constants, TakesAfter
<1>7. QED BY <1>6, Triple

(* The parts of a picture: t[i] of its pixels are sent with the first i    *)
Parted(parts, t, n) ==
  /\ t \in [0 .. Len(parts) -> 0 .. n] /\ t[0] = 0 /\ t[Len(parts)] = n
  /\ \A i \in 1 .. Len(parts) : t[i] = t[i - 1] + parts[i]

(* Each pixel of a picture is in one of its parts.                         *)
LEMMA PartOf ==
  ASSUME NEW parts \in Seq(Nat), NEW n \in Nat, NEW t, Parted(parts, t, n), NEW k \in 0 .. n - 1
  PROVE  \E i \in 1 .. Len(parts) : t[i - 1] <= k /\ k < t[i]
<1>1. PICK L : L = Len(parts)
  OBVIOUS
<1>2. L \in Nat
  BY <1>1
<1>3. t \in [0 .. L -> 0 .. n] /\ t[0] = 0 /\ t[L] = n
  BY <1>1 DEF Parted
<1>4. PICK S : S = {i \in 0 .. L : k < t[i]}
  OBVIOUS
<1>5. S \subseteq Nat /\ L \in S
  BY <1>2, <1>3, <1>4
<1>6. PICK m \in S : \A i \in S : m <= i
  BY <1>5, LeastNumber
<1>7. m \in 0 .. L /\ k < t[m] /\ m # 0
  BY <1>3, <1>4, <1>6
<1>8. m - 1 \in 0 .. L /\ m - 1 \notin S
  BY <1>5, <1>6, <1>7
<1>9. t[m - 1] <= k
  <2>1. t[m - 1] \in 0 .. n /\ ~(k < t[m - 1])
    BY <1>3, <1>4, <1>8
  <2>2. QED BY <2>1
<1>10. m \in 1 .. Len(parts)
  BY <1>1, <1>7
<1>11. QED BY <1>7, <1>9, <1>10

(* What each part of a picture shows.                                      *)
Shown(ps, t, L, x, y, w) == \A i \in 1 .. L : ps[i] = Cells(x, y, w, t[i - 1], t[i]) \cap Canvas

(* The parts, together, are the picture.                                   *)
LEMMA PartsMeet ==
  ASSUME NEW parts \in Seq(Nat), NEW n \in Nat, NEW t, Parted(parts, t, n), NEW x, NEW y, NEW w,
         NEW ps, Shown(ps, t, Len(parts), x, y, w)
  PROVE  Together(ps, Len(parts)) = Cells(x, y, w, 0, n) \cap Canvas
<1>0. PICK L, S : L = Len(parts) /\ S = Canvas
  OBVIOUS
<1>1. L = Len(parts) /\ \A i \in 1 .. L : ps[i] = Cells(x, y, w, t[i - 1], t[i]) \cap S
  BY <1>0 DEF Shown
<1>2. L \in Nat /\ t \in [0 .. L -> 0 .. n]
  BY <1>1 DEF Parted
<1>3. \A z, i, j : z \in Cells(x, y, w, i, j) <=> \E k \in i .. j - 1 : z = <<x + (k % w), y + (k \div w)>>
  BY DEF Cells
<1>4. ASSUME NEW i \in 1 .. L, NEW z \in ps[i] PROVE z \in Cells(x, y, w, 0, n) \cap S
  <2>1. i - 1 \in 0 .. L /\ i \in 0 .. L
    BY <1>2
  <2>2. t[i - 1] \in 0 .. n /\ t[i] \in 0 .. n
    BY <1>2, <2>1
  <2>3. z \in Cells(x, y, w, t[i - 1], t[i]) /\ z \in S
    BY <1>1
  <2>4. PICK k \in t[i - 1] .. t[i] - 1 : z = <<x + (k % w), y + (k \div w)>>
    BY <1>3, <2>3
  <2>5. k \in 0 .. n - 1
    BY <2>2
  <2>6. z \in Cells(x, y, w, 0, n)
    BY <1>3, <2>4, <2>5
  <2>7. QED BY <2>3, <2>6
<1>5. ASSUME NEW z \in Cells(x, y, w, 0, n) \cap S PROVE \E i \in 1 .. L : z \in ps[i]
  <2>1. PICK k \in 0 .. n - 1 : z = <<x + (k % w), y + (k \div w)>>
    BY <1>3
  <2>2. PICK i \in 1 .. L : t[i - 1] <= k /\ k < t[i]
    BY <1>1, PartOf
  <2>3. i - 1 \in 0 .. L /\ i \in 0 .. L
    BY <1>2
  <2>4. t[i - 1] \in 0 .. n /\ t[i] \in 0 .. n
    BY <1>2, <2>3
  <2>5. k \in t[i - 1] .. t[i] - 1
    BY <2>2, <2>4
  <2>6. z \in Cells(x, y, w, t[i - 1], t[i])
    BY <1>3, <2>1, <2>5
  <2>7. z \in ps[i]
    BY <1>1, <2>6
  <2>8. QED BY <2>7
<1>6. QED BY <1>0, <1>4, <1>5 DEF Together

(* One part goes on where the last one ended.                              *)
LEMMA PartTakes ==
  ASSUME NEW x \in Nat, NEW y \in Nat, NEW w \in Nat \ {0}, NEW h \in Nat \ {0}, NEW n, Whole(w, h, n),
         NEW j \in Nat, NEW k \in Nat, NEW m, m = j + k, m <= n
  PROVE  Takes(<<Begin, Words(k), End>>, Behind(At(x, y, w, h, j)), Behind(At(x, y, w, h, m)),
               Cells(x, y, w, j, m) \cap Canvas)
<1>1. PICK d, e, P : /\ d = At(x, y, w, h, j) /\ e = At(x, y, w, h, m)
                     /\ P = Cells(x, y, w, j, m) \cap Canvas
  OBVIOUS
<1>2. Pushed(At(x, y, w, h, j), k) = At(x, y, w, h, j + k)
  BY PushedIs
<1>3. Lit(At(x, y, w, h, j), k) = Cells(x, y, w, j, j + k) \cap Canvas
  BY PushedIs
<1>4. Pushed(d, k) = e /\ Lit(d, k) = P
  BY <1>1, <1>2, <1>3
<1>5. Takes(<<Words(k)>>, Behind(d), Behind(e), P)
  BY <1>4, WordsGo
<1>6. Behind(e) \subseteq Panels
  BY DEF Behind
<1>7. Takes(<<Begin, Words(k), End>>, Behind(d), Behind(e), P)
  BY <1>5, <1>6, BracketTakes
<1>8. QED BY <1>1, <1>7

(* A picture pushed in parts, each in a transaction of its own, is drawn   *)
(* whole.                                                                  *)
LEMMA ImagePaints ==
  ASSUME NEW p \in Prims, p.x \in Nat, p.y \in Nat, p.w \in Nat \ {0}, p.h \in Nat \ {0},
         Fits(p.x, p.w), Fits(p.y, p.h), NEW parts \in Seq(Nat), NEW t, Parted(parts, t, p.w * p.h)
  PROVE  Paints(Image(p, parts), Cut(p))
<1>1. PICK x, y, w, h, n, L : x = p.x /\ y = p.y /\ w = p.w /\ h = p.h /\ n = w * h /\ L = Len(parts)
  OBVIOUS
<1>2. /\ x \in Nat /\ y \in Nat /\ w \in Nat \ {0} /\ h \in Nat \ {0} /\ n \in Nat /\ L \in Nat
      /\ Parted(parts, t, n) /\ Fits(x, w) /\ Fits(y, h)
  BY <1>1
<1>3. /\ t \in [0 .. L -> 0 .. n] /\ t[0] = 0 /\ t[L] = n
      /\ \A i \in 1 .. L : t[i] = t[i - 1] + parts[i]
  BY <1>1, <1>2 DEF Parted
<1>4. PICK ss, g, ps : /\ ss = [i \in 1 .. L |-> <<Begin, Words(parts[i]), End>>]
                       /\ g = [i \in 0 .. L |-> Behind(At(x, y, w, h, t[i]))]
                       /\ ps = [i \in 1 .. L |-> Cells(x, y, w, t[i - 1], t[i]) \cap Canvas]
  OBVIOUS
<1>5. ASSUME NEW i \in 1 .. L PROVE Takes(ss[i], g[i - 1], g[i], ps[i])
  <2>1. i - 1 \in 0 .. L /\ i \in 0 .. L
    BY <1>2
  <2>2. PICK j, k, m : j = t[i - 1] /\ k = parts[i] /\ m = t[i]
    OBVIOUS
  <2>3. j \in Nat /\ k \in Nat /\ j + k = m /\ m <= n /\ k \in Int
    <3>1. j \in 0 .. n /\ m \in 0 .. n /\ m = j + k
      BY <1>3, <2>1, <2>2
    <3>2. k \in Nat
      BY <1>1, <2>2
    <3>3. QED BY <1>2, <3>1, <3>2
  <2>4. Whole(w, h, n)
    BY <1>1 DEF Whole
  <2>5. PICK d : d = At(x, y, w, h, j)
    OBVIOUS
  <2>9. Takes(<<Begin, Words(k), End>>, Behind(At(x, y, w, h, j)), Behind(At(x, y, w, h, m)),
              Cells(x, y, w, j, m) \cap Canvas)
    BY <1>2, <2>3, <2>4, PartTakes
  <2>10. /\ ss[i] = <<Begin, Words(k), End>> /\ g[i - 1] = Behind(d) /\ g[i] = Behind(At(x, y, w, h, m))
         /\ ps[i] = Cells(x, y, w, j, m) \cap Canvas
    BY <1>4, <2>1, <2>2, <2>5
  <2>11. QED BY <2>5, <2>9, <2>10
<1>6. ss \in Seq(Seq(BusSteps)) /\ Len(ss) = L
  <2>1. \A i \in 1 .. L : ss[i] \in Seq(BusSteps)
    BY <1>5 DEF Takes
  <2>2. ss \in [1 .. L -> Seq(BusSteps)]
    BY <1>4, <2>1
  <2>3. QED BY <1>2, <1>4, <2>2, IsSeq
<1>7. g[0] \subseteq Panels /\ g[0] = Behind(At(x, y, w, h, 0)) /\ g[L] \subseteq Panels
  <2>1. 0 \in 0 .. L /\ L \in 0 .. L
    BY <1>2
  <2>2. g[0] = Behind(At(x, y, w, h, t[0])) /\ g[L] = Behind(At(x, y, w, h, t[L]))
    BY <1>4, <2>1
  <2>3. QED BY <1>3, <2>2 DEF Behind
<1>8. PICK U : U = Together(ps, L)
  OBVIOUS
<1>9. Takes(FlattenSeq(ss), g[0], g[L], U)
  <2>1. \A i \in 1 .. Len(ss) : Takes(ss[i], g[i - 1], g[i], ps[i])
    BY <1>5, <1>6
  <2>2. Takes(FlattenSeq(ss), g[0], g[Len(ss)], Together(ps, Len(ss)))
    BY <1>6, <1>7, <2>1, FlattenTakes
  <2>3. QED BY <1>6, <1>8, <2>2
<1>10. U = Cut(p)
  <2>1. Shown(ps, t, L, x, y, w) /\ L = Len(parts)
    BY <1>1, <1>4 DEF Shown
  <2>2. Together(ps, L) = Cells(x, y, w, 0, n) \cap Canvas
    BY <1>2, <2>1, PartsMeet
  <2>3. Whole(w, h, n)
    BY <1>1 DEF Whole
  <2>4. Cells(x, y, w, 0, n) = (x .. x + w - 1) \X (y .. y + h - 1)
    BY <1>2, <2>3, CellsAre
  <2>5. Cut(p) = ((x .. x + w - 1) \X (y .. y + h - 1)) \cap Canvas
    BY <1>1 DEF Cut, Area
  <2>6. QED BY <1>1, <1>8, <2>2, <2>4, <2>5
<1>11. PICK v : v = WindowOf(p)
  OBVIOUS
<1>12. Takes(<<Begin, v, End>>, Panels, g[0], {})
  <2>1. PICK c, d : c = x + w - 1 /\ d = y + h - 1
    OBVIOUS
  <2>2. v = Window(x, y, c, d)
    BY <1>1, <1>11, <2>1 DEF WindowOf
  <2>3. NewWindow(x, y, c, d) = At(x, y, w, h, 0)
    <3>1. Opened(NewWindow(x, y, c, d), x, y, w, h, 0)
      BY <1>2, <2>1, NewWindowOpened
    <3>2. n # 0
      BY <1>1, <1>2
    <3>3. At(x, y, w, h, 0) = [cols |-> <<x, x + w - 1>>, rows |-> <<y, y + h - 1>>, next |-> 0]
      BY <1>1, <3>2 DEF At
    <3>4. NewWindow(x, y, c, d) = [cols |-> Halves(x, c), rows |-> Halves(y, d), next |-> 0]
      BY DEF NewWindow
    <3>5. QED BY <3>1, <3>3, <3>4 DEF Opened
  <2>4. c \in Int /\ d \in Int /\ x \in Int /\ y \in Int
    BY <1>2, <2>1
  <2>5. Takes(<<v>>, Panels, Behind(NewWindow(x, y, c, d)), {})
    BY <2>2, <2>4, WindowGoes
  <2>6. QED BY <1>7, <2>3, <2>5, BracketTakes
<1>13. DOMAIN parts = 1 .. L
  BY <1>1
<1>14. Image(p, parts) = <<Begin, v, End>> \o FlattenSeq(ss)
  BY <1>4, <1>11, <1>13, Zenon DEF Image
<1>15. Takes(<<Begin, v, End>> \o FlattenSeq(ss), Panels, g[L], {} \cup U)
  BY <1>9, <1>12, TakesJoin
<1>16. Takes(Image(p, parts), Panels, Panels, {} \cup U)
  BY <1>7, <1>14, <1>15, TakesWeaker
<1>17. {} \cup U = Cut(p)
  BY <1>10
<1>18. QED BY <1>16, <1>17, Zenon DEF Paints

-----------------------------------------------------------------------------
(* The columns, or rows, of the screen that show those from l to r of a    *)
(* picture: of its columns, out are shown from off on, at x                *)
Band(x, l, r, off, out, n) ==
  {k \in 0 .. n - 1 : x <= k /\ k < x + out /\ l <= k - x + off /\ k - x + off <= r}

(* Nothing of a block that lies outside of what is wanted.                 *)
LEMMA BandNone ==
  ASSUME NEW x \in Nat, NEW l \in Int, NEW r \in Int, NEW off \in Nat, NEW out \in Nat, NEW n \in Nat,
         r < off \/ l >= off + out
  PROVE  Band(x, l, r, off, out, n) = {}
BY DEF Band

(* w of them, from z on                                                    *)
Before(l, off) == IF l < off THEN off - l ELSE 0
Beyond(r, end) == IF r >= end THEN r + 1 - end ELSE 0
Placing(x, l, r, off, out, w, z) ==
  w = r + 1 - l - Before(l, off) - Beyond(r, off + out) /\ z = l - off + x + Before(l, off)

(* The block is not left out.                                              *)
Meets(l, r, off, out) == l <= r + 1 /\ ~(r < off) /\ ~(l >= off + out)

(* What jpgWrite() makes of the sides of a block, cut at both margins, is  *)
(* what is wanted of it.                                                   *)
LEMMA BandIs ==
  ASSUME NEW x \in Nat, NEW l \in Int, NEW r \in Int, NEW off \in Nat, NEW out \in Nat, NEW n \in Nat,
         Meets(l, r, off, out), NEW w, NEW z, Placing(x, l, r, off, out, w, z)
  PROVE  w \in Nat /\ z \in Nat /\ z + w <= x + out /\ Strip(z, w, n) = Band(x, l, r, off, out, n)
<1>0. PICK before, beyond : before = Before(l, off) /\ beyond = Beyond(r, off + out)
  OBVIOUS
<1>1. /\ before \in Nat /\ beyond \in Nat
      /\ before = (IF l < off THEN off - l ELSE 0)
      /\ beyond = (IF r >= off + out THEN r + 1 - (off + out) ELSE 0)
      /\ w = r + 1 - l - before - beyond /\ z = l - off + x + before
  BY <1>0 DEF Before, Beyond, Placing
<1>2. w \in Nat /\ z \in Nat /\ x <= z /\ z + w <= x + out
  BY <1>1 DEF Meets
<1>3. ASSUME NEW k \in 0 .. n - 1
      PROVE  z <= k /\ k <= z + w - 1 <=> x <= k /\ k < x + out /\ l <= k - x + off /\ k - x + off <= r
  BY <1>1, <1>2 DEF Meets
<1>4. QED BY <1>1, <1>2, <1>3 DEF Band, Strip

(* The blocks along one side of a picture: each begins in it, and each of  *)
(* its columns, or rows, is in one of them                                 *)
LEMMA SideBlocks ==
  ASSUME NEW W \in Nat \ {0}, NEW B \in Nat \ {0}, NEW m, m = (W + B - 1) \div B
  PROVE  /\ m \in Nat \ {0}
         /\ \A q \in 0 .. m - 1 : B * q \in Nat /\ B * q <= W - 1
         /\ \A u \in 0 .. W - 1 : \E q \in 0 .. m - 1 : B * q <= u /\ u <= Least(B * q + B, W) - 1
<1>1. PICK a, e : a = W + B - 1 /\ e = a % B
  OBVIOUS
<1>2. a \in Nat /\ m = a \div B
  BY <1>1
<1>3. m \in Nat /\ e \in 0 .. B - 1 /\ a = B * m + e
  <2>1. PICK d : d = a \div B
    OBVIOUS
  <2>2. d \in Nat /\ e \in 0 .. B - 1 /\ a = B * d + e
    BY <1>1, <1>2, <2>1, Division
  <2>3. QED BY <1>2, <2>1, <2>2
<1>4. m # 0
  <2>1. m = 0 => B * m = 0
    OBVIOUS
  <2>2. QED BY <1>1, <1>3, <2>1
<1>5. ASSUME NEW q \in 0 .. m - 1 PROVE B * q \in Nat /\ B * q <= W - 1
  <2>1. PICK i \in Nat : m = q + 1 + i
    <3>1. m - q - 1 \in Nat /\ m = q + 1 + (m - q - 1)
      BY <1>3
    <3>2. QED BY <3>1
  <2>2. B * m = B * q + B + B * i
    BY <2>1
  <2>3. B * q \in Nat /\ B * i \in Nat
    OBVIOUS
  <2>4. QED BY <1>1, <1>3, <2>2, <2>3
<1>6. ASSUME NEW u \in 0 .. W - 1 PROVE \E q \in 0 .. m - 1 : B * q <= u /\ u <= Least(B * q + B, W) - 1
  <2>1. PICK q, f : q = u \div B /\ f = u % B
    OBVIOUS
  <2>2. q \in Nat /\ f \in 0 .. B - 1 /\ u = B * q + f
    <3>1. u \in Nat
      OBVIOUS
    <3>2. QED BY <2>1, <3>1, Division
  <2>3. PICK g : g = B * q
    OBVIOUS
  <2>4. g \in Nat /\ u = g + f
    BY <2>2, <2>3
  <2>5. g <= u /\ u <= Least(g + B, W) - 1
    BY <2>2, <2>4 DEF Least
  <2>6. q < m
    <3> SUFFICES ASSUME ~(q < m) PROVE FALSE
      OBVIOUS
    <3>1. PICK i \in Nat : q = m + i
      <4>1. q - m \in Nat /\ q = m + (q - m)
        BY <1>3, <2>2
      <4>2. QED BY <4>1
    <3>2. B * q = B * m + B * i
      BY <1>3, <3>1
    <3>3. B * i \in Nat /\ B * m \in Nat
      BY <1>3
    <3>4. QED BY <1>1, <1>3, <2>2, <2>3, <2>4, <3>2, <3>3
  <2>7. q \in 0 .. m - 1
    BY <1>3, <2>2, <2>6
  <2>8. QED BY <2>3, <2>5, <2>7
<1>7. QED BY <1>3, <1>4, <1>5, <1>6

(* It is the same on a screen of any size.                                 *)
Alike(x, w, x0, l, r, ox, ow) == \A n \in Nat : Strip(x, w, n) = Band(x0, l, r, ox, ow, n)

(* The same, for a screen of any size,                                     *)
LEMMA BandStrip ==
  ASSUME NEW x0 \in Nat, NEW l \in Int, NEW r \in Int, NEW ox \in Nat, NEW ow \in Nat,
         Meets(l, r, ox, ow), NEW w, NEW x, Placing(x0, l, r, ox, ow, w, x)
  PROVE  Alike(x, w, x0, l, r, ox, ow)
<1>1. ASSUME NEW n \in Nat PROVE Strip(x, w, n) = Band(x0, l, r, ox, ow, n)
  BY BandIs
<1>2. QED BY <1>1 DEF Alike

(* and where it ends.                                                      *)
LEMMA BandSpan ==
  ASSUME NEW x0 \in Nat, NEW l \in Int, NEW r \in Int, NEW ox \in Nat, NEW ow \in Nat, NEW n \in Nat,
         Meets(l, r, ox, ow), NEW w, NEW x, Placing(x0, l, r, ox, ow, w, x)
  PROVE  w \in Nat /\ x \in Nat /\ x + w <= x0 + ow
BY BandIs

(* The window of a block, and its pixels.                                  *)
LEMMA BandPaints ==
  ASSUME NEW x0 \in Nat, NEW y0 \in Nat, NEW l \in Int, NEW r \in Int, NEW t \in Int, NEW u \in Int,
         NEW ox \in Nat, NEW oy \in Nat, NEW ow \in Nat, NEW oh \in Nat, rotation \in 0 .. 7,
         Meets(l, r, ox, ow), Meets(t, u, oy, oh),
         Fits(x0, ow), Fits(y0, oh),
         NEW w, NEW x, Placing(x0, l, r, ox, ow, w, x), NEW h, NEW y, Placing(y0, t, u, oy, oh, h, y)
  PROVE  Paints(Sent(Window(x, y, x + w - 1, y + h - 1), w * h),
                Band(x0, l, r, ox, ow, _width) \X Band(y0, t, u, oy, oh, _height))
<1>1. w \in Nat /\ x \in Nat /\ x + w <= x0 + ow
  BY BandSpan
<1>2. h \in Nat /\ y \in Nat /\ y + h <= y0 + oh
  BY BandSpan
<1>7. _width \in Nat /\ _height \in Nat
  BY Small
<1>3. Fits(x, w) /\ Fits(y, h)
  BY <1>1, <1>2 DEF Fits
<1>4. Paints(Sent(Window(x, y, x + w - 1, y + h - 1), w * h), Visible(x, y, w, h))
  BY <1>1, <1>2, <1>3, AreaTakes DEF Paints
<1>5. Visible(x, y, w, h) = Band(x0, l, r, ox, ow, _width) \X Band(y0, t, u, oy, oh, _height)
  <2>1. Visible(x, y, w, h) = Strip(x, w, _width) \X Strip(y, h, _height)
    BY DEF Visible
  <2>2. Alike(x, w, x0, l, r, ox, ow) /\ Alike(y, h, y0, t, u, oy, oh)
    BY BandStrip
  <2>3. /\ Strip(x, w, _width) = Band(x0, l, r, ox, ow, _width)
        /\ Strip(y, h, _height) = Band(y0, t, u, oy, oh, _height)
    BY <1>7, <2>2, Zenon DEF Alike
  <2>4. QED BY <2>1, <2>2, <2>3
<1>6. QED BY <1>4, <1>5

(* jpgWrite()                                                              *)
LEMMA BlockPaints ==
  ASSUME rotation \in 0 .. 7,
         NEW j, j.x \in Nat, j.y \in Nat, j.offX \in Nat, j.offY \in Nat, j.outW \in Nat, j.outH \in Nat,
         j.x + j.outW <= 1000, j.y + j.outH <= 1000,
         NEW b, b.left \in Int, b.right \in Int, b.top \in Int, b.bottom \in Int,
         b.left <= b.right + 1, b.top <= b.bottom + 1
  PROVE  Paints(jpgWrite(j, b), Band(j.x, b.left, b.right, j.offX, j.outW, _width)
                                \X Band(j.y, b.top, b.bottom, j.offY, j.outH, _height))
<1>1. PICK l, r, t, u, x0, y0, ox, oy, ow, oh :
        /\ l = b.left /\ r = b.right /\ t = b.top /\ u = b.bottom /\ x0 = j.x /\ y0 = j.y
        /\ ox = j.offX /\ oy = j.offY /\ ow = j.outW /\ oh = j.outH
  OBVIOUS
<1>2. /\ l \in Int /\ r \in Int /\ t \in Int /\ u \in Int /\ l <= r + 1 /\ t <= u + 1
      /\ x0 \in Nat /\ y0 \in Nat /\ ox \in Nat /\ oy \in Nat /\ ow \in Nat /\ oh \in Nat
      /\ x0 + ow <= 1000 /\ y0 + oh <= 1000
  BY <1>1
<1>3. _width \in Nat /\ _height \in Nat
  BY Small
<1>4. PICK X, Y : X = Band(x0, l, r, ox, ow, _width) /\ Y = Band(y0, t, u, oy, oh, _height)
  OBVIOUS
<1>5. CASE r < ox \/ l >= ox + ow \/ u < oy \/ t >= oy + oh
  <2>1. jpgWrite(j, b) = <<>>
    BY <1>1, <1>5 DEF jpgWrite
  <2>2. X = {} \/ Y = {}
    BY <1>2, <1>3, <1>4, <1>5, BandNone
  <2>3. X \X Y = {}
    BY <2>2
  <2>4. QED BY <1>1, <1>4, <2>1, <2>3, NothingPaints
<1>6. CASE ~(r < ox \/ l >= ox + ow \/ u < oy \/ t >= oy + oh)
  <2>1. PICK above, below, before, beyond :
          above = Before(t, oy) /\ below = Beyond(u, oy + oh) /\ before = Before(l, ox)
          /\ beyond = Beyond(r, ox + ow)
    OBVIOUS
  <2>2. PICK w, h, x, y : /\ w = r + 1 - l - before - beyond /\ h = u + 1 - t - above - below
                          /\ x = l - ox + x0 + before /\ y = t - oy + y0 + above
    OBVIOUS
  <2>11. Placing(x0, l, r, ox, ow, w, x) /\ Placing(y0, t, u, oy, oh, h, y)
    BY <2>1, <2>2 DEF Placing
  <2>5. y = t + above - oy + y0
    <3>1. above \in Int
      BY <1>2, <2>1 DEF Before
    <3>2. QED BY <1>2, <2>2, <3>1
  <2>6. jpgWrite(j, b) = Sent(Window(x, y, x + w - 1, y + h - 1), w * h)
    <3>1. CutOff(j, b) = [left |-> before, right |-> beyond]
      BY <1>1, <2>1 DEF CutOff, Before, Beyond
    <3>2. CutOff(j, b).left = before /\ CutOff(j, b).right = beyond
      BY <3>1
    <3>3. QED BY <1>1, <1>6, <2>1, <2>2, <2>5, <3>2 DEF jpgWrite, Before, Beyond
  <2>7. Fits(x0, ow) /\ Fits(y0, oh)
    BY <1>2 DEF Fits
  <2>10. Meets(l, r, ox, ow) /\ Meets(t, u, oy, oh)
    BY <1>2, <1>6 DEF Meets
  <2>12. Paints(Sent(Window(x, y, x + w - 1, y + h - 1), w * h),
                Band(x0, l, r, ox, ow, _width) \X Band(y0, t, u, oy, oh, _height))
    BY <1>2, <2>7, <2>10, <2>11, BandPaints
  <2>13. QED BY <1>1, <1>4, <2>6, <2>12
<1>7. QED BY <1>5, <1>6

(* The q-th block along a side of W, and what is shown of it               *)
Edge(W, B, q) == Least(B * q + B, W) - 1
SideBand(x, W, B, off, out, n, q) == Band(x, B * q, Edge(W, B, q), off, out, n)

(* The blocks along a side show all that is wanted of it, and no more.     *)
LEMMA SideCovered ==
  ASSUME NEW x \in Nat, NEW W \in Nat \ {0}, NEW B \in Nat \ {0},
         NEW off \in Nat, NEW out \in Nat, NEW n \in Nat,
         off + out <= W, NEW m, m = (W + B - 1) \div B
  PROVE  /\ \A q : SideBand(x, W, B, off, out, n, q) \subseteq Strip(x, out, n)
         /\ \A k \in Strip(x, out, n) : \E q \in 0 .. m - 1 : k \in SideBand(x, W, B, off, out, n, q)
<1>1. ASSUME NEW q PROVE SideBand(x, W, B, off, out, n, q) \subseteq Strip(x, out, n)
  <2>1. PICK l, r : l = B * q /\ r = Edge(W, B, q)
    OBVIOUS
  <2>2. SideBand(x, W, B, off, out, n, q) = Band(x, l, r, off, out, n)
    BY <2>1 DEF SideBand
  <2>3. Band(x, l, r, off, out, n) \subseteq Strip(x, out, n)
    BY DEF Band, Strip
  <2>4. QED BY <2>2, <2>3
<1>2. ASSUME NEW k \in Strip(x, out, n)
      PROVE  \E q \in 0 .. m - 1 : k \in SideBand(x, W, B, off, out, n, q)
  <2>1. k \in 0 .. n - 1 /\ x <= k /\ k < x + out
    BY DEF Strip
  <2>2. PICK u : u = k - x + off
    OBVIOUS
  <2>3. u \in 0 .. W - 1
    BY <2>1, <2>2
  <2>4. PICK q \in 0 .. m - 1 : B * q <= u /\ u <= Least(B * q + B, W) - 1
    BY <2>3, SideBlocks
  <2>5. PICK l, r : l = B * q /\ r = Edge(W, B, q)
    OBVIOUS
  <2>6. l <= u /\ u <= r
    BY <2>4, <2>5 DEF Edge
  <2>7. k \in Band(x, l, r, off, out, n)
    BY <2>1, <2>2, <2>6 DEF Band
  <2>8. QED BY <2>5, <2>7 DEF SideBand
<1>3. QED BY <1>1, <1>2

(* m columns and r rows of rectangles, counted row after row               *)
Covers(X, m, S) == /\ \A q \in 0 .. m - 1 : X[q] \subseteq S
                   /\ \A k \in S : \E q \in 0 .. m - 1 : k \in X[q]
Grid(ps, X, Y, m, n) == \A i \in 1 .. n : ps[i] = X[(i - 1) % m] \X Y[(i - 1) \div m]

(* What covers the columns and what covers the rows covers the rectangle.  *)
LEMMA GridIs ==
  ASSUME NEW m \in Nat \ {0}, NEW r \in Nat \ {0}, NEW n, Whole(m, r, n),
         NEW X, NEW Y, NEW S, NEW T, Covers(X, m, S), Covers(Y, r, T), NEW ps, Grid(ps, X, Y, m, n)
  PROVE  Together(ps, n) = S \X T
<1>1. n = m * r /\ n \in Nat
  BY DEF Whole
<1>2. ASSUME NEW i \in 1 .. n PROVE ps[i] \subseteq S \X T
  <2>1. PICK a, q, v : a = i - 1 /\ q = a % m /\ v = a \div m
    OBVIOUS
  <2>2. a \in 0 .. m * r - 1
    BY <1>1, <2>1
  <2>3. q \in 0 .. m - 1 /\ v \in 0 .. r - 1
    BY <2>1, <2>2, Raster
  <2>4. ps[i] = X[q] \X Y[v]
    BY <2>1 DEF Grid
  <2>5. X[q] \subseteq S /\ Y[v] \subseteq T
    BY <2>3 DEF Covers
  <2>6. QED BY <2>4, <2>5
<1>3. ASSUME NEW k \in S, NEW j \in T PROVE \E i \in 1 .. n : <<k, j>> \in ps[i]
  <2>1. PICK q \in 0 .. m - 1 : k \in X[q]
    BY DEF Covers
  <2>2. PICK v \in 0 .. r - 1 : j \in Y[v]
    BY DEF Covers
  <2>3. PICK a : a = m * v + q
    OBVIOUS
  <2>4. a \in 0 .. m * r - 1
    BY <2>3, Raster
  <2>5. a \div m = v /\ a % m = q
    <3>1. v \in Nat
      BY <2>2
    <3>2. QED BY <2>3, <3>1, DivisionOnly
  <2>6. PICK i : i = a + 1
    OBVIOUS
  <2>7. i \in 1 .. n /\ i - 1 = a
    BY <1>1, <2>4, <2>6
  <2>8. ps[i] = X[q] \X Y[v]
    BY <2>5, <2>7 DEF Grid
  <2>9. QED BY <2>1, <2>2, <2>7, <2>8
<1>4. Together(ps, n) \subseteq S \X T
  BY <1>2 DEF Together
<1>5. S \X T \subseteq Together(ps, n)
  BY <1>3 DEF Together
<1>6. QED BY <1>4, <1>5

(* A maximum of 0 is what is left of the screen.                           *)
Reach(x, max, n) == IF max = 0 THEN n - x ELSE max

(* What is wanted of one side: it is on the screen, and in the picture     *)
LEMMA SideWanted ==
  ASSUME NEW x \in Nat, NEW max \in Nat, NEW n \in Nat, NEW off \in Nat, NEW W \in Nat,
         ~(x + max > n), ~(off >= W), NEW out, out = Least(W - off, Reach(x, max, n))
  PROVE  W # 0 /\ out \in Nat /\ x + out <= n /\ off + out <= W
BY DEF Least, Reach

(* The blocks, row after row                                               *)
LEMMA BlockIs ==
  ASSUME NEW c, NEW W, NEW H, NEW B, W = c.jpgW, H = c.jpgH, B = c.block,
         NEW m, NEW r, m = (W + B - 1) \div B, r = (H + B - 1) \div B
  PROVE  /\ DOMAIN Blocks(c) = 1 .. m * r
         /\ \A i \in 1 .. m * r :
              Blocks(c)[i] = [left |-> B * ((i - 1) % m), top |-> B * ((i - 1) \div m),
                              right |-> Edge(W, B, (i - 1) % m), bottom |-> Edge(H, B, (i - 1) \div m)]
BY DEF Blocks, Edge

(* No block ends before it begins.                                         *)
LEMMA EdgeIs ==
  ASSUME NEW W \in Nat \ {0}, NEW B \in Nat \ {0}, NEW m, m = (W + B - 1) \div B, NEW q \in 0 .. m - 1
  PROVE  B * q \in Int /\ Edge(W, B, q) \in Int /\ B * q <= Edge(W, B, q) + 1
<1>1. PICK l : l = B * q
  OBVIOUS
<1>2. l \in Nat /\ l <= W - 1
  BY <1>1, SideBlocks
<1>3. Edge(W, B, q) = Least(l + B, W) - 1
  BY <1>1 DEF Edge
<1>4. QED BY <1>1, <1>2, <1>3 DEF Least

(* The block in column q and row v.                                        *)
LEMMA OneBlockPaints ==
  ASSUME rotation \in 0 .. 7, NEW j, NEW x \in Nat, NEW y \in Nat, NEW ox \in Nat, NEW oy \in Nat,
         NEW ow \in Nat, NEW oh \in Nat,
         j = [x |-> x, y |-> y, offX |-> ox, offY |-> oy, outW |-> ow, outH |-> oh],
         x + ow <= 1000, y + oh <= 1000,
         NEW W \in Nat \ {0}, NEW H \in Nat \ {0}, NEW B \in Nat \ {0},
         NEW m, m = (W + B - 1) \div B, NEW r, r = (H + B - 1) \div B,
         NEW q \in 0 .. m - 1, NEW v \in 0 .. r - 1, NEW b,
         b = [left |-> B * q, top |-> B * v, right |-> Edge(W, B, q), bottom |-> Edge(H, B, v)]
  PROVE  Paints(jpgWrite(j, b),
                SideBand(x, W, B, ox, ow, _width, q) \X SideBand(y, H, B, oy, oh, _height, v))
<1>1. PICK l, e, t, u : l = B * q /\ e = Edge(W, B, q) /\ t = B * v /\ u = Edge(H, B, v)
  OBVIOUS
<1>2. l \in Int /\ e \in Int /\ l <= e + 1
  BY <1>1, EdgeIs
<1>3. t \in Int /\ u \in Int /\ t <= u + 1
  BY <1>1, EdgeIs
<1>4. b.left = l /\ b.right = e /\ b.top = t /\ b.bottom = u
  BY <1>1
<1>5. j.x = x /\ j.y = y /\ j.offX = ox /\ j.offY = oy /\ j.outW = ow /\ j.outH = oh
  OBVIOUS
<1>6. Paints(jpgWrite(j, b), Band(j.x, b.left, b.right, j.offX, j.outW, _width)
                             \X Band(j.y, b.top, b.bottom, j.offY, j.outH, _height))
  BY <1>2, <1>3, <1>4, <1>5, BlockPaints
<1>7. /\ Band(j.x, b.left, b.right, j.offX, j.outW, _width) = SideBand(x, W, B, ox, ow, _width, q)
      /\ Band(j.y, b.top, b.bottom, j.offY, j.outH, _height) = SideBand(y, H, B, oy, oh, _height, v)
  BY <1>1, <1>4, <1>5 DEF SideBand
<1>8. QED BY <1>6, <1>7, Zenon

(* drawJpgFile()                                                           *)
LEMMA JpegPaints ==
  ASSUME rotation \in 0 .. 7, NEW c, c.x \in Nat, c.y \in Nat, c.maxW \in Nat, c.maxH \in Nat,
         c.jpgW \in Nat, c.jpgH \in Nat, c.offX \in Nat, c.offY \in Nat, c.block \in Nat \ {0}
  PROVE  Paints(Jpeg(c), IF Refused(c) THEN {} ELSE Cut(Rect(c.x, c.y, Wanted(c).outW, Wanted(c).outH)))
<1>1. CASE Refused(c)
  BY <1>1, NothingPaints DEF Jpeg
<1>2. CASE ~Refused(c)
  <2>1. PICK x, y, ox, oy, W, H, B, gw, gh, mw, mh :
          /\ x = c.x /\ y = c.y /\ ox = c.offX /\ oy = c.offY /\ W = c.jpgW /\ H = c.jpgH /\ B = c.block
          /\ gw = _width /\ gh = _height /\ mw = c.maxW /\ mh = c.maxH
    OBVIOUS
  <2>2. PICK ow, oh : /\ ow = Least(W - ox, Reach(x, mw, gw))
                      /\ oh = Least(H - oy, Reach(y, mh, gh))
    OBVIOUS
  <2>3. Wanted(c) = [x |-> x, y |-> y, offX |-> ox, offY |-> oy, outW |-> ow, outH |-> oh]
    BY <2>1, <2>2 DEF Wanted, Reach
  <2>4. gw \in Nat /\ gh \in Nat /\ gw <= 1000 /\ gh <= 1000
    BY <2>1, Small
  <2>5. /\ x \in Nat /\ y \in Nat /\ ox \in Nat /\ oy \in Nat /\ W \in Nat /\ H \in Nat /\ B \in Nat \ {0}
      /\ mw \in Nat /\ mh \in Nat
    BY <2>1
  <2>6. ~(x + mw > gw) /\ ~(ox >= W) /\ ~(y + mh > gh) /\ ~(oy >= H)
    BY <1>2, <2>1 DEF Refused
  <2>7. W # 0 /\ ow \in Nat /\ x + ow <= gw /\ ox + ow <= W
    <3>1. x \in Nat /\ mw \in Nat /\ gw \in Nat /\ ox \in Nat /\ W \in Nat
      BY <2>4, <2>5
    <3>2. ~(x + mw > gw) /\ ~(ox >= W)
      BY <2>6
    <3>3. ow = Least(W - ox, Reach(x, mw, gw))
      BY <2>2
    <3>4. QED BY <3>1, <3>2, <3>3, SideWanted
  <2>8. H # 0 /\ oh \in Nat /\ y + oh <= gh /\ oy + oh <= H
    <3>1. y \in Nat /\ mh \in Nat /\ gh \in Nat /\ oy \in Nat /\ H \in Nat
      BY <2>4, <2>5
    <3>2. ~(y + mh > gh) /\ ~(oy >= H)
      BY <2>6
    <3>3. oh = Least(H - oy, Reach(y, mh, gh))
      BY <2>2
    <3>4. QED BY <3>1, <3>2, <3>3, SideWanted
  <2>9. PICK m, r : m = (W + B - 1) \div B /\ r = (H + B - 1) \div B
    OBVIOUS
  <2>10. m \in Nat \ {0} /\ r \in Nat \ {0}
    BY <2>5, <2>7, <2>8, <2>9, SideBlocks
  <2>11. PICK n, j, bs : n = m * r /\ j = Wanted(c) /\ bs = Blocks(c)
    OBVIOUS
  <2>12. n \in Nat
    BY <2>10, <2>11
  <2>13. PICK X, Y : /\ X = [q \in 0 .. m - 1 |-> SideBand(x, W, B, ox, ow, gw, q)]
                     /\ Y = [v \in 0 .. r - 1 |-> SideBand(y, H, B, oy, oh, gh, v)]
    OBVIOUS
  <2>14. PICK ss, ps : /\ ss = [i \in DOMAIN bs |-> jpgWrite(j, bs[i])]
                       /\ ps = [i \in 1 .. n |-> X[(i - 1) % m] \X Y[(i - 1) \div m]]
    OBVIOUS
  <2>15. /\ DOMAIN bs = 1 .. n
         /\ \A i \in 1 .. n :
              bs[i] = [left |-> B * ((i - 1) % m), top |-> B * ((i - 1) \div m),
                       right |-> Edge(W, B, (i - 1) % m), bottom |-> Edge(H, B, (i - 1) \div m)]
    BY <2>1, <2>9, <2>11, BlockIs
  <2>16. ASSUME NEW i \in 1 .. n PROVE Paints(ss[i], ps[i])
    <3>1. PICK a, q, v, b : a = i - 1 /\ q = a % m /\ v = a \div m /\ b = bs[i]
      OBVIOUS
    <3>2. a \in 0 .. m * r - 1
      BY <2>11, <2>12, <3>1
    <3>3. q \in 0 .. m - 1 /\ v \in 0 .. r - 1
      BY <2>10, <3>1, <3>2, Raster
    <3>4. b = [left |-> B * q, top |-> B * v, right |-> Edge(W, B, q), bottom |-> Edge(H, B, v)]
      BY <2>15, <3>1
    <3>5. j = [x |-> x, y |-> y, offX |-> ox, offY |-> oy, outW |-> ow, outH |-> oh]
      BY <2>3, <2>11
    <3>6. x + ow <= 1000 /\ y + oh <= 1000 /\ W \in Nat \ {0} /\ H \in Nat \ {0}
      BY <2>4, <2>5, <2>7, <2>8
    <3>7. Paints(jpgWrite(j, b),
                 SideBand(x, W, B, ox, ow, _width, q) \X SideBand(y, H, B, oy, oh, _height, v))
      BY <2>5, <2>7, <2>8, <2>9, <3>3, <3>4, <3>5, <3>6, OneBlockPaints
    <3>8. ss[i] = jpgWrite(j, b)
      BY <2>14, <2>15, <3>1
    <3>9. ps[i] = X[q] \X Y[v]
      BY <2>14, <3>1
    <3>10. X[q] = SideBand(x, W, B, ox, ow, _width, q) /\ Y[v] = SideBand(y, H, B, oy, oh, _height, v)
      BY <2>1, <2>13, <3>3
    <3>11. QED BY <3>7, <3>8, <3>9, <3>10, Zenon
  <2>17. ss \in Seq(Seq(BusSteps)) /\ Len(ss) = n
    <3>1. \A i \in 1 .. n : ss[i] \in Seq(BusSteps)
      BY <2>16 DEF Paints, Takes
    <3>2. ss \in [1 .. n -> Seq(BusSteps)]
      BY <2>14, <2>15, <3>1
    <3>3. QED BY <2>12, <2>14, <2>15, <3>2, IsSeq
  <2>18. Paints(FlattenSeq(ss), Together(ps, n))
    <3>1. \A i \in 1 .. Len(ss) : Takes(ss[i], Panels, Panels, ps[i])
      BY <2>16, <2>17 DEF Paints
    <3>2. Takes(FlattenSeq(ss), Panels, Panels, Together(ps, Len(ss)))
      BY <2>17, <3>1, Pieces
    <3>3. QED BY <2>17, <3>2 DEF Paints
  <2>19. Together(ps, n) = Strip(x, ow, gw) \X Strip(y, oh, gh)
    <3>1. Covers(X, m, Strip(x, ow, gw))
      <4>1. \A q : SideBand(x, W, B, ox, ow, gw, q) \subseteq Strip(x, ow, gw)
        BY <2>4, <2>5, <2>7, <2>9, SideCovered
      <4>2. \A k \in Strip(x, ow, gw) : \E q \in 0 .. m - 1 : k \in SideBand(x, W, B, ox, ow, gw, q)
        BY <2>4, <2>5, <2>7, <2>9, SideCovered
      <4>3. QED BY <2>13, <4>1, <4>2 DEF Covers
    <3>2. Covers(Y, r, Strip(y, oh, gh))
      <4>1. \A v : SideBand(y, H, B, oy, oh, gh, v) \subseteq Strip(y, oh, gh)
        BY <2>4, <2>5, <2>8, <2>9, SideCovered
      <4>2. \A k \in Strip(y, oh, gh) : \E v \in 0 .. r - 1 : k \in SideBand(y, H, B, oy, oh, gh, v)
        BY <2>4, <2>5, <2>8, <2>9, SideCovered
      <4>3. QED BY <2>13, <4>1, <4>2 DEF Covers
    <3>3. Whole(m, r, n)
      BY <2>11 DEF Whole
    <3>4. Grid(ps, X, Y, m, n)
      BY <2>14 DEF Grid
    <3>5. QED BY <2>10, <3>1, <3>2, <3>3, <3>4, GridIs
  <2>20. Cut(Rect(c.x, c.y, Wanted(c).outW, Wanted(c).outH)) = Strip(x, ow, gw) \X Strip(y, oh, gh)
    <3>1. PICK p : p = Rect(x, y, ow, oh)
      OBVIOUS
    <3>2. p.x = x /\ p.y = y /\ p.w = ow /\ p.h = oh
      BY <3>1 DEF Rect, Prim
    <3>3. Cut(p) = Visible(x, y, ow, oh)
      BY <2>5, <2>7, <2>8, <3>2, CutIs
    <3>4. Visible(x, y, ow, oh) = Strip(x, ow, gw) \X Strip(y, oh, gh)
      BY <2>1 DEF Visible
    <3>5. Wanted(c).outW = ow /\ Wanted(c).outH = oh
      BY <2>3
    <3>6. QED BY <2>1, <3>1, <3>3, <3>4, <3>5
  <2>21. Jpeg(c) = FlattenSeq(ss)
    <3>1. Jpeg(c) = FlattenSeq([i \in DOMAIN Blocks(c) |-> jpgWrite(Wanted(c), Blocks(c)[i])])
      BY <1>2 DEF Jpeg
    <3>2. QED BY <2>11, <2>14, <3>1, Zenon
  <2>22. QED BY <1>2, <2>18, <2>19, <2>20, <2>21
<1>3. QED BY <1>1, <1>2

-----------------------------------------------------------------------------
(* Calls whose parts fit together: the dots of an enlarged character are   *)
(* in its box, the parts of an image are the whole of it, and what is not  *)
(* clipped begins on the screen and ends within 16 bits.                   *)
Fitting(c) ==
  /\ c.op = "bigChar" =>
       /\ c.x >= 0 /\ c.y >= 0 /\ Fits(c.x, c.w * c.size) /\ Fits(c.y, c.h * c.size)
       /\ \A i \in DOMAIN c.dots : c.dots[i][1] \in 0 .. c.w - 1 /\ c.dots[i][2] \in 0 .. c.h - 1
  /\ c.op = "image" =>
       /\ c.p.x >= 0 /\ c.p.y >= 0 /\ c.p.w >= 1 /\ c.p.h >= 1 /\ Fits(c.p.x, c.p.w) /\ Fits(c.p.y, c.p.h)
       /\ \E t : Parted(c.parts, t, c.p.w * c.p.h)
  /\ c.op = "pushRect" => c.x >= 0 /\ c.y >= 0 /\ Fits(c.x, c.w) /\ Fits(c.y, c.h)
  /\ c.op = "drawJpgFile" => c.x >= 0 /\ c.y >= 0

(* pushRect()                                                              *)
LEMMA PushedRect ==
  ASSUME rotation \in 0 .. 7, NEW c, c.x \in Nat, c.y \in Nat, c.w \in Nat, c.h \in Nat,
         Fits(c.x, c.w), Fits(c.y, c.h)
  PROVE  Paints(IF c.x > _width \/ c.y > _height \/ c.w = 0 \/ c.h = 0 THEN <<>>
                ELSE Sent(WindowOf(c), c.w * c.h), Cut(c))
<1>1. PICK x, y, w, h, gw, gh : x = c.x /\ y = c.y /\ w = c.w /\ h = c.h /\ gw = _width /\ gh = _height
  OBVIOUS
<1>2. x \in Nat /\ y \in Nat /\ w \in Nat /\ h \in Nat /\ gw \in Nat /\ gh \in Nat
  BY <1>1, Small
<1>3. CASE x > gw \/ y > gh \/ w = 0 \/ h = 0
  <2>1. Strip(x, w, gw) = {} \/ Strip(y, h, gh) = {}
    BY <1>2, <1>3, StripEmpty
  <2>2. Visible(x, y, w, h) = {}
    BY <1>1, <2>1, VisibleEmpty
  <2>3. Cut(c) = {}
    BY <1>1, <1>2, <2>2, CutIs
  <2>4. QED BY <1>1, <1>3, <2>3, NothingPaints
<1>4. CASE ~(x > gw \/ y > gh \/ w = 0 \/ h = 0)
  <2>1. Paints(Sent(WindowOf(c), c.w * c.h), Cut(c))
    BY PushPaints
  <2>2. QED BY <1>1, <1>4, <2>1
<1>5. QED BY <1>3, <1>4

(* A call paints what its steps paint.                                     *)
LEMMA PaintsIf ==
  ASSUME NEW c, NEW s, NEW P, Steps(c) = s, PictureOf(c) = P, Paints(s, P)
  PROVE  Paints(Steps(c), PictureOf(c))
OBVIOUS

(* Whatever the sketch calls but setRotation(): its steps draw its         *)
(* picture, and nothing else, whatever the controller and the driver were  *)
(* left with.                                                              *)
LEMMA CallPaints ==
  ASSUME rotation \in 0 .. 7, NEW c \in SketchCalls, Fitting(c), c.op # "setRotation"
  PROVE  Paints(Steps(c), PictureOf(c))
<1>1. CASE c \in [op : {"draw", "shape"}, prims : Seq(Prims)]
  <2>1. c.prims \in Seq(Prims) /\ c.op \in {"draw", "shape"}
    BY <1>1
  <2>2. PictureOf(c) = Picture(c.prims)
    BY <2>1 DEF PictureOf
  <2>3. CASE c.op = "draw"
    <3>1. Steps(c) = Draw(c.prims)
      BY <2>3 DEF Steps
    <3>2. Paints(Draw(c.prims), Picture(c.prims))
      BY <2>1, DrawTakes DEF Paints
    <3>3. QED BY <2>2, <3>1, <3>2
  <2>4. CASE c.op = "shape"
    <3>1. Steps(c) = Shape(c.prims)
      BY <2>4 DEF Steps
    <3>2. Paints(Shape(c.prims), Picture(c.prims))
      BY <2>1, ShapePaints
    <3>3. QED BY <2>2, <3>1, <3>2
  <2>5. QED BY <2>1, <2>3, <2>4
<1>2. CASE c \in [op : {"drawTriangle", "fillTriangle"}, a : Points, b : Points, c : Points]
  <2>1. /\ c.a \in Points /\ c.b \in Points /\ c.c \in Points
        /\ c.op \in {"drawTriangle", "fillTriangle"}
    BY <1>2
  <2>2. CASE c.op = "drawTriangle"
    <3>1. Steps(c) = TriangleLines(c.a, c.b, c.c) /\ PictureOf(c) = Picture(drawTriangle(c.a, c.b, c.c))
      BY <2>2 DEF Steps, PictureOf
    <3>2. Paints(TriangleLines(c.a, c.b, c.c), Picture(drawTriangle(c.a, c.b, c.c)))
      BY <2>1, TrianglePaints
    <3>3. QED BY <3>1, <3>2
  <2>3. CASE c.op = "fillTriangle"
    <3>1. Steps(c) = FilledTriangle(c.a, c.b, c.c) /\ PictureOf(c) = Picture(fillTriangle(c.a, c.b, c.c))
      BY <2>3 DEF Steps, PictureOf
    <3>2. Paints(FilledTriangle(c.a, c.b, c.c), Picture(fillTriangle(c.a, c.b, c.c)))
      BY <2>1, FillPaints
    <3>3. QED BY <3>1, <3>2
  <2>4. QED BY <2>1, <2>2, <2>3
<1>3. CASE c \in [op : {"drawChar"}, x : Int, y : Int]
  <2>1. c.x \in Int /\ c.y \in Int /\ c.op = "drawChar"
    BY <1>3
  <2>2. Steps(c) = Cell(c.x, c.y) /\ PictureOf(c) = Cut(Rect(c.x, c.y, 6, 8))
    BY <2>1 DEF Steps, PictureOf
  <2>3. Paints(Cell(c.x, c.y), Cut(Rect(c.x, c.y, 6, 8)))
    BY <2>1, CellPaints
  <2>4. QED BY <2>2, <2>3
<1>4. CASE c \in [op : {"bigChar"}, x : Int, y : Int, w : Nat, h : Nat, size : Nat, dots : Seq(Points)]
  <2>1. /\ c.x \in Int /\ c.y \in Int /\ c.w \in Nat /\ c.h \in Nat /\ c.size \in Nat
        /\ c.dots \in Seq(Points) /\ c.op = "bigChar"
    BY <1>4
  <2>2. PICK x, y, w, h, size, dots :
          /\ x = c.x /\ y = c.y /\ w = c.w /\ h = c.h /\ size = c.size /\ dots = c.dots
    OBVIOUS
  <2>3. /\ x \in Nat /\ y \in Nat /\ w \in Nat /\ h \in Nat /\ size \in Nat /\ dots \in Seq(Points)
        /\ Fits(x, w * size) /\ Fits(y, h * size)
        /\ \A i \in DOMAIN dots : dots[i][1] \in 0 .. w - 1 /\ dots[i][2] \in 0 .. h - 1
    BY <2>1, <2>2 DEF Fitting
  <2>4. /\ Steps(c) = BigCharacter(x, y, w, h, size, dots)
        /\ PictureOf(c) = Cut(Rect(x, y, w * size, h * size))
    BY <2>1, <2>2 DEF Steps, PictureOf
  <2>5. Paints(BigCharacter(x, y, w, h, size, dots), Cut(Rect(x, y, w * size, h * size)))
    BY <2>3, CharacterPaints
  <2>6. QED BY <2>4, <2>5
<1>5. CASE c \in [op : {"image"}, p : Prims, parts : Seq(Nat)]
  <2>1. c.p \in Prims /\ c.parts \in Seq(Nat) /\ c.op = "image"
    BY <1>5
  <2>2. PICK p, parts : p = c.p /\ parts = c.parts
    OBVIOUS
  <2>3. p \in Prims /\ parts \in Seq(Nat)
    BY <2>1, <2>2
  <2>4. /\ p.x >= 0 /\ p.y >= 0 /\ p.w >= 1 /\ p.h >= 1 /\ Fits(p.x, p.w) /\ Fits(p.y, p.h)
        /\ \E t : Parted(parts, t, p.w * p.h)
    BY <2>1, <2>2 DEF Fitting
  <2>5. p.x \in Int /\ p.y \in Int /\ p.w \in Int /\ p.h \in Int
    BY <2>3 DEF Prims
  <2>6. p.x \in Nat /\ p.y \in Nat /\ p.w \in Nat \ {0} /\ p.h \in Nat \ {0}
    BY <2>4, <2>5
  <2>7. PICK t : Parted(parts, t, p.w * p.h)
    BY <2>4
  <2>8. Paints(Image(p, parts), Cut(p))
    BY <2>3, <2>4, <2>6, <2>7, ImagePaints
  <2>9. Steps(c) = Image(p, parts) /\ PictureOf(c) = Cut(p)
    BY <2>1, <2>2 DEF Steps, PictureOf
  <2>10. QED BY <2>8, <2>9
<1>6. CASE c \in [op : {"pushRect"}, x : Int, y : Int, w : Nat, h : Nat]
  <2>1. c.x \in Int /\ c.y \in Int /\ c.w \in Nat /\ c.h \in Nat /\ c.op = "pushRect"
    BY <1>6
  <2>2. c.x \in Nat /\ c.y \in Nat /\ Fits(c.x, c.w) /\ Fits(c.y, c.h)
    BY <2>1 DEF Fitting
  <2>3. PICK s : s = (IF c.x > _width \/ c.y > _height \/ c.w = 0 \/ c.h = 0 THEN <<>>
                      ELSE Sent(WindowOf(c), c.w * c.h))
    OBVIOUS
  <2>4. Steps(c) = s /\ PictureOf(c) = Cut(c)
    BY <2>1, <2>3 DEF Steps, PictureOf
  <2>5. Paints(s, Cut(c))
    BY <2>1, <2>2, <2>3, PushedRect
  <2>6. QED BY <2>4, <2>5
<1>7. CASE c \in [op : {"drawJpgFile"}, x : Int, y : Int, maxW : Nat, maxH : Nat, jpgW : Nat,
                  jpgH : Nat, offX : Nat, offY : Nat, block : Nat \ {0}]
  <2>1. /\ c.x \in Int /\ c.y \in Int /\ c.maxW \in Nat /\ c.maxH \in Nat /\ c.jpgW \in Nat
        /\ c.jpgH \in Nat /\ c.offX \in Nat /\ c.offY \in Nat /\ c.block \in Nat \ {0}
        /\ c.op = "drawJpgFile"
    BY <1>7
  <2>2. c.x \in Nat /\ c.y \in Nat
    BY <2>1 DEF Fitting
  <2>3. PICK P : P = (IF Refused(c) THEN {} ELSE Cut(Rect(c.x, c.y, Wanted(c).outW, Wanted(c).outH)))
    OBVIOUS
  <2>4. Steps(c) = Jpeg(c) /\ PictureOf(c) = P
    BY <2>1, <2>3 DEF Steps, PictureOf
  <2>5. Paints(Jpeg(c), P)
    BY <2>1, <2>2, <2>3, JpegPaints
  <2>6. QED BY <2>4, <2>5
<1>8. CASE c \in [op : {"setRotation"}, m : Nat]
  <2>1. c.op = "setRotation"
    BY <1>8
  <2>2. QED BY <2>1
<1>9. QED BY <1>1, <1>2, <1>3, <1>4, <1>5, <1>6, <1>7, <1>8 DEF SketchCalls

(* The controller, and what the driver remembers of it.                    *)
Here == Panel(lcd, addr_col, addr_row)

(* Nothing is drawn before the first call, and by setRotation().           *)
Undrawn == call.op \in {"init", "setRotation"}

(* What has been drawn on the canvas and what the steps that are left will *)
(* draw there is, on the glass, the picture of the call; one that turns    *)
(* the screen draws nothing.                                               *)
Partly(Q) == (drawn \cap Canvas) \cup (Q \cap Glass) = PictureOf(call) \cap Glass
Underway ==
  IF Undrawn THEN drawn = {} /\ NoPixels(todo)
  ELSE \E k, Q : Leads(todo, Here, k, Q) /\ Partly(Q)

PictureInv == BusInv /\ Here \in Panels /\ Underway

(* A picture lies on the canvas.                                           *)
LEMMA PictureOnCanvas == PictureOf(call) \subseteq Canvas
<1>1. \A p : Cut(p) \subseteq Canvas
  BY DEF Cut
<1>2. \A prims : Picture(prims) \subseteq Canvas
  BY <1>1 DEF Picture
<1>3. PictureOf(call) \subseteq Canvas
  BY <1>1, <1>2, Zenon DEF PictureOf
<1>4. QED BY <1>3

(* In all rotations but one the canvas is the glass.                       *)
LEMMA CanvasIsGlass == rotation \in 0 .. 7 /\ rotation # 5 => Canvas = Glass
BY DEF Canvas, Glass, _width, _height, Width, Height, Across, Down, Portrait, Exchanged

(* Where no step is left, the picture is drawn.                            *)
LEMMA UnderwaySays == PictureInv => Drawn
<1> SUFFICES ASSUME PictureInv, todo = <<>> PROVE Drawn
  BY DEF Drawn
<1>1. drawn \cap Canvas = PictureOf(call) \cap Glass
  <2>1. CASE Undrawn
    <3>1. drawn = {}
      BY <2>1 DEF PictureInv, Underway
    <3>2. PictureOf(call) = {}
      BY <2>1 DEF Undrawn, PictureOf
    <3>3. QED BY <3>1, <3>2
  <2>2. CASE ~Undrawn
    <3>1. PICK k, Q : Leads(todo, Here, k, Q) /\ Partly(Q)
      BY <2>2 DEF PictureInv, Underway
    <3>2. PICK l : l = Here
      OBVIOUS
    <3>3. Leads(<<>>, l, k, Q)
      BY <3>1, <3>2
    <3>4. Q = {}
      BY <3>3, LeadsEnd
    <3>5. QED BY <3>1, <3>4 DEF Partly
  <2>3. QED BY <2>1, <2>2
<1>2. ASSUME rotation # 5 PROVE drawn = PictureOf(call)
  <2>1. rotation \in 0 .. 7 /\ drawn \subseteq Glass
    BY DEF PictureInv, BusInv, TypeOK
  <2>2. Canvas = Glass
    BY <1>2, <2>1, CanvasIsGlass
  <2>3. QED BY <1>1, <2>1, <2>2, PictureOnCanvas
<1>3. QED BY <1>1, <1>2 DEF Drawn

(* It holds at the beginning.                                              *)
LEMMA UnderwayInit == Init => PictureInv
<1> SUFFICES ASSUME Init PROVE PictureInv
  OBVIOUS
<1>1. BusInv
  BY BusInit
<1>2. Here \in Panels
  <2>1. PICK w, h : w = TFT_WIDTH /\ h = TFT_HEIGHT
    OBVIOUS
  <2>2. w - 1 \in Nat /\ h - 1 \in Nat
    BY <2>1, ScreenAssumption
  <2>3. /\ lcd = [cols |-> <<0, w - 1>>, rows |-> <<0, h - 1>>, next |-> 0]
        /\ addr_col = Unknown /\ addr_row = Unknown
    BY <2>1 DEF Init
  <2>4. lcd \in Lcds
    BY <2>2, <2>3 DEF Lcds
  <2>5. Unknown \in Nat
    BY DEF Unknown
  <2>6. QED BY <2>3, <2>4, <2>5 DEF Here, Panel, Panels
<1>3. Underway
  <2>1. call.op = "init" /\ drawn = {} /\ todo = <<>>
    BY DEF Init
  <2>2. NoPixels(<<>>)
    BY DEF NoPixels
  <2>3. QED BY <2>1, <2>2 DEF Underway, Undrawn
<1>4. QED BY <1>1, <1>2, <1>3 DEF PictureInv

(* What a step writes, and what a picture is, depends on the way the       *)
(* screen is turned only.                                                  *)
LEMMA SameScreen ==
  rotation' = rotation =>
    Canvas' = Canvas /\ Glass' = Glass /\ _width' = _width /\ _height' = _height
BY DEF Canvas, Glass, _width, _height

(* While the screen is not turned, steps draw the same,                    *)
LEMMA SameInk ==
  ASSUME rotation' = rotation, NEW CONSTANT s, NEW CONSTANT l, NEW CONSTANT k,
         NEW CONSTANT P, Leads(s, l, k, P)
  PROVE  Leads(s, l, k, P)'
<1>1. Canvas' = Canvas
  BY SameScreen
<1>2. \A d, n : Lit(d, n)' = Lit(d, n)
  BY <1>1, Zenon DEF Lit
<1>3. \A x, d : Ink(x, d)' = Ink(x, d)
  BY <1>2, Zenon DEF Ink
<1>4. \A f, z : Inks(s, f, z)' <=> Inks(s, f, z)
  BY <1>3 DEF Inks
<1>5. PICK f \in [0 .. Len(s) -> Panels] :
        f[0] = l /\ f[Len(s)] = k /\ Goes(s, f) /\ \A z : z \in P <=> Inks(s, f, z)
  BY DEF Leads
<1>6. \A z : z \in P <=> Inks(s, f, z)'
  BY <1>4, <1>5
<1>7. QED BY <1>5, <1>6 DEF Leads

(* and a picture is the same.                                              *)
LEMMA SamePicture ==
  ASSUME rotation' = rotation, NEW CONSTANT c
  PROVE  PictureOf(c)' = PictureOf(c)
<1>1. Canvas' = Canvas /\ _width' = _width /\ _height' = _height
  BY SameScreen
<1>2. \A p : Cut(p)' = Cut(p)
  BY <1>1, Zenon DEF Cut
<1>3. \A prims : Picture(prims)' = Picture(prims)
  BY <1>2 DEF Picture
<1>4. Refused(c)' <=> Refused(c)
  BY <1>1 DEF Refused
<1>5. Wanted(c)' = Wanted(c)
  BY <1>1 DEF Wanted
<1>6. QED BY <1>2, <1>3, <1>4, <1>5, Zenon DEF PictureOf

(* What a step writes on the glass, and of that what is on the canvas      *)
Wet(x, l) ==
  IF x.op = "dot" THEN Written(Placed(l, x.x, x.y), 1)
  ELSE IF x.op = "words" THEN Written(l.lcd, x.n) ELSE {}
LEMMA WetIs == ASSUME NEW x, NEW l PROVE Wet(x, l) \cap Canvas = Ink(x, l) \cap Glass
<1>1. \A d, n : Written(d, n) \cap Canvas = Lit(d, n) \cap Glass
  BY DEF Written, Lit
<1>2. QED BY <1>1 DEF Wet, Ink

(* A step of a call draws its part of the picture, and leaves the rest.    *)
LEMMA StepDraws ==
  ASSUME PictureInv, todo # <<>>, todo' = Tail(todo), call' = call,
         Here' = Turned(step, Here), drawn' = drawn \cup Wet(step, Here),
         step.op # "madctl" => rotation' = rotation
  PROVE  Here' \in Panels /\ Underway'
<1>1. BusInv /\ Here \in Panels /\ Underway
  BY DEF PictureInv
<1>2. PICK s, x, l : s = todo /\ x = Head(todo) /\ l = Here
  OBVIOUS
<1>3. s \in Seq(BusSteps) /\ s # <<>> /\ x = Head(s) /\ x = step /\ l \in Panels
  BY <1>1, <1>2 DEF BusInv, step
<1>4. x \in BusSteps /\ Tail(s) \in Seq(BusSteps)
      /\ (NoPixels(s) => NoPixels(Tail(s)) /\ x.op \notin {"words", "dot"})
  BY <1>3, RestIs
<1>5. PICK t, m : t = Tail(s) /\ m = Turned(x, l)
  OBVIOUS
<1>6. todo' = t /\ Here' = m /\ drawn' = drawn \cup Wet(x, l)
  BY <1>2, <1>3, <1>5
<1>7. m \in Panels
  BY <1>3, <1>4, <1>5, TurnedType
<1>8. CASE Undrawn
  <2>1. drawn = {} /\ NoPixels(s)
    BY <1>1, <1>2, <1>8 DEF Underway
  <2>2. Wet(x, l) = {} /\ NoPixels(t)
    BY <1>4, <1>5, <2>1 DEF Wet
  <2>3. drawn' = {} /\ NoPixels(todo')
    BY <1>6, <2>1, <2>2
  <2>4. Undrawn'
    BY <1>8 DEF Undrawn
  <2>5. QED BY <1>6, <1>7, <2>3, <2>4 DEF Underway
<1>9. CASE ~Undrawn
  <2>1. PICK k, Q : Leads(s, l, k, Q) /\ Partly(Q)
    BY <1>1, <1>2, <1>9 DEF Underway
  <2>2. /\ Head(s).op # "madctl"
        /\ \E R : Leads(Tail(s), Turned(Head(s), l), k, R) /\ Q = Ink(Head(s), l) \cup R
    BY <1>3, <2>1, LeadsTail
  <2>3. PICK R : Leads(t, m, k, R) /\ Q = Ink(x, l) \cup R
    BY <1>3, <1>5, <2>2
  <2>4. rotation' = rotation
    BY <1>3, <2>2
  <2>5. Leads(t, m, k, R)'
    BY <2>3, <2>4, SameInk
  <2>6. PICK c : c = call
    OBVIOUS
  <2>7. PictureOf(c)' = PictureOf(c)
    BY <2>4, SamePicture
  <2>8. PictureOf(call)' = PictureOf(call)
    BY <2>6, <2>7
  <2>9. Partly(R)'
    <3>1. Canvas' = Canvas /\ Glass' = Glass
      BY <2>4, SameScreen
    <3>2. Wet(x, l) \cap Canvas = Ink(x, l) \cap Glass
      BY WetIs
    <3>3. (drawn' \cap Canvas) \cup (R \cap Glass) = (drawn \cap Canvas) \cup (Q \cap Glass)
      BY <1>6, <2>3, <3>2
    <3>4. QED BY <2>1, <2>8, <3>1, <3>3 DEF Partly
  <2>10. Leads(todo, Here, k, R)'
    BY <1>6, <2>5
  <2>11. ~Undrawn'
    BY <1>9 DEF Undrawn
  <2>12. QED BY <1>6, <1>7, <2>9, <2>10, <2>11 DEF Underway
<1>10. QED BY <1>8, <1>9

(* A call is given the steps that paint its picture.                       *)
LEMMA CallDraws ==
  ASSUME PictureInv, NEW c \in Calls, Fitting(c), Calling(c) PROVE Here' \in Panels /\ Underway'
<1>1. /\ todo = <<>> /\ call' = c /\ todo' = Steps(c) /\ drawn' = {}
      /\ rotation' = rotation /\ Here' = Here
  BY DEF Calling, cache, Here
<1>2. rotation \in 0 .. 7 /\ c \in SketchCalls /\ Here \in Panels
  BY CallsAssumption DEF PictureInv, BusInv, TypeOK
<1>3. CASE c.op = "setRotation"
  <2>1. c.m \in Nat
    BY <1>2, <1>3 DEF SketchCalls
  <2>2. Steps(c) = <<Begin, Madctl(c.m), End, Forget>>
    BY <1>3 DEF Steps
  <2>3. NoPixels(Steps(c))
    BY <2>1, <2>2, TurnIs DEF NoPixels
  <2>4. Undrawn' /\ drawn' = {} /\ NoPixels(todo')
    BY <1>1, <1>3, <2>3 DEF Undrawn
  <2>5. QED BY <1>1, <1>2, <2>4 DEF Underway
<1>4. CASE c.op # "setRotation"
  <2>1. PICK s, l, P : s = Steps(c) /\ l = Here /\ P = PictureOf(c)
    OBVIOUS
  <2>2. Takes(s, Panels, Panels, P)
    BY <1>2, <1>4, <2>1, CallPaints DEF Paints
  <2>3. PICK k \in Panels : Leads(s, l, k, P)
    BY <1>2, <2>1, <2>2 DEF Takes
  <2>4. Leads(s, l, k, P)'
    BY <1>1, <2>3, SameInk
  <2>5. PictureOf(c)' = P
    BY <1>1, <2>1, SamePicture
  <2>6. todo' = s /\ Here' = l /\ call' = c /\ drawn' = {}
    BY <1>1, <2>1
  <2>7. Leads(todo, Here, k, P)'
    BY <2>4, <2>6
  <2>8. PictureOf(call)' = P
    BY <2>5, <2>6
  <2>9. Partly(P)'
    BY <2>6, <2>8 DEF Partly
  <2>10. c.op # "init"
    BY <1>2 DEF SketchCalls
  <2>11. ~Undrawn'
    BY <1>4, <2>6, <2>10 DEF Undrawn
  <2>12. QED BY <1>1, <1>2, <2>7, <2>9, <2>11 DEF Underway
<1>5. QED BY <1>3, <1>4

(* Where nothing that is drawn with changes, the picture stays.            *)
LEMMA PictureStays ==
  ASSUME PictureInv, UNCHANGED <<rotation, addr_col, addr_row, lcd, todo, call, drawn>>
  PROVE  Here' \in Panels /\ Underway'
<1>1. /\ rotation' = rotation /\ Here' = Here /\ todo' = todo /\ call' = call /\ drawn' = drawn
      /\ Here \in Panels /\ Underway
  BY DEF PictureInv, Here
<1>2. CASE Undrawn
  <2>1. Undrawn' /\ drawn = {} /\ NoPixels(todo)
    BY <1>1, <1>2 DEF Undrawn, Underway
  <2>2. drawn' = {} /\ NoPixels(todo')
    BY <1>1, <2>1
  <2>3. QED BY <1>1, <2>1, <2>2 DEF Underway
<1>3. CASE ~Undrawn
  <2>1. PICK s, l, c : s = todo /\ l = Here /\ c = call
    OBVIOUS
  <2>2. PICK k, Q : Leads(s, l, k, Q) /\ Partly(Q)
    BY <1>1, <1>3, <2>1 DEF Underway
  <2>3. Leads(s, l, k, Q)' /\ PictureOf(c)' = PictureOf(c)
    BY <1>1, <2>2, SameInk, SamePicture
  <2>4. todo' = s /\ Here' = l /\ call' = c
    BY <1>1, <2>1
  <2>5. Leads(todo, Here, k, Q)' /\ PictureOf(call)' = PictureOf(call)
    BY <2>3, <2>4
  <2>6. Partly(Q)'
    <3>1. Canvas' = Canvas /\ Glass' = Glass
      BY <1>1, SameScreen
    <3>2. QED BY <1>1, <2>2, <2>5, <3>1 DEF Partly
  <2>7. ~Undrawn'
    BY <1>1, <1>3 DEF Undrawn
  <2>8. QED BY <1>1, <2>5, <2>6, <2>7 DEF Underway
<1>4. QED BY <1>2, <1>3

(* Every step does to the controller, and to what the driver remembers of  *)
(* it, what Turned says, and writes what Wet says.                         *)
LEMMA StepTurns ==
  ASSUME Step
  PROVE  /\ todo # <<>> /\ todo' = Tail(todo) /\ call' = call
         /\ Here' = Turned(step, Here) /\ drawn' = drawn \cup Wet(step, Here)
         /\ step.op # "madctl" => rotation' = rotation
<1> DEFINE Goal == /\ todo # <<>> /\ todo' = Tail(todo) /\ call' = call
                   /\ Here' = Turned(step, Here) /\ drawn' = drawn \cup Wet(step, Here)
                   /\ step.op # "madctl" => rotation' = rotation
<1>0. Here.lcd = lcd /\ Here.col = addr_col /\ Here.row = addr_row
  BY DEF Here, Panel
<1>1. ASSUME todo # <<>>, todo' = Tail(todo),
             UNCHANGED <<call, rotation, lcd, addr_col, addr_row, drawn>>,
             step.op \in {"begin", "end", "enter", "leave"}
      PROVE  Goal
  <2>1. Here' = Here
    BY <1>1 DEF Here
  <2>2. Turned(step, Here) = Here
    BY <1>1 DEF Turned
  <2>3. Wet(step, Here) = {}
    BY <1>1 DEF Wet
  <2>4. QED BY <1>1, <2>1, <2>2, <2>3
<1>2. CASE BeginTransaction
  BY <1>1, <1>2 DEF BeginTransaction, Doing, step, cache, history
<1>3. CASE EndTransaction
  BY <1>1, <1>3 DEF EndTransaction, Doing, step, cache, history
<1>4. CASE EnterTransaction
  BY <1>1, <1>4 DEF EnterTransaction, Doing, step, cache, history
<1>5. CASE LeaveTransaction
  BY <1>1, <1>5 DEF LeaveTransaction, Doing, step, cache, history
<1>6. CASE setAddrWindow
  <2>1. /\ todo # <<>> /\ step.op = "window" /\ todo' = Tail(todo) /\ call' = call /\ rotation' = rotation
        /\ lcd' = [cols |-> Halves(step.x0, step.x1), rows |-> Halves(step.y0, step.y1), next |-> 0]
        /\ addr_col' = Unknown /\ addr_row' = Unknown /\ drawn' = drawn
    BY <1>6 DEF setAddrWindow, Doing, step, Forgets
  <2>2. Here' = Turned(step, Here)
    BY <2>1 DEF Here, Turned, Panel
  <2>3. Wet(step, Here) = {}
    BY <2>1 DEF Wet
  <2>4. QED BY <2>1, <2>2, <2>3
<1>7. CASE drawPixel
  <2>1. /\ todo # <<>> /\ step.op = "dot" /\ todo' = Tail(todo) /\ call' = call /\ rotation' = rotation
        /\ addr_col' = step.x /\ addr_row' = step.y
    BY <1>7 DEF drawPixel, Doing, step
  <2>2. PICK l : l = Placed(Here, step.x, step.y)
    OBVIOUS
  <2>3. l = [cols |-> IF addr_col # step.x THEN <<step.x, step.x>> ELSE lcd.cols,
             rows |-> IF addr_row # step.y THEN <<step.y, step.y>> ELSE lcd.rows, next |-> 0]
    BY <1>0, <2>2 DEF Placed
  <2>4. lcd' = [l EXCEPT !.next = 1] /\ drawn' = drawn \cup Written(l, 1)
    BY <1>7, <2>3, Zenon DEF drawPixel
  <2>5. Here' = Turned(step, Here)
    <3>1. Turned(step, Here) = Panel([l EXCEPT !.next = 1], step.x, step.y)
      BY <2>1, <2>2 DEF Turned
    <3>2. QED BY <2>1, <2>4, <3>1 DEF Here
  <2>6. Wet(step, Here) = Written(l, 1)
    BY <2>1, <2>2 DEF Wet
  <2>7. QED BY <2>1, <2>4, <2>5, <2>6
<1>8. CASE PushPixels
  <2>1. /\ todo # <<>> /\ step.op = "words" /\ todo' = Tail(todo) /\ call' = call /\ rotation' = rotation
        /\ addr_col' = addr_col /\ addr_row' = addr_row /\ drawn' = drawn \cup Written(lcd, step.n)
    BY <1>8 DEF PushPixels, Doing, step, cache
  <2>2. lcd' = Pushed(lcd, step.n)
    BY <1>8, Zenon DEF PushPixels, Pushed
  <2>3. Here' = Turned(step, Here)
    BY <1>0, <2>1, <2>2 DEF Here, Turned
  <2>4. Wet(step, Here) = Written(lcd, step.n)
    BY <1>0, <2>1 DEF Wet
  <2>5. QED BY <2>1, <2>3, <2>4
<1>9. CASE SetMadctl
  <2>1. /\ todo # <<>> /\ step.op = "madctl" /\ todo' = Tail(todo) /\ call' = call
        /\ addr_col' = addr_col /\ addr_row' = addr_row /\ lcd' = lcd /\ drawn' = drawn
    BY <1>9 DEF SetMadctl, Doing, step, cache
  <2>2. Here' = Turned(step, Here)
    BY <2>1 DEF Here, Turned
  <2>3. Wet(step, Here) = {}
    BY <2>1 DEF Wet
  <2>4. QED BY <2>1, <2>2, <2>3
<1>10. CASE ForgetWindow
  <2>1. /\ todo # <<>> /\ step.op = "forget" /\ todo' = Tail(todo) /\ call' = call /\ rotation' = rotation
        /\ addr_col' = Unknown /\ addr_row' = Unknown /\ lcd' = lcd /\ drawn' = drawn
    BY <1>10 DEF ForgetWindow, Doing, step, history, Forgets
  <2>2. Here' = Turned(step, Here)
    BY <1>0, <2>1 DEF Here, Turned
  <2>3. Wet(step, Here) = {}
    BY <2>1 DEF Wet
  <2>4. QED BY <2>1, <2>2, <2>3
<1>11. QED BY <1>2, <1>3, <1>4, <1>5, <1>6, <1>7, <1>8, <1>9, <1>10 DEF Step

(* For every size of the screen and whatever the sketch calls, as long as  *)
(* the parts of the picture fit together: when a call returns, it has      *)
(* drawn its picture where the driver takes the screen to be, as far as    *)
(* the glass goes, and but for rotation 5 nothing else on the glass.       *)
THEOREM PicturesDrawn ==
  ASSUME \A c \in Calls : Fitting(c) PROVE Spec => []Drawn
<1>1. PictureInv /\ [Next]_vars => PictureInv'
  <2> SUFFICES ASSUME PictureInv, [Next]_vars PROVE PictureInv'
    OBVIOUS
  <2>1. BusInv'
    <3>1. BusInv
      BY DEF PictureInv
    <3>2. QED BY <3>1, BusKept
  <2>2. Here' \in Panels /\ Underway'
    <3>1. ASSUME NEW c \in Calls, Calling(c) PROVE Here' \in Panels /\ Underway'
      BY <3>1, CallDraws
    <3>2. CASE Step
      BY <3>2, StepTurns, StepDraws
    <3>3. CASE SdTakes \/ SdGives \/ UNCHANGED vars
      <4>1. UNCHANGED <<rotation, addr_col, addr_row, lcd, todo, call, drawn>>
        BY <3>3 DEF SdTakes, SdGives, vars, cache, history
      <4>2. QED BY <4>1, PictureStays
    <3>4. QED BY <3>1, <3>2, <3>3 DEF Next
  <2>3. QED BY <2>1, <2>2 DEF PictureInv
<1>2. QED BY UnderwayInit, UnderwaySays, <1>1, PTL DEF Spec
=============================================================================
