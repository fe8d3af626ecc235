---------------------------- MODULE HttpParsing ----------------------------
(***************************************************************************)
(* What web/Parsing.cpp makes of a request's texts: the arguments of a     *)
(* query or of an encoded form, and the file in a part of a multipart      *)
(* form.  A text is the sequence of its character codes.                   *)
(***************************************************************************)
EXTENDS Integers, Sequences
LOCAL INSTANCE FiniteSetsExt

Ampersand == 38
EqualSign == 61
PercentSign == 37
PlusSign == 43
Blank == 32
CR == 13
LF == 10
Dash == 45

(* strtol() of "0x" and these two characters                               *)
Digit(c) ==
  CASE c \in 48 .. 57 -> c - 48
    [] c \in 65 .. 70 -> c - 55
    [] c \in 97 .. 102 -> c - 87
    [] OTHER -> -1
Hex(high, low) ==
  CASE Digit(high) = -1 -> 0
    [] Digit(high) /= -1 /\ Digit(low) = -1 -> Digit(high)
    [] OTHER -> 16 * Digit(high) + Digit(low)

(* urlDecode(): i is the index of the next character, from 0               *)
ThreeLeft(i, len) == i + 2 < len              \* defect: an escape at the end is not one
TwoLeft(i, len) == i + 1 < len

urlDecode(text) ==
  LET len == Len(text)
      from[i \in 0 .. len] ==
        IF i = len THEN <<>>
        ELSE IF text[i + 1] = PercentSign /\ TwoLeft(i + 1, len)
        THEN <<Hex(text[i + 2], text[i + 3])>> \o from[i + 3]
        ELSE <<IF text[i + 1] = PlusSign THEN Blank ELSE text[i + 1]>> \o from[i + 1]
  IN from[0]

(* indexOf(): from pos on, -1 when there is none; the positions of the     *)
(* code count from 0                                                       *)
indexOf(text, c, pos) ==
  LET at == {i \in pos .. Len(text) - 1 : text[i + 1] = c} IN
  IF at = {} THEN -1 ELSE CHOOSE i \in at : \A j \in at : i <= j
(* substring(): an end of -1 is past every text                            *)
substring(text, from, to) == SubSeq(text, from + 1, IF to = -1 THEN Len(text) ELSE to)

(* _parseArguments(): the loop goes on from pos to pos, and a part without *)
(* an equal sign of its own is passed over                                 *)
FirstEqual(equal, next) == equal = -1         \* defect: the equal sign of a later part is taken
NoValue(equal, next) == equal = -1 \/ (equal > next /\ next /= -1)

_parseArguments(text) ==
  LET from[pos \in 0 .. Len(text)] ==
        LET equal == indexOf(text, EqualSign, pos)
            next == indexOf(text, Ampersand, pos)
            rest == IF next = -1 THEN <<>> ELSE from[next + 1]
        IN IF NoValue(equal, next) THEN rest
           ELSE <<[key |-> substring(text, pos, equal),
                   value |-> urlDecode(substring(text, equal + 1, next))]>> \o rest
  IN from[0]

(* The body of an encoded form is decoded as a whole before that and goes, *)
(* up to its first NUL, behind the query.                                  *)
UpToNul(text) ==
  LET nuls == {i \in DOMAIN text : text[i] = 0} IN
  IF nuls = {} THEN text ELSE SubSeq(text, 1, (CHOOSE i \in nuls : \A j \in nuls : i <= j) - 1)
EncodedForm(query, body) ==
  _parseArguments((IF query = <<>> THEN <<>> ELSE query \o <<Ampersand>>)
                  \o UpToNul(urlDecode(body)))

(* The file of _parseForm(): the bytes up to CR LF "--" and the boundary.  *)
(* The connection stands while the first held bytes are asked for; the     *)
(* peer pauses after byte pause for longer than readBytes() waits; what    *)
(* that leaves of endBuf as it was, and what stands behind endBuf, is      *)
(* memory.  A byte that never comes is waited for while the connection     *)
(* stands; once it does not the upload is aborted.                         *)
Delimiter == <<CR, LF, Dash, Dash>>
Waiting == <<-1>>
Aborted == <<-2>>
Kept(bytes, rest) == IF rest \in {Waiting, Aborted} THEN rest ELSE bytes \o rest
LosesDash(k) == SubSeq(Delimiter, 1, IF k = 3 THEN 2 ELSE k)  \* defect: a lone dash is not written
PutBack(k) == SubSeq(Delimiter, 1, k)

(* strstr() of the boundary in endBuf, which no NUL ends                   *)
Found(endBuf, behind, boundary) ==
  LET text == UpToNul(endBuf \o behind) IN
  \E i \in 1 .. Len(text) - Len(boundary) + 1 : SubSeq(text, i, i + Len(boundary) - 1) = boundary

(* from[i] is "readfile" with byte i in hand                               *)
_parseFormFile(stream, boundary, held, pause, memory) ==
  LET n == Len(boundary)
      had(i) == i <= Len(stream) /\ i <= held
      fails(i) == IF i <= held THEN Waiting ELSE Aborted
      isCR(i) == i <= Len(stream) /\ stream[i] = CR
      goesOn(i, k) == had(i + k) /\ stream[i + k] = Delimiter[k + 1]
      (* the last byte that readBytes() gets when it begins with byte i    *)
      last(i) == Min({i + n - 1, Len(stream)} \cup {p \in {pause} : p >= i - 1})
      endBuf(i) == [k \in 1 .. n |-> IF i + k - 1 <= last(i) THEN stream[i + k - 1] ELSE memory[k]]
      from[i \in 1 .. Len(stream) + 1] ==
        CASE ~isCR(i) /\ ~had(i) -> fails(i)
          [] ~isCR(i) /\ had(i) -> Kept(<<stream[i]>>, from[i + 1])
          [] isCR(i) /\ \E k \in 1 .. 3 : ~goesOn(i, k) ->
               LET k == CHOOSE k \in 1 .. 3 : ~goesOn(i, k) /\ \A j \in 1 .. k - 1 : goesOn(i, j)
               IN IF had(i + k) THEN Kept(PutBack(k), from[i + k]) ELSE fails(i + k)
          [] isCR(i) /\ \A k \in 1 .. 3 : goesOn(i, k) ->
               IF Found(endBuf(i + 4), SubSeq(memory, n + 1, Len(memory)), boundary)
               THEN <<>>
               ELSE Kept(Delimiter \o endBuf(i + 4), from[last(i + 4) + 1])
  IN from[1]
=============================================================================
