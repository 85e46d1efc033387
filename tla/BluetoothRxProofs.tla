-------------------------- MODULE BluetoothRxProofs --------------------------
(***************************************************************************)
(* Theorems about BluetoothRx: what the search for words makes of a stream   *)
(* without delimiters, for every queue, every buffer that holds the tokens,  *)
(* every sequence of words and every loss.                                   *)
(***************************************************************************)
EXTENDS BluetoothRx, TLAPS

(* Where the bytes come from *)

\* The last letters of the tokens, and the letters before a last one.
Final == {"P", "N", "T", "C"}
Mid   == {"U", "W", "F", "G", "H"}

\* A byte's origin: the token it belongs to, by number, and its place there; "D"
\* lies beyond the token it was sent after, and noise nowhere.
Nowhere == 0
Beyond  == 6
Origin  == [n : Nat, p : Nowhere..Beyond]

InToken(l) == l.p \in 1..5

\* The bytes in the air are the end of the last token asked for.
Coming ==
    /\ air # <<>> /\ asked # <<>>
    /\ LET w == asked[Len(asked)]
       IN  /\ Len(air) <= Len(w)
           /\ \A i \in 1..Len(air) : ToUpper(air[i]) = w[Len(w) - Len(air) + i]

\* What is in the air is the end of a token, or "D".
AirIsWord == air = <<>> \/ Coming \/ (Len(air) = 1 /\ ToUpper(air[1]) = "D")

\* l is the origin of a byte c of the queue ...
IsOrigin(l, c) ==
    /\ l.n \in 0..Len(asked)
    /\ l.p = Nowhere => ~Allowed(c)
    /\ l.p # Nowhere => Allowed(c)
    /\ l.p = Beyond  => ToUpper(c) = "D"
    /\ InToken(l)    => l.n > 0 /\ l.p <= Len(asked[l.n]) /\ ToUpper(c) = asked[l.n][l.p]

\* ... and h that of the last byte of the buffer.
IsHeard(h) ==
    /\ h.n \in 0..Len(asked) /\ h.p # Nowhere
    /\ h.p = Beyond => rolling = <<>> \/ rolling[Len(rolling)] = "D"
    /\ InToken(h)   => /\ h.n > 0 /\ h.p <= Len(asked[h.n]) /\ rolling # <<>>
                       /\ rolling[Len(rolling)] = asked[h.n][h.p]

\* The bytes come in the order of sending.
Precedes(k, l) == k.n < l.n \/ (k.n = l.n /\ (InToken(l) => k.p < l.p))

\* Of the token in the air only what has arrived is in the queue or the buffer.
BeforeAir(l) == Coming /\ l.n = Len(asked) => l.p <= Len(asked[l.n]) - Len(air)

Origins(o, h) ==
    /\ o \in Seq(Origin) /\ Len(o) = Len(msgq) /\ h \in Origin
    /\ AirIsWord
    /\ \A i \in 1..Len(msgq) : IsOrigin(o[i], msgq[i])
    /\ IsHeard(h)
    /\ \A i, j \in 1..Len(msgq) : i < j => Precedes(o[i], o[j])
    /\ \A i \in 1..Len(msgq) : Precedes(h, o[i]) /\ BeforeAir(o[i])
    /\ BeforeAir(h)

\* No byte of token n has been lost, nor will the rest of it be missed.
Through(n) == ~dropped \/ (n = Len(asked) /\ ~cut)

Behind(n, p, h) == n < h.n \/ (n = h.n /\ p <= h.p)

\* Every byte of a token that came through is behind, in the queue or in the air,
\* and the buffer ends with what has been heard of it.
Whole(o, h) ==
    /\ \A n \in 1..Len(asked) : Through(n) =>
         \A p \in 1..Len(asked[n]) :
            \/ Behind(n, p, h)
            \/ \E i \in 1..Len(msgq) : o[i].n = n /\ o[i].p = p
            \/ Coming /\ n = Len(asked) /\ p > Len(asked[n]) - Len(air)
    /\ InToken(h) /\ Through(h.n) =>
         /\ h.p <= Len(rolling)
         /\ \A i \in 1..h.p : rolling[Len(rolling) - h.p + i] = asked[h.n][i]

\* The number of tokens heard to the end.
Done(h) == IF h.n = 0 \/ h.p >= Len(asked[h.n]) THEN h.n ELSE h.n - 1

\* Tokens heard to the end have been executed, once each as long as none is lost.
Obeyed(h) ==
    /\ ~dropped => executed = [i \in 1..Done(h) |-> Parse(asked[i])]
    /\ ~cut /\ asked # <<>> /\ h.n = Len(asked) /\ h.p >= Len(asked[h.n])
         => executed # <<>> /\ executed[Len(executed)] = Parse(asked[h.n])

\* from tells which token each command executes; the next command will execute a
\* later one.
Explains(from, o, h) ==
    /\ from \in [1..Len(executed) -> 1..Len(asked)]
    /\ \A i \in 1..Len(executed) :
         /\ executed[i] = Parse(asked[from[i]])
         /\ \A j \in 1..Len(executed) : i < j => from[i] < from[j]
         /\ \A j \in 1..Len(msgq) : InToken(o[j]) => from[i] < o[j].n
         /\ InToken(h) /\ asked[h.n][h.p] \notin Final => from[i] < h.n
         /\ Coming => from[i] < Len(asked)
-----------------------------------------------------------------------------
(* The vocabulary *)

LEMMA LettersAre ==
    Letter = {"C", "D", "E", "F", "G", "H", "I", "L", "N", "O", "P", "R", "T", "U", "W"}
BY DEF Letter, Capital

LEMMA UpperIsLetter ==
    ASSUME NEW c
    PROVE  /\ Allowed(c) => ToUpper(c) \in Letter
           /\ ToUpper(c) \in Letter => Allowed(c)
BY DEF Allowed, ToUpper, Byte, Letter

LEMMA TokenLetters ==
    ASSUME NEW t \in Token
    PROVE  /\ t \in Seq(Letter) /\ Len(t) \in 1..5
           /\ \A i \in 1..Len(t) : t[i] \in Letter
<1>1. CASE t = <<"U", "P">>
    BY <1>1, LettersAre
<1>2. CASE t = <<"D", "W", "N">>
    BY <1>2, LettersAre
<1>3. CASE t = <<"D", "O", "W", "N">>
    BY <1>3, LettersAre
<1>4. CASE t = <<"L", "F", "T">>
    BY <1>4, LettersAre
<1>5. CASE t = <<"L", "E", "F", "T">>
    BY <1>5, LettersAre
<1>6. CASE t = <<"R", "G", "T">>
    BY <1>6, LettersAre
<1>7. CASE t = <<"R", "I", "G", "H", "T">>
    BY <1>7, LettersAre
<1>8. CASE t = <<"C">>
    BY <1>8, LettersAre
<1>. QED BY <1>1, <1>2, <1>3, <1>4, <1>5, <1>6, <1>7, <1>8 DEF Token

\* A last letter occurs nowhere else, and the letter before it tells the command.
LEMMA TokenEnds ==
    ASSUME NEW t \in Token
    PROVE  /\ t[Len(t)] \in Final
           /\ \A i \in 1..Len(t) : t[i] \in Final => i = Len(t)
           /\ Len(t) > 1 => t[Len(t) - 1] \in Mid
           /\ Len(t) = 1 => t = <<"C">>
           /\ \A i \in 1..Len(t) : t[i] = "C" => t = <<"C">>
<1>. USE DEF Final, Mid
<1>1. CASE t = <<"U", "P">>
    BY <1>1
<1>2. CASE t = <<"D", "W", "N">>
    BY <1>2
<1>3. CASE t = <<"D", "O", "W", "N">>
    BY <1>3
<1>4. CASE t = <<"L", "F", "T">>
    BY <1>4
<1>5. CASE t = <<"L", "E", "F", "T">>
    BY <1>5
<1>6. CASE t = <<"R", "G", "T">>
    BY <1>6
<1>7. CASE t = <<"R", "I", "G", "H", "T">>
    BY <1>7
<1>8. CASE t = <<"C">>
    BY <1>8
<1>. QED BY <1>1, <1>2, <1>3, <1>4, <1>5, <1>6, <1>7, <1>8 DEF Token

\* The command a letter of Mid stands for.
Meaning(c) ==
    CASE c = "U" -> Command("MOTION", 1000, 0)
      [] c = "W" -> Command("MOTION", -1000, 0)
      [] c = "F" -> Command("MOTION", 0, 1000)
      [] c \in {"G", "H"} -> Command("MOTION", 0, -1000)

LEMMA MidTellsCommand ==
    ASSUME NEW t \in Token, NEW i \in 1..Len(t), t[i] \in Mid
    PROVE  Parse(t) = Meaning(t[i])
<1>. USE DEF Mid, Parse, Meaning
<1>1. CASE t = <<"U", "P">>
    BY <1>1
<1>2. CASE t = <<"D", "W", "N">>
    BY <1>2
<1>3. CASE t = <<"D", "O", "W", "N">>
    BY <1>3
<1>4. CASE t = <<"L", "F", "T">>
    BY <1>4
<1>5. CASE t = <<"L", "E", "F", "T">>
    BY <1>5
<1>6. CASE t = <<"R", "G", "T">>
    BY <1>6
<1>7. CASE t = <<"R", "I", "G", "H", "T">>
    BY <1>7
<1>8. CASE t = <<"C">>
    BY <1>8
<1>. QED BY <1>1, <1>2, <1>3, <1>4, <1>5, <1>6, <1>7, <1>8 DEF Token

\* To end in t is to have its letters last.
LEMMA SuffixMeans ==
    ASSUME NEW S, NEW t \in Seq(S), NEW b \in Seq(S)
    PROVE  IsSuffix(t, b) <=> /\ Len(t) <= Len(b)
                              /\ \A i \in 1..Len(t) : t[i] = b[Len(b) - Len(t) + i]
<1>. DEFINE rt == Reverse(t)  rb == Reverse(b)
<1>1. /\ Len(t) \in Nat /\ Len(b) \in Nat
      /\ rt = [i \in 1..Len(t) |-> t[Len(t) - i + 1]]
      /\ rb = [i \in 1..Len(b) |-> b[Len(b) - i + 1]]
    BY DEF Reverse
<1>2. rt \in Seq(S) /\ rb \in Seq(S) /\ Len(rt) = Len(t) /\ Len(rb) = Len(b)
    BY <1>1
<1>3. IsSuffix(t, b) <=> Len(rt) <= Len(rb) /\ SubSeq(rt, 1, Len(rt)) = SubSeq(rb, 1, Len(rt))
    BY DEF IsSuffix, IsPrefix
<1>. HIDE DEF rt, rb
<1>4. ASSUME Len(t) <= Len(b)
      PROVE  SubSeq(rt, 1, Len(rt)) = SubSeq(rb, 1, Len(rt))
               <=> \A i \in 1..Len(t) : rt[i] = rb[i]
    <2>. DEFINE n == Len(t)  pt == SubSeq(rt, 1, n)  pb == SubSeq(rb, 1, n)
    <2>1. n \in Nat /\ n = Len(rt) /\ n <= Len(rb)
        BY <1>1, <1>2, <1>4
    <2>. HIDE DEF n
    <2>2. /\ pt \in Seq(S) /\ Len(pt) = n /\ \A i \in 1..n : pt[i] = rt[i]
          /\ pb \in Seq(S) /\ Len(pb) = n /\ \A i \in 1..n : pb[i] = rb[i]
        BY <1>2, <2>1
    <2>. HIDE DEF pt, pb
    <2>3. pt = pb <=> \A i \in 1..n : pt[i] = pb[i]
        BY <2>2
    <2>4. pt = pb <=> \A i \in 1..n : rt[i] = rb[i]
        BY <2>2, <2>3
    <2>. QED BY <1>2, <2>4 DEF n, pt, pb
<1>5. ASSUME Len(t) <= Len(b)
      PROVE  (\A i \in 1..Len(t) : rt[i] = rb[i])
               <=> \A i \in 1..Len(t) : t[i] = b[Len(b) - Len(t) + i]
    <2>1. ASSUME \A i \in 1..Len(t) : rt[i] = rb[i], NEW i \in 1..Len(t)
          PROVE  t[i] = b[Len(b) - Len(t) + i]
        <3>. DEFINE j == Len(t) - i + 1
        <3>1. j \in 1..Len(t) /\ j \in 1..Len(b) /\ Len(t) - j + 1 = i
              /\ Len(b) - j + 1 = Len(b) - Len(t) + i
            BY <1>1, <1>5
        <3>. HIDE DEF j
        <3>2. rt[j] = t[Len(t) - j + 1] /\ rb[j] = b[Len(b) - j + 1]
            BY <1>1, <3>1
        <3>. QED BY <2>1, <3>1, <3>2
    <2>2. ASSUME \A i \in 1..Len(t) : t[i] = b[Len(b) - Len(t) + i], NEW i \in 1..Len(t)
          PROVE  rt[i] = rb[i]
        <3>. DEFINE j == Len(t) - i + 1
        <3>1. j \in 1..Len(t) /\ i \in 1..Len(b)
              /\ Len(b) - i + 1 = Len(b) - Len(t) + j
            BY <1>1, <1>5
        <3>. HIDE DEF j
        <3>2. rt[i] = t[Len(t) - i + 1] /\ rb[i] = b[Len(b) - i + 1]
            BY <1>1, <3>1
        <3>3. t[j] = b[Len(b) - Len(t) + j]
            BY <2>2, <3>1
        <3>. QED BY <3>1, <3>2, <3>3 DEF j
    <2>. QED BY <2>1, <2>2
<1>. QED BY <1>2, <1>3, <1>4, <1>5

\* The token with these last three letters, as far as it has them.
Ending(last, before, third) ==
    CASE last = "P" -> <<"U", "P">>
      [] last = "C" -> <<"C">>
      [] last = "N" /\ third = "D" -> <<"D", "W", "N">>
      [] last = "N" /\ third = "O" -> <<"D", "O", "W", "N">>
      [] last = "T" /\ before = "F" /\ third = "L" -> <<"L", "F", "T">>
      [] last = "T" /\ before = "F" /\ third = "E" -> <<"L", "E", "F", "T">>
      [] last = "T" /\ before = "G" -> <<"R", "G", "T">>
      [] last = "T" /\ before = "H" -> <<"R", "I", "G", "H", "T">>

LEMMA EndingTellsToken ==
    ASSUME NEW t \in Token
    PROVE  /\ t = Ending(t[Len(t)], t[Len(t) - 1], t[Len(t) - 2])
           /\ t[Len(t)] \in {"P", "C"} \/ Len(t) > 2
           /\ t[Len(t)] = "P" => t = <<"U", "P">>
           /\ t[Len(t)] = "C" => t = <<"C">>
<1>. USE DEF Ending
<1>1. CASE t = <<"U", "P">>
    BY <1>1
<1>2. CASE t = <<"D", "W", "N">>
    BY <1>2
<1>3. CASE t = <<"D", "O", "W", "N">>
    BY <1>3
<1>4. CASE t = <<"L", "F", "T">>
    BY <1>4
<1>5. CASE t = <<"L", "E", "F", "T">>
    BY <1>5
<1>6. CASE t = <<"R", "G", "T">>
    BY <1>6
<1>7. CASE t = <<"R", "I", "G", "H", "T">>
    BY <1>7
<1>8. CASE t = <<"C">>
    BY <1>8
<1>. QED BY <1>1, <1>2, <1>3, <1>4, <1>5, <1>6, <1>7, <1>8 DEF Token

\* No token ends in another one: at most one is ever detected.
LEMMA NoTokenHidesAnother ==
    ASSUME NEW s \in Token, NEW t \in Token, NEW b \in Seq(Letter),
           IsSuffix(s, b), IsSuffix(t, b)
    PROVE  s = t
<1>. SUFFICES ASSUME NEW x \in Token, NEW y \in Token, IsSuffix(x, b), IsSuffix(y, b),
                     Len(x) <= Len(y)
              PROVE  x = y
    BY TokenLetters
<1>0. /\ x \in Seq(Letter) /\ y \in Seq(Letter) /\ Len(b) \in Nat
      /\ Len(x) \in 1..5 /\ Len(y) \in 1..5
    BY TokenLetters
<1>1. /\ Len(y) <= Len(b)
      /\ \A i \in 1..Len(x) : x[i] = b[Len(b) - Len(x) + i]
      /\ \A i \in 1..Len(y) : y[i] = b[Len(b) - Len(y) + i]
    BY <1>0, SuffixMeans
<1>2. ASSUME NEW i \in 1..Len(x)
      PROVE  x[i] = y[Len(y) - Len(x) + i]
    <2>. DEFINE k == Len(y) - Len(x) + i
    <2>1. k \in 1..Len(y) /\ Len(b) - Len(y) + k = Len(b) - Len(x) + i
        BY <1>0
    <2>. HIDE DEF k
    <2>2. y[k] = b[Len(b) - Len(y) + k] /\ x[i] = b[Len(b) - Len(x) + i]
        BY <1>1, <2>1
    <2>3. y[k] = x[i]
        BY <2>1, <2>2
    <2>. QED BY <2>3 DEF k
<1>3. x[Len(x)] = y[Len(y)]
    <2>. DEFINE m == Len(x)  n == Len(y)
    <2>0. m \in 1..5 /\ n \in 1..5
        BY <1>0
    <2>. HIDE DEF m, n
    <2>1. m \in 1..m /\ n - m + m = n
        BY <2>0
    <2>2. x[m] = y[n - m + m]
        BY <1>2, <2>1 DEF m, n
    <2>. QED BY <2>1, <2>2 DEF m, n
<1>4. Len(x) > 1 => x[Len(x) - 1] = y[Len(y) - 1]
    BY <1>0, <1>2
<1>5. Len(x) > 2 => x[Len(x) - 2] = y[Len(y) - 2]
    BY <1>0, <1>2
<1>6. CASE x[Len(x)] \in {"P", "C"}
    BY <1>3, <1>6, EndingTellsToken
<1>7. CASE Len(x) > 2
    BY <1>3, <1>4, <1>5, <1>7, EndingTellsToken
<1>. QED BY <1>6, <1>7, EndingTellsToken
-----------------------------------------------------------------------------
(* The buffer, and the types *)

\* What is asked of the remote control's words.
LEMMA WordShape ==
    ASSUME NEW word \in Words
    PROVE  /\ word \in Seq(Byte) /\ Capitals(word) \in Seq(Letter)
           /\ Len(Capitals(word)) = Len(word) /\ Len(word) \in 1..5
           /\ \A i \in 1..Len(word) : Capitals(word)[i] = ToUpper(word[i])
           /\ \A i \in 1..Len(word) : Allowed(word[i])
           /\ Capitals(word) \in Token \/ Capitals(word) = <<"D">>
<1>1. word \in Seq(Byte) /\ (Capitals(word) \in Token \/ Capitals(word) = <<"D">>)
    BY WordAssumption
<1>2. Capitals(word) = [i \in 1..Len(word) |-> ToUpper(word[i])] /\ Len(word) \in Nat
    BY <1>1 DEF Capitals
<1>3. \A i \in 1..Len(word) : word[i] \in Byte
    BY <1>1
<1>4. \A i \in 1..Len(word) : ToUpper(word[i]) \in Letter
    BY <1>3, UpperIsLetter DEF Allowed
<1>5. Capitals(word) \in Seq(Letter) /\ Len(Capitals(word)) = Len(word)
    BY <1>2, <1>4
<1>6. Len(Capitals(word)) \in 1..5
    BY <1>1, TokenLetters
<1>. QED BY <1>1, <1>2, <1>3, <1>5, <1>6 DEF Allowed

LEMMA Sizes ==
    /\ BufSize \in Nat /\ BufSize > 5 /\ QueueSize \in Nat \ {0}
    /\ MaxWords \in Nat /\ MaxNoise \in Nat
<1>1. <<"R", "I", "G", "H", "T">> \in Token
    BY DEF Token
<1>2. Len(<<"R", "I", "G", "H", "T">>) < BufSize
    BY <1>1, SizeAssumption
<1>. QED BY <1>2, SizeAssumption

\* b ends with what the buffer ended with, as far as it reaches, and a letter c.
Shifted(buf, c, b) ==
    /\ b \in Seq(Letter) /\ Len(b) < BufSize /\ Len(b) > 0
    /\ Len(b) = Len(buf) + 1 \/ (Len(b) = Len(buf) /\ Len(b) = BufSize - 1)
    /\ b[Len(b)] = c
    /\ \A j \in 1..(Len(b) - 1) : b[Len(b) - j] = buf[Len(buf) - j + 1]

LEMMA ShiftAppends ==
    ASSUME NEW buf \in Seq(Letter), Len(buf) < BufSize, NEW c \in Letter
    PROVE  Shifted(buf, c, ShiftAppendChar(buf, c))
<1>. DEFINE b == ShiftAppendChar(buf, c)
<1>. SUFFICES Shifted(buf, c, b)
    OBVIOUS
<1>1. BufSize \in Nat /\ Len(buf) \in Nat /\ BufSize > 5
    BY Sizes
<1>2. CASE Len(buf) >= BufSize - 1
    <2>. DEFINE n == Len(buf)  tl == Tail(buf)
    <2>1. n = BufSize - 1 /\ n > 0 /\ n \in Nat /\ buf # <<>>
        BY <1>1, <1>2
    <2>2. tl \in Seq(Letter) /\ Len(tl) = n - 1 /\ \A i \in 1..(n - 1) : tl[i] = buf[i + 1]
        BY <2>1
    <2>3. b = Append(tl, c)
        BY <1>2 DEF ShiftAppendChar
    <2>. HIDE DEF tl, b
    <2>4. b \in Seq(Letter) /\ Len(b) = n /\ b[n] = c /\ \A i \in 1..(n - 1) : b[i] = tl[i]
        BY <2>1, <2>2, <2>3
    <2>5. ASSUME NEW j \in 1..(n - 1) PROVE b[n - j] = buf[n - j + 1]
        BY <2>1, <2>2, <2>4, <2>5
    <2>. QED BY <1>1, <2>1, <2>4, <2>5 DEF Shifted
<1>3. CASE Len(buf) < BufSize - 1
    <2>1. b = Append(buf, c)
        BY <1>1, <1>3 DEF ShiftAppendChar
    <2>. HIDE DEF b
    <2>2. b \in Seq(Letter) /\ Len(b) = Len(buf) + 1 /\ b[Len(b)] = c
          /\ \A i \in 1..Len(buf) : b[i] = buf[i]
        BY <2>1
    <2>3. ASSUME NEW j \in 1..(Len(b) - 1) PROVE b[Len(b) - j] = buf[Len(buf) - j + 1]
        BY <1>1, <2>2, <2>3
    <2>. QED BY <1>1, <1>3, <2>2, <2>3 DEF Shifted
<1>. QED BY <1>1, <1>2, <1>3

\* What the worker thread does with a byte it takes.
LEMMA WorkEffect ==
    ASSUME TypeOK, Work
    PROVE  LET c   == Head(msgq)
               buf == ShiftAppendChar(rolling, ToUpper(c))
           IN  /\ Len(msgq) > 0 /\ c = msgq[1] /\ msgq' = Tail(msgq)
               /\ UNCHANGED <<air, asked, words, noise, dropped, cut>>
               /\ ~Allowed(c) => UNCHANGED <<rolling, executed>>
               /\ Allowed(c) =>
                    /\ rolling' = buf
                    /\ \/ UNCHANGED executed /\ \A t \in Token : ~IsSuffix(t, buf)
                       \/ \E t \in Token : /\ IsSuffix(t, buf)
                                           /\ executed' = Append(executed, Parse(t))
<1>1. Len(msgq) > 0 /\ Head(msgq) = msgq[1]
    BY DEF Work, TypeOK
<1>. QED BY <1>1 DEF Work, Detected

LEMMA BtTypeInit == Init => TypeOK
<1>. SUFFICES ASSUME Init PROVE TypeOK
    OBVIOUS
<1>1. \A S : <<>> \in Seq(S)
    OBVIOUS
<1>2. Len(<<>>) = 0
    OBVIOUS
<1>3. 0 \in 0..MaxWords /\ 0 \in 0..MaxNoise /\ 0 <= QueueSize /\ 0 < BufSize
    BY Sizes
<1>. QED BY <1>1, <1>2, <1>3, Zenon DEF Init, TypeOK

LEMMA BtTypeNext == TypeOK /\ [Next]_vars => TypeOK'
<1>. SUFFICES ASSUME TypeOK, [Next]_vars PROVE TypeOK'
    OBVIOUS
<1>1. ASSUME NEW w \in Words, Send(w) PROVE TypeOK'
    <2>1. words' \in 0..MaxWords
        <3>1. words' = words + 1 /\ words < MaxWords
            BY <1>1 DEF Send
        <3>2. words \in 0..MaxWords
            BY DEF TypeOK
        <3>. QED BY <3>1, <3>2, Sizes
    <2>2. asked' \in Seq(Token) /\ cut' \in BOOLEAN /\ (cut' => dropped')
        <3>1. asked \in Seq(Token) /\ cut \in BOOLEAN /\ (cut => dropped) /\ dropped' = dropped
            BY <1>1 DEF Send, TypeOK
        <3>2. CASE Capitals(w) \in Token
            <4>1. asked' = Append(asked, Capitals(w)) /\ cut' = FALSE
                BY <1>1, <3>2 DEF Send
            <4>2. asked' \in Seq(Token)
                BY <3>1, <3>2, <4>1
            <4>3. cut' \in BOOLEAN /\ (cut' => dropped')
                BY <4>1
            <4>. QED BY <4>2, <4>3
        <3>3. CASE Capitals(w) \notin Token
            <4>1. asked' = asked /\ cut' = cut
                BY <1>1, <3>3 DEF Send
            <4>. QED BY <3>1, <4>1
        <3>. QED BY <3>2, <3>3
    <2>. QED BY <1>1, <2>1, <2>2, WordShape DEF Send, TypeOK
<1>2. ASSUME NEW c \in Byte \cup Noise, Put(c)
      PROVE  msgq' \in Seq(Byte \cup Noise) /\ Len(msgq') <= QueueSize
    BY <1>2, Sizes DEF Put, TypeOK
<1>3. CASE Receive
    <2>1. Head(air) \in Byte /\ Tail(air) \in Seq(Byte)
        BY <1>3 DEF Receive, TypeOK
    <2>2. msgq' \in Seq(Byte \cup Noise) /\ Len(msgq') <= QueueSize
        BY <1>2, <1>3, <2>1 DEF Receive
    <2>3. dropped' \in BOOLEAN /\ cut' \in BOOLEAN /\ (cut' => dropped')
        BY <1>3 DEF Receive, TypeOK
    <2>. QED BY <1>3, <2>1, <2>2, <2>3 DEF Receive, TypeOK
<1>4. ASSUME NEW c \in Noise, ReceiveNoise(c) PROVE TypeOK'
    <2>1. msgq' \in Seq(Byte \cup Noise) /\ Len(msgq') <= QueueSize
        BY <1>2, <1>4 DEF ReceiveNoise
    <2>2. noise' \in 0..MaxNoise
        BY <1>4, Sizes DEF ReceiveNoise, TypeOK
    <2>. QED BY <1>4, <2>1, <2>2 DEF ReceiveNoise, TypeOK
<1>5. CASE Work
    <2>. DEFINE c == Head(msgq)  buf == ShiftAppendChar(rolling, ToUpper(c))
    <2>1. msgq' \in Seq(Byte \cup Noise) /\ Len(msgq') <= QueueSize
        <3>1. msgq \in Seq(Byte \cup Noise) /\ msgq # <<>> /\ msgq' = Tail(msgq)
            BY <1>5 DEF Work, TypeOK
        <3>. QED BY <3>1, Sizes DEF TypeOK
    <2>2. rolling' \in Seq(Letter) /\ Len(rolling') < BufSize
        <3>1. CASE Allowed(c)
            <4>1. rolling' = buf
                BY <1>5, <3>1, WorkEffect
            <4>2. Shifted(rolling, ToUpper(c), buf)
                BY <3>1, UpperIsLetter, ShiftAppends DEF TypeOK
            <4>. HIDE DEF buf, c
            <4>. QED BY <4>1, <4>2 DEF Shifted
        <3>2. CASE ~Allowed(c)
            BY <1>5, <3>2 DEF Work, TypeOK
        <3>. QED BY <3>1, <3>2
    <2>3. executed' \in Seq({Parse(t) : t \in Token})
        <3>1. CASE UNCHANGED executed
            BY <3>1 DEF TypeOK
        <3>2. CASE \E t \in Token : executed' = Append(executed, Parse(t))
            <4>1. PICK t \in Token : executed' = Append(executed, Parse(t))
                BY <3>2
            <4>2. Parse(t) \in {Parse(u) : u \in Token}
                OBVIOUS
            <4>. QED BY <4>1, <4>2 DEF TypeOK
        <3>. QED BY <1>5, <3>1, <3>2, WorkEffect
    <2>. QED BY <1>5, <2>1, <2>2, <2>3, WorkEffect DEF TypeOK
<1>6. CASE UNCHANGED vars
    BY <1>6 DEF vars, TypeOK
<1>. QED BY <1>1, <1>3, <1>4, <1>5, <1>6 DEF Next

\* Whatever is sent, lost and executed, the queue and the buffer keep within their
\* bounds and hold what may be in them.
THEOREM BtTypeCorrect == Spec => []TypeOK
BY BtTypeInit, BtTypeNext, PTL DEF Spec
-----------------------------------------------------------------------------
(* Sending *)

\* The types of what the labels are about.
LEMMA Shapes ==
    ASSUME TypeOK
    PROVE  /\ Len(air) \in Nat /\ Len(msgq) \in Nat /\ Len(rolling) \in Nat
           /\ Len(asked) \in Nat /\ Len(executed) \in Nat
           /\ asked \in Seq(Token)
           /\ \A n \in 1..Len(asked) :
                /\ asked[n] \in Token /\ asked[n] \in Seq(Letter) /\ Len(asked[n]) \in 1..5
                /\ asked[n][Len(asked[n])] \in Final
           /\ air = <<>> <=> Len(air) = 0
           /\ asked = <<>> <=> Len(asked) = 0
<1>1. /\ air \in Seq(Byte) /\ msgq \in Seq(Byte \cup Noise) /\ rolling \in Seq(Letter)
      /\ asked \in Seq(Token) /\ executed \in Seq({Parse(t) : t \in Token})
    BY DEF TypeOK
<1>2. \A n \in 1..Len(asked) : asked[n] \in Token
    BY <1>1
<1>. QED BY <1>1, <1>2, TokenLetters, TokenEnds

\* A label of the queue or of the buffer.
Label(l) == l \in Origin /\ l.n \in 0..Len(asked)

LEMMA LabelsTyped ==
    ASSUME TypeOK, NEW o, NEW h, Origins(o, h)
    PROVE  /\ Label(h) /\ \A i \in 1..Len(msgq) : Label(o[i])
           /\ h.n \in Nat /\ h.p \in 0..6
           /\ \A i \in 1..Len(msgq) : o[i].n \in Nat /\ o[i].p \in 0..6
<1>1. o \in Seq(Origin) /\ Len(o) = Len(msgq) /\ h \in Origin
    BY DEF Origins
<1>2. \A i \in 1..Len(msgq) : o[i] \in Origin
    BY <1>1
<1>3. \A i \in 1..Len(msgq) : IsOrigin(o[i], msgq[i])
    BY DEF Origins
<1>4. \A i \in 1..Len(msgq) : o[i].n \in 0..Len(asked)
    BY <1>3 DEF IsOrigin
<1>5. h.n \in 0..Len(asked)
    BY DEF Origins, IsHeard
<1>6. \A l \in Origin : l.n \in Nat /\ l.p \in 0..6
    BY DEF Origin, Nowhere, Beyond
<1>. QED BY <1>1, <1>2, <1>4, <1>5, <1>6 DEF Label

\* A new word: the air held nothing; the labels stay right.
LEMMA TokenSent ==
    ASSUME TypeOK, NEW w \in Words, Send(w), Capitals(w) \in Token
    PROVE  /\ ~Coming /\ Coming'
           /\ Len(asked') = Len(asked) + 1 /\ Len(asked) \in Nat
           /\ \A n \in 1..Len(asked) : asked'[n] = asked[n]
           /\ asked'[Len(asked')] = Capitals(w) /\ Len(air') = Len(Capitals(w))
           /\ cut' = FALSE /\ UNCHANGED <<msgq, rolling, executed, dropped>>
<1>. DEFINE W == Capitals(w)
<1>1. /\ air = <<>> /\ air' = w /\ asked' = Append(asked, W) /\ cut' = FALSE
      /\ UNCHANGED <<msgq, rolling, executed, dropped>>
    BY DEF Send
<1>2. /\ W \in Token /\ Len(W) = Len(w) /\ Len(w) \in 1..5
      /\ \A i \in 1..Len(w) : W[i] = ToUpper(w[i])
    BY WordShape
<1>. HIDE DEF W
<1>3. /\ Len(asked') = Len(asked) + 1 /\ Len(asked) \in Nat
      /\ \A n \in 1..Len(asked) : asked'[n] = asked[n]
      /\ asked'[Len(asked')] = W
    BY <1>1, <1>2, Shapes
<1>4. Coming'
    <2>1. air' # <<>> /\ asked' # <<>>
        BY <1>1, <1>2, <1>3
    <2>2. Len(air') = Len(W) /\ Len(W) \in Nat
        BY <1>1, <1>2
    <2>3. \A i \in 1..Len(air') : ToUpper(air'[i]) = W[Len(W) - Len(air') + i]
        BY <1>1, <1>2
    <2>. QED BY <2>1, <2>2, <2>3, <1>3 DEF Coming
<1>. QED BY <1>1, <1>2, <1>3, <1>4 DEF Coming, W

LEMMA OtherSent ==
    ASSUME TypeOK, NEW w \in Words, Send(w), Capitals(w) \notin Token
    PROVE  /\ ~Coming /\ ~Coming' /\ Len(air') = 1 /\ ToUpper(air'[1]) = "D"
           /\ UNCHANGED <<asked, msgq, rolling, executed, dropped, cut>>
<1>1. /\ air = <<>> /\ air' = w
      /\ UNCHANGED <<asked, msgq, rolling, executed, dropped, cut>>
    BY DEF Send
<1>2. Len(w) = 1 /\ ToUpper(w[1]) = "D"
    BY WordShape
<1>3. ~Coming'
    <2>1. SUFFICES ASSUME Coming' PROVE FALSE
        OBVIOUS
    <2>. DEFINE t == asked[Len(asked)]
    <2>2. Len(asked) # 0 /\ t[Len(t)] \in Final /\ Len(t) \in 1..5
        BY <2>1, <1>1, Shapes DEF Coming
    <2>3. \A i \in 1..Len(w) : ToUpper(w[i]) = t[Len(t) - Len(w) + i]
        BY <2>1, <1>1 DEF Coming
    <2>. HIDE DEF t
    <2>4. ToUpper(w[1]) = t[Len(t)]
        BY <2>2, <2>3, <1>2
    <2>. QED BY <2>2, <2>4, <1>2 DEF Final
<1>. QED BY <1>1, <1>2, <1>3 DEF Coming

LEMMA OriginsSend ==
    ASSUME TypeOK, NEW w \in Words, Send(w), NEW o, NEW h, Origins(o, h)
    PROVE  Origins(o, h)'
<1>0. /\ o \in Seq(Origin) /\ Len(o) = Len(msgq) /\ h \in Origin /\ IsHeard(h)
      /\ \A i \in 1..Len(msgq) : IsOrigin(o[i], msgq[i]) /\ Label(o[i])
      /\ \A i, j \in 1..Len(msgq) : i < j => Precedes(o[i], o[j])
      /\ \A i \in 1..Len(msgq) : Precedes(h, o[i]) /\ BeforeAir(o[i])
      /\ BeforeAir(h) /\ Label(h)
    BY LabelsTyped DEF Origins
<1>1. /\ msgq' = msgq /\ rolling' = rolling
      /\ Len(asked') \in Nat /\ Len(asked) \in Nat /\ Len(asked) <= Len(asked')
      /\ \A n \in 1..Len(asked) : asked'[n] = asked[n]
      /\ Coming' \/ (Len(air') = 1 /\ ToUpper(air'[1]) = "D")
      /\ Coming' => Len(asked') = Len(asked) + 1
    <2>1. CASE Capitals(w) \in Token
        <3>1. Coming' /\ Len(asked) \in Nat /\ Len(asked') = Len(asked) + 1
            BY <2>1, TokenSent
        <3>2. \A n \in 1..Len(asked) : asked'[n] = asked[n]
            BY <2>1, TokenSent
        <3>3. msgq' = msgq /\ rolling' = rolling
            BY <2>1, TokenSent
        <3>. QED BY <3>1, <3>2, <3>3
    <2>2. CASE Capitals(w) \notin Token
        <3>1. asked' = asked /\ ~Coming' /\ Len(air') = 1 /\ ToUpper(air'[1]) = "D"
            BY <2>2, OtherSent
        <3>2. msgq' = msgq /\ rolling' = rolling /\ Len(asked) \in Nat
            BY <2>2, OtherSent, Shapes
        <3>. QED BY <3>1, <3>2
    <2>. QED BY <2>1, <2>2
<1>2. AirIsWord'
    BY <1>1 DEF AirIsWord
<1>3. ASSUME NEW l, Label(l) PROVE BeforeAir(l)'
    BY <1>1, <1>3 DEF BeforeAir, Label
<1>4. IsHeard(h)'
    <2>1. h.n \in 0..Len(asked) /\ h.n \in 0..Len(asked')
        BY <1>1, <1>0 DEF Label
    <2>2. h.n > 0 => asked'[h.n] = asked[h.n]
        BY <1>1, <2>1
    <2>. QED BY <1>0, <1>1, <2>1, <2>2 DEF IsHeard, InToken
<1>5. ASSUME NEW i \in 1..Len(msgq') PROVE IsOrigin(o[i], msgq[i])'
    <2>1. Label(o[i]) /\ IsOrigin(o[i], msgq[i]) /\ msgq'[i] = msgq[i]
        BY <1>0, <1>1
    <2>2. o[i].n \in 0..Len(asked) /\ o[i].n \in 0..Len(asked')
        BY <1>1, <2>1 DEF Label
    <2>3. o[i].n > 0 => asked'[o[i].n] = asked[o[i].n]
        BY <1>1, <2>2
    <2>. QED BY <2>1, <2>2, <2>3 DEF IsOrigin, Allowed, InToken
<1>6. \A i \in 1..Len(msgq') : Precedes(h, o[i])' /\ BeforeAir(o[i])'
    BY <1>0, <1>1, <1>3 DEF Precedes, InToken
<1>7. \A i, j \in 1..Len(msgq') : i < j => Precedes(o[i], o[j])'
    BY <1>0, <1>1 DEF Precedes, InToken
<1>8. BeforeAir(h)' /\ Len(o) = Len(msgq')
    BY <1>0, <1>1, <1>3
<1>. QED BY <1>0, <1>2, <1>4, <1>5, <1>6, <1>7, <1>8 DEF Origins

LEMMA WholeSend ==
    ASSUME TypeOK, NEW w \in Words, Send(w), NEW o, NEW h, Origins(o, h), Whole(o, h)
    PROVE  Whole(o, h)'
<1>0. /\ \A n \in 1..Len(asked) : Through(n) =>
           \A p \in 1..Len(asked[n]) :
              \/ Behind(n, p, h)
              \/ \E i \in 1..Len(msgq) : o[i].n = n /\ o[i].p = p
              \/ Coming /\ n = Len(asked) /\ p > Len(asked[n]) - Len(air)
      /\ InToken(h) /\ Through(h.n) =>
           /\ h.p <= Len(rolling)
           /\ \A i \in 1..h.p : rolling[Len(rolling) - h.p + i] = asked[h.n][i]
      /\ h.n \in 0..Len(asked) /\ (InToken(h) => h.n > 0)
    BY DEF Whole, Origins, IsHeard
<1>1. CASE Capitals(w) \in Token
    <2>. DEFINE N == Len(asked)
    <2>1. /\ ~Coming /\ Coming' /\ N \in Nat /\ Len(asked') = N + 1
          /\ \A n \in 1..N : asked'[n] = asked[n]
          /\ Len(air') = Len(asked'[Len(asked')]) /\ Len(air') \in Nat
        <3>1. ~Coming /\ Coming' /\ N \in Nat /\ Len(asked') = N + 1
            BY <1>1, TokenSent
        <3>2. \A n \in 1..N : asked'[n] = asked[n]
            BY <1>1, TokenSent
        <3>3. asked'[Len(asked')] = Capitals(w) /\ Len(air') = Len(Capitals(w))
            BY <1>1, TokenSent
        <3>4. Len(Capitals(w)) \in Nat
            BY <1>1, TokenLetters
        <3>. QED BY <3>1, <3>2, <3>3, <3>4
    <2>2. msgq' = msgq /\ rolling' = rolling /\ dropped' = dropped
        BY <1>1, TokenSent
    <2>3. ASSUME NEW n \in 1..N PROVE Through(n)' <=> ~dropped
        BY <2>1, <2>2, <2>3 DEF Through
    <2>. HIDE DEF N
    <2>4. ASSUME NEW n \in 1..Len(asked'), Through(n)', NEW p \in 1..Len(asked'[n])
          PROVE  \/ Behind(n, p, h)
                 \/ \E i \in 1..Len(msgq') : o[i].n = n /\ o[i].p = p
                 \/ Coming' /\ n = Len(asked') /\ p > Len(asked'[n]) - Len(air')
        <3>1. CASE n = N + 1
            BY <2>1, <2>4, <3>1
        <3>2. CASE n \in 1..N
            <4>1. Through(n) /\ asked'[n] = asked[n]
                BY <2>1, <2>3, <2>4, <3>2 DEF Through
            <4>. QED BY <1>0, <2>1, <2>2, <2>4, <3>2, <4>1 DEF N
        <3>. QED BY <2>1, <3>1, <3>2
    <2>5. ASSUME InToken(h), Through(h.n)'
          PROVE  /\ h.p <= Len(rolling')
                 /\ \A i \in 1..h.p : rolling'[Len(rolling') - h.p + i] = asked'[h.n][i]
        <3>1. h.n \in 1..N
            BY <1>0, <2>1, <2>5 DEF N
        <3>2. Through(h.n) /\ asked'[h.n] = asked[h.n]
            BY <2>1, <2>3, <2>5, <3>1 DEF Through
        <3>. QED BY <1>0, <2>2, <2>5, <3>2
    <2>. QED BY <2>4, <2>5 DEF Whole, Behind, InToken
<1>2. CASE Capitals(w) \notin Token
    <2>1. /\ ~Coming /\ ~Coming' /\ asked' = asked /\ msgq' = msgq /\ rolling' = rolling
          /\ cut' = cut /\ dropped' = dropped
        BY <1>2, OtherSent
    <2>2. \A n : Through(n)' <=> Through(n)
        BY <2>1 DEF Through
    <2>. QED BY <1>0, <2>1, <2>2 DEF Whole, Behind, InToken
<1>. QED BY <1>1, <1>2

LEMMA ObeyedSend ==
    ASSUME TypeOK, NEW w \in Words, Send(w), NEW o, NEW h, Origins(o, h), Obeyed(h)
    PROVE  Obeyed(h)'
<1>0. h.n \in 0..Len(asked) /\ h.p \in 0..6
    BY LabelsTyped DEF Label
<1>1. CASE Capitals(w) \in Token
    <2>1. /\ Len(asked) \in Nat /\ Len(asked') = Len(asked) + 1
          /\ \A n \in 1..Len(asked) : asked'[n] = asked[n]
        BY <1>1, TokenSent
    <2>2. executed' = executed /\ dropped' = dropped
        BY <1>1, TokenSent
    <2>3. Done(h)' = Done(h) /\ Done(h) \in 0..Len(asked)
        <3>1. CASE h.n = 0
            BY <3>1, <2>1 DEF Done
        <3>2. CASE h.n > 0
            <4>1. asked'[h.n] = asked[h.n] /\ h.n \in 1..Len(asked)
                BY <1>0, <2>1, <3>2
            <4>. QED BY <2>1, <4>1 DEF Done
        <3>. QED BY <1>0, <3>1, <3>2
    <2>4. [i \in 1..Done(h)' |-> Parse(asked'[i])] = [i \in 1..Done(h) |-> Parse(asked[i])]
        <3>1. \A i \in 1..Done(h) : asked'[i] = asked[i]
            BY <2>1, <2>3
        <3>. QED BY <2>3, <3>1, Zenon
    <2>5. h.n # Len(asked')
        BY <1>0, <2>1
    <2>6. ~dropped => executed = [i \in 1..Done(h) |-> Parse(asked[i])]
        BY DEF Obeyed
    <2>7. ~dropped' => executed' = [i \in 1..Done(h)' |-> Parse(asked'[i])]
        BY <2>2, <2>4, <2>6
    <2>. QED BY <2>5, <2>7 DEF Obeyed, Done
<1>2. CASE Capitals(w) \notin Token
    <2>1. asked' = asked /\ executed' = executed /\ cut' = cut /\ dropped' = dropped
        BY <1>2, OtherSent
    <2>. QED BY <2>1 DEF Obeyed, Done
<1>. QED BY <1>1, <1>2

LEMMA ExplainsSend ==
    ASSUME TypeOK, NEW w \in Words, Send(w), NEW o, NEW h, Origins(o, h),
           NEW from, Explains(from, o, h)
    PROVE  Explains(from, o, h)'
<1>0. h.n \in 0..Len(asked) /\ (InToken(h) => h.n > 0)
    BY DEF Origins, IsHeard
<1>1. /\ from \in [1..Len(executed) -> 1..Len(asked)]
      /\ \A i \in 1..Len(executed) :
           /\ from[i] \in 1..Len(asked)
           /\ executed[i] = Parse(asked[from[i]])
           /\ \A j \in 1..Len(executed) : i < j => from[i] < from[j]
           /\ \A j \in 1..Len(msgq) : InToken(o[j]) => from[i] < o[j].n
           /\ InToken(h) /\ asked[h.n][h.p] \notin Final => from[i] < h.n
    BY DEF Explains
<1>2. CASE Capitals(w) \in Token
    <2>1. /\ Len(asked) \in Nat /\ Len(asked') = Len(asked) + 1
          /\ \A n \in 1..Len(asked) : asked'[n] = asked[n]
        BY <1>2, TokenSent
    <2>2. executed' = executed /\ msgq' = msgq
        BY <1>2, TokenSent
    <2>3. from \in [1..Len(executed') -> 1..Len(asked')]
        BY <1>1, <2>1, <2>2
    <2>4. ASSUME NEW i \in 1..Len(executed')
          PROVE  /\ executed'[i] = Parse(asked'[from[i]])
                 /\ \A j \in 1..Len(executed') : i < j => from[i] < from[j]
                 /\ \A j \in 1..Len(msgq') : InToken(o[j]) => from[i] < o[j].n
                 /\ InToken(h) /\ asked'[h.n][h.p] \notin Final => from[i] < h.n
                 /\ from[i] < Len(asked')
        <3>1. from[i] \in 1..Len(asked) /\ asked'[from[i]] = asked[from[i]]
            BY <1>1, <2>1, <2>2
        <3>2. InToken(h) => asked'[h.n] = asked[h.n]
            BY <1>0, <2>1
        <3>. QED BY <1>1, <2>1, <2>2, <3>1, <3>2
    <2>. QED BY <2>3, <2>4 DEF Explains, InToken
<1>3. CASE Capitals(w) \notin Token
    <2>1. asked' = asked /\ executed' = executed /\ msgq' = msgq /\ ~Coming'
        BY <1>3, OtherSent
    <2>. QED BY <1>1, <2>1 DEF Explains, InToken
<1>. QED BY <1>2, <1>3

-----------------------------------------------------------------------------
(* Receiving *)

\* The origin of the next byte of the air ...
Next1 ==
    IF Coming THEN [n |-> Len(asked), p |-> Len(asked[Len(asked)]) - Len(air) + 1]
    ELSE [n |-> Len(asked), p |-> Beyond]

\* ... and the labels of the queue when a byte from l has been put.
Labelled(o, l) == IF Len(msgq) < QueueSize THEN Append(o, l) ELSE o

LEMMA PutKeeps ==
    ASSUME TypeOK, NEW c, Put(c), NEW o \in Seq(Origin), NEW l \in Origin,
           Len(o) = Len(msgq), NEW q, q = Labelled(o, l)
    PROVE  /\ q \in Seq(Origin) /\ Len(q) = Len(msgq') /\ Len(msgq') \in Nat
           /\ Len(msgq) \in Nat
           /\ \A i \in 1..Len(msgq) : i \in 1..Len(msgq') /\ q[i] = o[i] /\ msgq'[i] = msgq[i]
           /\ \/ /\ Len(msgq) # QueueSize /\ Len(msgq') = Len(msgq) + 1
                 /\ q[Len(msgq) + 1] = l /\ msgq'[Len(msgq) + 1] = c
              \/ Len(msgq) = QueueSize /\ msgq' = msgq /\ q = o
<1>1. /\ Len(msgq) \in Nat /\ Len(msgq) <= QueueSize /\ QueueSize \in Nat
      /\ msgq \in Seq(Byte \cup Noise)
    BY Shapes, Sizes DEF TypeOK
<1>2. CASE Len(msgq) < QueueSize
    <2>1. msgq' = Append(msgq, c) /\ q = Append(o, l)
        BY <1>2 DEF Put, Labelled
    <2>. QED BY <1>1, <1>2, <2>1
<1>3. CASE ~(Len(msgq) < QueueSize)
    <2>1. msgq' = msgq /\ q = o /\ Len(msgq) = QueueSize
        BY <1>1, <1>3 DEF Put, Labelled
    <2>. QED BY <1>1, <2>1
<1>. QED BY <1>2, <1>3

\* A byte put behind the others, if its origin comes after theirs.
LEMMA OriginsPut ==
    ASSUME TypeOK, NEW c, Put(c), NEW o, NEW h, Origins(o, h), NEW l \in Origin,
           UNCHANGED <<asked, rolling>>, AirIsWord',
           IsOrigin(l, c), BeforeAir(l)',
           \A k : Label(k) /\ BeforeAir(k) => Precedes(k, l) /\ BeforeAir(k)',
           NEW q, q = Labelled(o, l)
    PROVE  Origins(q, h)'
<1>. DEFINE m == Len(msgq)
<1>0. /\ o \in Seq(Origin) /\ Len(o) = m /\ h \in Origin /\ IsHeard(h)
      /\ \A i \in 1..m : IsOrigin(o[i], msgq[i])
      /\ \A i, j \in 1..m : i < j => Precedes(o[i], o[j])
      /\ \A i \in 1..m : Precedes(h, o[i]) /\ BeforeAir(o[i])
      /\ BeforeAir(h)
    BY DEF Origins
<1>1. Label(h) /\ \A i \in 1..m : Label(o[i])
    BY LabelsTyped
<1>2. /\ q \in Seq(Origin) /\ Len(q) = Len(msgq') /\ Len(msgq') \in Nat /\ m \in Nat
      /\ \A i \in 1..m : i \in 1..Len(msgq') /\ q[i] = o[i] /\ msgq'[i] = msgq[i]
      /\ \/ /\ Len(msgq') = m + 1 /\ q[m + 1] = l /\ msgq'[m + 1] = c
         \/ Len(msgq') = m
    <2>1. /\ q \in Seq(Origin) /\ Len(q) = Len(msgq') /\ Len(msgq') \in Nat
          /\ Len(msgq) \in Nat
          /\ \A i \in 1..Len(msgq) : i \in 1..Len(msgq') /\ q[i] = o[i] /\ msgq'[i] = msgq[i]
        BY <1>0, PutKeeps
    <2>2. \/ /\ Len(msgq) # QueueSize /\ Len(msgq') = Len(msgq) + 1
             /\ q[Len(msgq) + 1] = l /\ msgq'[Len(msgq) + 1] = c
          \/ Len(msgq) = QueueSize /\ msgq' = msgq /\ q = o
        BY <1>0, PutKeeps
    <2>. QED BY <2>1, <2>2
<1>. HIDE DEF m
<1>3. ASSUME NEW i \in 1..Len(msgq')
      PROVE  i \in 1..m \/ (i = m + 1 /\ q[i] = l /\ msgq'[i] = c)
    BY <1>2, <1>3
<1>4. ASSUME NEW i \in 1..Len(msgq') PROVE IsOrigin(q[i], msgq'[i])
    <2>1. CASE i \in 1..m
        BY <1>0, <1>2, <2>1
    <2>2. CASE i = m + 1 /\ q[i] = l /\ msgq'[i] = c
        BY <2>2
    <2>. QED BY <1>3, <2>1, <2>2
<1>5. ASSUME NEW i \in 1..Len(msgq') PROVE IsOrigin(q[i], msgq[i])'
    BY <1>4 DEF IsOrigin, Allowed, InToken
<1>6. IsHeard(h)' /\ BeforeAir(h)'
    <2>1. IsHeard(h)'
        BY <1>0 DEF IsHeard, InToken
    <2>. QED BY <2>1, <1>0, <1>1
<1>7. ASSUME NEW i \in 1..Len(msgq') PROVE Precedes(h, q[i]) /\ BeforeAir(q[i])'
    <2>1. CASE i \in 1..m
        <3>1. q[i] = o[i] /\ Precedes(h, o[i]) /\ BeforeAir(o[i]) /\ Label(o[i])
            BY <1>0, <1>1, <1>2, <2>1
        <3>2. BeforeAir(o[i])'
            BY <3>1
        <3>. QED BY <3>1, <3>2 DEF BeforeAir
    <2>2. CASE i = m + 1 /\ q[i] = l /\ msgq'[i] = c
        BY <1>0, <1>1, <2>2 DEF BeforeAir
    <2>. QED BY <1>3, <2>1, <2>2
<1>8. ASSUME NEW i \in 1..Len(msgq'), NEW j \in 1..Len(msgq'), i < j
      PROVE  Precedes(q[i], q[j])
    <2>1. i \in 1..m
        BY <1>2, <1>3, <1>8
    <2>2. q[i] = o[i] /\ Label(o[i]) /\ BeforeAir(o[i])
        BY <1>0, <1>1, <1>2, <2>1
    <2>3. CASE j \in 1..m
        BY <1>0, <1>2, <1>8, <2>1, <2>3
    <2>4. CASE j = m + 1 /\ q[j] = l /\ msgq'[j] = c
        BY <2>2, <2>4
    <2>. QED BY <1>3, <2>3, <2>4
<1>9. \A i \in 1..Len(msgq') : Precedes(h, q[i])' /\ BeforeAir(q[i])'
    BY <1>7 DEF Precedes, InToken
<1>10. \A i, j \in 1..Len(msgq') : i < j => Precedes(q[i], q[j])'
    BY <1>8 DEF Precedes, InToken
<1>. QED BY <1>0, <1>2, <1>5, <1>6, <1>9, <1>10 DEF Origins

\* What the origin of the next byte is worth.
LEMMA NextOrigin ==
    ASSUME TypeOK, AirIsWord, Receive
    PROVE  /\ Next1 \in Origin /\ Next1.n = Len(asked)
           /\ IsOrigin(Next1, Head(air))
           /\ Coming  => /\ Next1.p = Len(asked[Len(asked)]) - Len(air) + 1
                         /\ InToken(Next1)
           /\ ~Coming => ~InToken(Next1) /\ air' = <<>>
           /\ Len(air') = Len(air) - 1 /\ Len(air) > 0
           /\ Coming' <=> Coming /\ Len(air) > 1
           /\ UNCHANGED <<asked, rolling, executed>> /\ Put(Head(air))
           /\ AirIsWord'
<1>. DEFINE N == Len(asked)  w == asked[Len(asked)]  a == Len(air)
<1>0. air \in Seq(Byte) /\ a \in Nat /\ N \in Nat
    BY Shapes DEF TypeOK
<1>1. /\ air # <<>> /\ a > 0 /\ air' = Tail(air) /\ asked' = asked
      /\ UNCHANGED <<rolling, executed>> /\ Put(Head(air))
    BY <1>0 DEF Receive
<1>2. /\ Head(air) = air[1] /\ Allowed(air[1]) /\ Len(air') = a - 1
      /\ \A i \in 1..(a - 1) : air'[i] = air[i + 1]
      /\ (air' = <<>> <=> a = 1)
    <2>1. Head(air) = air[1] /\ air[1] \in Byte
        BY <1>0, <1>1
    <2>2. Len(Tail(air)) = a - 1 /\ \A i \in 1..(a - 1) : Tail(air)[i] = air[i + 1]
        BY <1>0, <1>1
    <2>3. Tail(air) = <<>> <=> a = 1
        <3>1. Tail(air) \in Seq(Byte)
            BY <1>0, <1>1
        <3>2. \A s \in Seq(Byte) : s = <<>> <=> Len(s) = 0
            OBVIOUS
        <3>. HIDE DEF a
        <3>. QED BY <1>0, <2>2, <3>1, <3>2
    <2>. QED BY <1>1, <2>1, <2>2, <2>3 DEF Allowed
<1>3. CASE Coming
    <2>1. /\ N > 0 /\ Len(w) \in 1..5 /\ a <= Len(w)
          /\ \A i \in 1..a : ToUpper(air[i]) = w[Len(w) - a + i]
        BY <1>0, <1>3, Shapes DEF Coming
    <2>2. Next1 = [n |-> N, p |-> Len(w) - a + 1]
        BY <1>3 DEF Next1
    <2>. DEFINE p == Len(w) - a + 1
    <2>3. p \in 1..5 /\ p <= Len(w) /\ ToUpper(air[1]) = w[p]
        <3>. DEFINE L == Len(w)
        <3>1. L \in 1..5 /\ a <= L /\ a > 0 /\ a \in Nat
            BY <1>0, <1>1, <2>1
        <3>2. 1 \in 1..a
            BY <3>1
        <3>3. ToUpper(air[1]) = w[L - a + 1]
            BY <2>1, <3>2
        <3>. HIDE DEF L, a
        <3>4. L - a + 1 \in 1..5 /\ L - a + 1 <= L
            BY <3>1
        <3>. QED BY <3>3, <3>4 DEF L
    <2>4. Coming' <=> a > 1
        <3>1. ASSUME a > 1 PROVE Coming'
            <4>1. \A i \in 1..(a - 1) : ToUpper(air'[i]) = w[Len(w) - a + (i + 1)]
                <5>1. ASSUME NEW i \in 1..(a - 1) PROVE ToUpper(air'[i]) = w[Len(w) - a + (i + 1)]
                    <6>1. i + 1 \in 1..a
                        BY <1>0, <5>1
                    <6>2. air'[i] = air[i + 1]
                        BY <1>2
                    <6>3. ToUpper(air[i + 1]) = w[Len(w) - a + (i + 1)]
                        BY <2>1, <6>1
                    <6>. QED BY <6>2, <6>3
                <5>. QED BY <5>1
            <4>2. \A i \in 1..Len(air') : ToUpper(air'[i]) = w[Len(w) - Len(air') + i]
                BY <1>0, <1>2, <2>1, <4>1
            <4>3. air' # <<>> /\ asked' # <<>> /\ Len(air') <= Len(w)
                BY <1>0, <1>1, <1>2, <1>3, <2>1, <3>1 DEF Coming
            <4>. QED BY <1>1, <4>2, <4>3 DEF Coming
        <3>2. ASSUME Coming' PROVE a > 1
            BY <1>0, <1>1, <1>2, <3>2 DEF Coming
        <3>. QED BY <3>1, <3>2
    <2>. HIDE DEF p, a, N
    <2>5. Next1 \in Origin /\ Next1.n = N /\ Next1.p = p /\ InToken(Next1)
        BY <1>0, <2>2, <2>3 DEF Origin, InToken, Nowhere, Beyond, p
    <2>6. IsOrigin(Next1, Head(air))
        BY <1>0, <1>2, <2>1, <2>3, <2>5 DEF IsOrigin, N, Nowhere, Beyond, InToken
    <2>7. AirIsWord'
        BY <1>0, <1>1, <1>2, <2>4 DEF AirIsWord
    <2>. QED BY <1>1, <1>2, <1>3, <2>4, <2>5, <2>6, <2>7 DEF a, N, p
<1>4. CASE ~Coming
    <2>1. a = 1 /\ ToUpper(air[1]) = "D"
        BY <1>1, <1>4 DEF AirIsWord
    <2>2. Next1 = [n |-> N, p |-> 6]
        BY <1>4 DEF Next1, Beyond
    <2>3. air' = <<>> /\ ~Coming' /\ AirIsWord'
        BY <1>2, <2>1 DEF Coming, AirIsWord
    <2>. HIDE DEF a, N
    <2>4. Next1 \in Origin /\ Next1.n = N /\ Next1.p = 6 /\ ~InToken(Next1)
        BY <1>0, <2>2 DEF Origin, InToken, Nowhere, Beyond
    <2>5. IsOrigin(Next1, Head(air))
        BY <1>0, <1>2, <2>1, <2>4 DEF IsOrigin, N, Nowhere, Beyond
    <2>. QED BY <1>1, <1>2, <1>4, <2>1, <2>3, <2>4, <2>5 DEF a, N
<1>. QED BY <1>3, <1>4

LEMMA OriginsReceive ==
    ASSUME TypeOK, Receive, NEW o, NEW h, Origins(o, h),
           NEW l, l = Next1, NEW q, q = Labelled(o, l)
    PROVE  Origins(q, h)'
<1>0. AirIsWord
    BY DEF Origins
<1>. DEFINE N == Len(asked)  w == asked[Len(asked)]
<1>1. /\ l \in Origin /\ l.n = N /\ IsOrigin(l, Head(air))
      /\ Coming  => l.p = Len(w) - Len(air) + 1 /\ InToken(l)
      /\ ~Coming => ~InToken(l)
      /\ Len(air') = Len(air) - 1 /\ (Coming' => Coming) /\ asked' = asked
      /\ Len(air) \in Nat /\ N \in Nat
    BY <1>0, NextOrigin, Shapes
<1>2. Coming => Len(w) \in 1..5 /\ N > 0
    <2>1. Coming => N \in 1..N
        BY <1>1, Shapes DEF Coming
    <2>. QED BY <2>1, Shapes
<1>3. BeforeAir(l)'
    BY <1>1, <1>2 DEF BeforeAir
<1>4. ASSUME NEW k, Label(k), BeforeAir(k)
      PROVE  Precedes(k, l) /\ BeforeAir(k)'
    <2>0. k.n \in 0..N /\ k.p \in 0..6
        BY <1>4 DEF Label, Origin, Nowhere, Beyond
    <2>1. Coming /\ k.n = N => k.p <= Len(w) - Len(air)
        BY <1>4 DEF BeforeAir
    <2>2. BeforeAir(k)'
        BY <1>1, <1>2, <2>0, <2>1 DEF BeforeAir
    <2>3. Precedes(k, l)
        BY <1>1, <1>2, <2>0, <2>1 DEF Precedes
    <2>. QED BY <2>2, <2>3
<1>. HIDE DEF N, w
<1>. QED BY <1>0, <1>1, <1>3, <1>4, NextOrigin, OriginsPut

\* What a byte of the air does to the rest.
LEMMA ReceiveEffect ==
    ASSUME TypeOK, Receive, NEW o, NEW h, Origins(o, h),
           NEW l, l = Next1, NEW q, q = Labelled(o, l)
    PROVE  /\ UNCHANGED <<asked, rolling, executed>>
           /\ \/ Len(msgq) = QueueSize /\ dropped' /\ cut' /\ q = o /\ msgq' = msgq
              \/ Len(msgq) # QueueSize /\ dropped' = dropped /\ cut' = cut
           /\ \A i \in 1..Len(msgq) : i \in 1..Len(msgq') /\ q[i] = o[i]
           /\ \A i \in 1..Len(msgq') : i \in 1..Len(msgq) \/ (i = Len(msgq) + 1 /\ q[i] = l)
           /\ Len(msgq) # QueueSize =>
                Len(msgq) + 1 \in 1..Len(msgq') /\ q[Len(msgq) + 1] = l
<1>0. o \in Seq(Origin) /\ Len(o) = Len(msgq) /\ AirIsWord /\ Len(msgq) \in Nat
    BY Shapes DEF Origins
<1>1. l \in Origin /\ Put(Head(air)) /\ UNCHANGED <<asked, rolling, executed>>
    BY <1>0, NextOrigin
<1>2. /\ Len(msgq') \in Nat
      /\ \A i \in 1..Len(msgq) : i \in 1..Len(msgq') /\ q[i] = o[i]
    BY <1>0, <1>1, PutKeeps
<1>3. \/ Len(msgq) # QueueSize /\ Len(msgq') = Len(msgq) + 1 /\ q[Len(msgq) + 1] = l
      \/ Len(msgq) = QueueSize /\ msgq' = msgq /\ q = o
    BY <1>0, <1>1, PutKeeps
<1>4. \/ Len(msgq) = QueueSize /\ dropped' /\ cut'
      \/ Len(msgq) # QueueSize /\ dropped' = dropped /\ cut' = cut
    <2>1. dropped \in BOOLEAN /\ cut \in BOOLEAN
        BY DEF TypeOK
    <2>2. /\ dropped' = (dropped \/ Len(msgq) = QueueSize)
          /\ cut' = (cut \/ Len(msgq) = QueueSize)
        BY DEF Receive
    <2>. QED BY <2>1, <2>2
<1>5. /\ \A i \in 1..Len(msgq') : i \in 1..Len(msgq) \/ (i = Len(msgq) + 1 /\ q[i] = l)
      /\ Len(msgq) # QueueSize =>
           Len(msgq) + 1 \in 1..Len(msgq') /\ q[Len(msgq) + 1] = l
    <2>. DEFINE m == Len(msgq)  k == Len(msgq')
    <2>1. m \in Nat /\ k \in Nat
        BY <1>0, <1>2
    <2>2. m # QueueSize => k = m + 1 /\ q[m + 1] = l
        BY <1>3
    <2>3. m = QueueSize => k = m
        BY <1>3
    <2>. HIDE DEF m, k
    <2>4. \A i \in 1..k : i \in 1..m \/ (i = m + 1 /\ q[i] = l)
        BY <2>1, <2>2, <2>3
    <2>5. m # QueueSize => m + 1 \in 1..k /\ q[m + 1] = l
        BY <2>1, <2>2
    <2>. QED BY <2>4, <2>5 DEF m, k
<1>. QED BY <1>1, <1>2, <1>3, <1>4, <1>5

LEMMA WholeReceive ==
    ASSUME TypeOK, Receive, NEW o, NEW h, Origins(o, h), Whole(o, h),
           NEW l, l = Next1, NEW q, q = Labelled(o, l)
    PROVE  Whole(q, h)'
<1>1. CASE Len(msgq) = QueueSize
    <2>1. dropped' /\ cut'
        BY <1>1, ReceiveEffect
    <2>. QED BY <2>1 DEF Whole, Through
<1>2. CASE Len(msgq) # QueueSize
    <2>0. AirIsWord
        BY DEF Origins
    <2>1. /\ asked' = asked /\ rolling' = rolling /\ dropped' = dropped /\ cut' = cut
          /\ Len(msgq) + 1 \in 1..Len(msgq') /\ q[Len(msgq) + 1] = l
        BY <1>2, ReceiveEffect
    <2>2. \A i \in 1..Len(msgq) : i \in 1..Len(msgq') /\ q[i] = o[i]
        BY ReceiveEffect
    <2>3. \A n : Through(n)' <=> Through(n)
        BY <2>1 DEF Through
    <2>4. ASSUME NEW n \in 1..Len(asked), Through(n), NEW p \in 1..Len(asked[n])
          PROVE  \/ Behind(n, p, h)
                 \/ \E i \in 1..Len(msgq') : q[i].n = n /\ q[i].p = p
                 \/ Coming' /\ n = Len(asked) /\ p > Len(asked[n]) - Len(air')
        <3>1. \/ Behind(n, p, h)
              \/ \E i \in 1..Len(msgq) : o[i].n = n /\ o[i].p = p
              \/ Coming /\ n = Len(asked) /\ p > Len(asked[n]) - Len(air)
            BY <2>4 DEF Whole
        <3>2. CASE \E i \in 1..Len(msgq) : o[i].n = n /\ o[i].p = p
            BY <2>2, <3>2
        <3>3. CASE Coming /\ n = Len(asked) /\ p > Len(asked[n]) - Len(air)
            <4>1. /\ l.n = n /\ l.p = Len(asked[n]) - Len(air) + 1
                  /\ Len(air') = Len(air) - 1 /\ (Coming' <=> Len(air) > 1)
                BY <2>0, <3>3, NextOrigin
            <4>. DEFINE L == Len(asked[n])  a == Len(air)
            <4>2. L \in 1..5 /\ a \in Nat /\ p \in 1..L /\ p > L - a
                BY <2>4, <3>3, Shapes
            <4>. HIDE DEF L, a
            <4>3. p = L - a + 1 \/ (a > 1 /\ p > L - (a - 1))
                BY <4>2
            <4>. QED BY <2>1, <3>3, <4>1, <4>3 DEF L, a
        <3>. QED BY <3>1, <3>2, <3>3
    <2>5. InToken(h) /\ Through(h.n) =>
            /\ h.p <= Len(rolling)
            /\ \A i \in 1..h.p : rolling[Len(rolling) - h.p + i] = asked[h.n][i]
        BY DEF Whole
    <2>. QED BY <2>1, <2>3, <2>4, <2>5 DEF Whole, Behind, InToken
<1>. QED BY <1>1, <1>2

LEMMA ObeyedReceive ==
    ASSUME TypeOK, Receive, NEW o, NEW h, Origins(o, h), Obeyed(h)
    PROVE  Obeyed(h)'
<1>1. asked' = asked /\ executed' = executed
    BY DEF Receive
<1>2. dropped' = (dropped \/ Len(msgq) = QueueSize) /\ cut' = (cut \/ Len(msgq) = QueueSize)
    BY DEF Receive
<1>3. dropped \in BOOLEAN /\ cut \in BOOLEAN
    BY DEF TypeOK
<1>4. (~dropped' => ~dropped) /\ (~cut' => ~cut)
    BY <1>2, <1>3
<1>. QED BY <1>1, <1>4 DEF Obeyed, Done

LEMMA ExplainsReceive ==
    ASSUME TypeOK, Receive, NEW o, NEW h, Origins(o, h),
           NEW from, Explains(from, o, h),
           NEW l, l = Next1, NEW q, q = Labelled(o, l)
    PROVE  Explains(from, q, h)'
<1>0. AirIsWord
    BY DEF Origins
<1>1. /\ asked' = asked /\ executed' = executed /\ (Coming' => Coming)
      /\ l.n = Len(asked) /\ (InToken(l) => Coming)
    BY <1>0, NextOrigin
<1>2. /\ \A i \in 1..Len(msgq) : i \in 1..Len(msgq') /\ q[i] = o[i]
      /\ \A i \in 1..Len(msgq') : i \in 1..Len(msgq) \/ (i = Len(msgq) + 1 /\ q[i] = l)
    BY ReceiveEffect
<1>3. ASSUME NEW i \in 1..Len(executed), NEW j \in 1..Len(msgq'), InToken(q[j])
      PROVE  from[i] < q[j].n
    <2>1. CASE j \in 1..Len(msgq)
        BY <1>2, <1>3, <2>1 DEF Explains
    <2>2. CASE q[j] = l
        BY <1>1, <1>3, <2>2 DEF Explains
    <2>. QED BY <1>2, <2>1, <2>2
<1>4. /\ from \in [1..Len(executed) -> 1..Len(asked)]
      /\ \A i \in 1..Len(executed) :
           /\ executed[i] = Parse(asked[from[i]])
           /\ \A j \in 1..Len(executed) : i < j => from[i] < from[j]
           /\ InToken(h) /\ asked[h.n][h.p] \notin Final => from[i] < h.n
           /\ Coming => from[i] < Len(asked)
    BY DEF Explains
<1>. QED BY <1>1, <1>3, <1>4 DEF Explains, InToken

\* A byte nobody sent.
LEMMA NoiseStep ==
    ASSUME TypeOK, NEW c \in Noise, ReceiveNoise(c), NEW o, NEW h,
           Origins(o, h), Whole(o, h), Obeyed(h), NEW from, Explains(from, o, h),
           NEW l, l = [n |-> Len(asked), p |-> Nowhere], NEW q, q = Labelled(o, l)
    PROVE  Origins(q, h)' /\ Whole(q, h)' /\ Obeyed(h)' /\ Explains(from, q, h)'
<1>0. /\ o \in Seq(Origin) /\ Len(o) = Len(msgq) /\ AirIsWord
      /\ Len(msgq) \in Nat /\ Len(asked) \in Nat
    BY Shapes DEF Origins
<1>1. Put(c) /\ UNCHANGED <<air, rolling, executed, asked, dropped, cut>>
    BY DEF ReceiveNoise
<1>2. l \in Origin /\ l.n = Len(asked) /\ l.p = Nowhere /\ ~InToken(l)
    BY <1>0 DEF Origin, Nowhere, Beyond, InToken
<1>3. Coming' <=> Coming
    BY <1>1 DEF Coming
<1>4. Origins(q, h)'
    <2>1. AirIsWord'
        BY <1>0, <1>1, <1>3 DEF AirIsWord
    <2>2. IsOrigin(l, c)
        <3>1. ~Allowed(c)
            BY WordAssumption
        <3>. QED BY <1>0, <1>2, <3>1 DEF IsOrigin, Nowhere, Beyond
    <2>3. BeforeAir(l)'
        <3>1. Coming => Len(air) <= Len(asked[Len(asked)])
            BY DEF Coming
        <3>2. Coming => Len(asked) \in 1..Len(asked)
            BY <1>0, Shapes DEF Coming
        <3>3. Coming => Len(asked[Len(asked)]) \in 1..5
            BY <3>2, Shapes
        <3>4. Len(air) \in Nat
            BY Shapes
        <3>. DEFINE L == Len(asked[Len(asked)])  a == Len(air)
        <3>. HIDE DEF L, a
        <3>5. Coming => 0 <= L - a
            BY <3>1, <3>3, <3>4 DEF L, a
        <3>. QED BY <1>1, <1>2, <1>3, <3>5 DEF BeforeAir, Nowhere, L, a
    <2>4. ASSUME NEW k, Label(k), BeforeAir(k)
          PROVE  Precedes(k, l) /\ BeforeAir(k)'
        <3>1. BeforeAir(k)'
            BY <1>1, <1>3, <2>4 DEF BeforeAir
        <3>2. Precedes(k, l)
            BY <1>0, <1>2, <2>4 DEF Precedes, Label
        <3>. QED BY <3>1, <3>2
    <2>. QED BY <1>1, <1>2, <2>1, <2>2, <2>3, <2>4, OriginsPut
<1>5. /\ \A i \in 1..Len(msgq) : i \in 1..Len(msgq') /\ q[i] = o[i]
      /\ \A i \in 1..Len(msgq') : i \in 1..Len(msgq) \/ q[i] = l
    <2>1. /\ Len(msgq') \in Nat
          /\ \A i \in 1..Len(msgq) : i \in 1..Len(msgq') /\ q[i] = o[i]
        BY <1>0, <1>1, <1>2, PutKeeps
    <2>2. \/ Len(msgq') = Len(msgq) + 1 /\ q[Len(msgq) + 1] = l
          \/ msgq' = msgq
        BY <1>0, <1>1, <1>2, PutKeeps
    <2>3. \A i \in 1..Len(msgq') : i \in 1..Len(msgq) \/ q[i] = l
        BY <1>0, <2>1, <2>2
    <2>. QED BY <2>1, <2>3
<1>6. Whole(q, h)'
    <2>1. \A n : Through(n)' <=> Through(n)
        BY <1>1 DEF Through
    <2>2. ASSUME NEW n \in 1..Len(asked), Through(n), NEW p \in 1..Len(asked[n])
          PROVE  \/ Behind(n, p, h)
                 \/ \E i \in 1..Len(msgq') : q[i].n = n /\ q[i].p = p
                 \/ Coming /\ n = Len(asked) /\ p > Len(asked[n]) - Len(air)
        BY <1>5, <2>2 DEF Whole
    <2>3. InToken(h) /\ Through(h.n) =>
            /\ h.p <= Len(rolling)
            /\ \A i \in 1..h.p : rolling[Len(rolling) - h.p + i] = asked[h.n][i]
        BY DEF Whole
    <2>. QED BY <1>1, <1>3, <2>1, <2>2, <2>3 DEF Whole, Behind, InToken
<1>7. Obeyed(h)'
    BY <1>1 DEF Obeyed, Done
<1>8. Explains(from, q, h)'
    <2>1. ASSUME NEW i \in 1..Len(executed), NEW j \in 1..Len(msgq'), InToken(q[j])
          PROVE  from[i] < q[j].n
        BY <1>2, <1>5, <2>1 DEF Explains
    <2>2. /\ from \in [1..Len(executed) -> 1..Len(asked)]
          /\ \A i \in 1..Len(executed) :
               /\ executed[i] = Parse(asked[from[i]])
               /\ \A j \in 1..Len(executed) : i < j => from[i] < from[j]
               /\ InToken(h) /\ asked[h.n][h.p] \notin Final => from[i] < h.n
               /\ Coming => from[i] < Len(asked)
        BY DEF Explains
    <2>. QED BY <1>1, <1>3, <2>1, <2>2 DEF Explains, InToken
<1>. QED BY <1>4, <1>6, <1>7, <1>8

-----------------------------------------------------------------------------
(* The worker thread *)

\* The byte taken is the first of the queue, and the other labels move up.
LEMMA Taken ==
    ASSUME TypeOK, Work, NEW o, NEW h, Origins(o, h), NEW q, q = Tail(o)
    PROVE  /\ Len(msgq) > 0 /\ 1 \in 1..Len(msgq) /\ Label(o[1])
           /\ IsOrigin(o[1], Head(msgq)) /\ BeforeAir(o[1]) /\ Precedes(h, o[1])
           /\ q \in Seq(Origin) /\ Len(q) = Len(msgq') /\ Len(msgq') \in Nat
           /\ \A i \in 1..Len(msgq') :
                i + 1 \in 1..Len(msgq) /\ 1 < i + 1 /\ q[i] = o[i + 1] /\ msgq'[i] = msgq[i + 1]
           /\ \A i \in 1..Len(msgq) : i = 1 \/ (i - 1 \in 1..Len(msgq') /\ q[i - 1] = o[i])
           /\ UNCHANGED <<air, asked, words, noise, dropped, cut>>
<1>. DEFINE m == Len(msgq)
<1>1. /\ msgq \in Seq(Byte \cup Noise) /\ m \in Nat /\ m > 0 /\ msgq' = Tail(msgq)
      /\ UNCHANGED <<air, asked, words, noise, dropped, cut>> /\ Head(msgq) = msgq[1]
    BY Shapes, WorkEffect DEF TypeOK
<1>2. /\ o \in Seq(Origin) /\ Len(o) = m
      /\ \A i \in 1..m : IsOrigin(o[i], msgq[i]) /\ Precedes(h, o[i]) /\ BeforeAir(o[i])
    BY DEF Origins
<1>3. /\ q \in Seq(Origin) /\ Len(q) = m - 1
      /\ \A i \in 1..(m - 1) : q[i] = o[i + 1]
    BY <1>1, <1>2
<1>4. Len(msgq') = m - 1 /\ \A i \in 1..(m - 1) : msgq'[i] = msgq[i + 1]
    BY <1>1
<1>5. 1 \in 1..m /\ Label(o[1])
    BY <1>1, LabelsTyped
<1>. HIDE DEF m
<1>6. \A i \in 1..(m - 1) : i + 1 \in 1..m /\ 1 < i + 1
    BY <1>1
<1>7. \A i \in 1..m : i = 1 \/ (i - 1 \in 1..(m - 1) /\ i - 1 + 1 = i)
    BY <1>1
<1>8. \A i \in 1..m : i = 1 \/ (i - 1 \in 1..(m - 1) /\ q[i - 1] = o[i])
    BY <1>3, <1>7
<1>9. m - 1 \in Nat
    BY <1>1
<1>. QED BY <1>1, <1>2, <1>3, <1>4, <1>5, <1>6, <1>8, <1>9 DEF m

\* A byte that is skipped comes from nowhere, and the rest stays as it was.
LEMMA Skipped ==
    ASSUME TypeOK, Work, ~Allowed(Head(msgq)), NEW o, NEW h,
           Origins(o, h), Whole(o, h), Obeyed(h), NEW from, Explains(from, o, h),
           NEW q, q = Tail(o)
    PROVE  Origins(q, h)' /\ Whole(q, h)' /\ Obeyed(h)' /\ Explains(from, q, h)'
<1>1. /\ rolling' = rolling /\ executed' = executed
      /\ air' = air /\ asked' = asked /\ dropped' = dropped /\ cut' = cut
    BY WorkEffect
<1>2. Coming' <=> Coming
    BY <1>1 DEF Coming
<1>3. /\ \A i \in 1..Len(msgq') :
           i + 1 \in 1..Len(msgq) /\ q[i] = o[i + 1] /\ msgq'[i] = msgq[i + 1]
      /\ \A i \in 1..Len(msgq) : i = 1 \/ (i - 1 \in 1..Len(msgq') /\ q[i - 1] = o[i])
      /\ q \in Seq(Origin) /\ Len(q) = Len(msgq') /\ Len(msgq') \in Nat /\ o[1].p = Nowhere
    <2>1. IsOrigin(o[1], Head(msgq))
        BY Taken
    <2>2. o[1].p = Nowhere
        BY <2>1 DEF IsOrigin
    <2>3. \A i \in 1..Len(msgq') :
             i + 1 \in 1..Len(msgq) /\ 1 < i + 1 /\ q[i] = o[i + 1] /\ msgq'[i] = msgq[i + 1]
        BY Taken
    <2>5. q \in Seq(Origin) /\ Len(q) = Len(msgq') /\ Len(msgq') \in Nat
        BY Taken
    <2>4. \A i \in 1..Len(msgq) : i = 1 \/ (i - 1 \in 1..Len(msgq') /\ q[i - 1] = o[i])
        BY Taken
    <2>. QED BY <2>2, <2>3, <2>4, <2>5
<1>4. Origins(q, h)'
    <2>1. \A i \in 1..Len(msgq') : IsOrigin(q[i], msgq[i])'
        BY <1>1, <1>3 DEF Origins, IsOrigin, Allowed, InToken
    <2>2. IsHeard(h)' /\ AirIsWord' /\ BeforeAir(h)' /\ h \in Origin
        <3>1. IsHeard(h)' /\ h \in Origin
            BY <1>1 DEF Origins, IsHeard, InToken
        <3>2. AirIsWord'
            BY <1>1, <1>2 DEF Origins, AirIsWord
        <3>3. BeforeAir(h)'
            BY <1>1, <1>2 DEF Origins, BeforeAir
        <3>. QED BY <3>1, <3>2, <3>3
    <2>3. ASSUME NEW i \in 1..Len(msgq') PROVE Precedes(h, q[i])' /\ BeforeAir(q[i])'
        <3>1. Precedes(h, o[i + 1]) /\ BeforeAir(o[i + 1]) /\ q[i] = o[i + 1]
            BY <1>3 DEF Origins
        <3>2. Precedes(h, q[i])'
            BY <3>1 DEF Precedes, InToken
        <3>3. BeforeAir(q[i])'
            BY <1>1, <1>2, <3>1 DEF BeforeAir
        <3>. QED BY <3>2, <3>3
    <2>4. \A i, j \in 1..Len(msgq') : i < j => Precedes(q[i], q[j])'
        <3>1. ASSUME NEW i \in 1..Len(msgq'), NEW j \in 1..Len(msgq'), i < j
              PROVE  Precedes(q[i], q[j])
            <4>1. i + 1 < j + 1
                BY <1>3, <3>1
            <4>2. Precedes(o[i + 1], o[j + 1])
                BY <1>3, <4>1 DEF Origins
            <4>. QED BY <1>3, <4>2
        <3>. QED BY <3>1 DEF Precedes, InToken
    <2>. QED BY <1>3, <2>1, <2>2, <2>3, <2>4 DEF Origins
<1>5. Whole(q, h)'
    <2>1. \A n : Through(n)' <=> Through(n)
        BY <1>1 DEF Through
    <2>2. ASSUME NEW n \in 1..Len(asked), Through(n), NEW p \in 1..Len(asked[n])
          PROVE  \/ Behind(n, p, h)
                 \/ \E i \in 1..Len(msgq') : q[i].n = n /\ q[i].p = p
                 \/ Coming /\ n = Len(asked) /\ p > Len(asked[n]) - Len(air)
        <3>1. p # Nowhere
            BY <2>2 DEF Nowhere
        <3>2. CASE \E i \in 1..Len(msgq) : o[i].n = n /\ o[i].p = p
            <4>1. PICK i \in 1..Len(msgq) : o[i].n = n /\ o[i].p = p
                BY <3>2
            <4>2. i - 1 \in 1..Len(msgq') /\ q[i - 1] = o[i]
                BY <1>3, <3>1, <4>1
            <4>. QED BY <4>1, <4>2
        <3>. QED BY <2>2, <3>2 DEF Whole
    <2>3. InToken(h) /\ Through(h.n) =>
            /\ h.p <= Len(rolling)
            /\ \A i \in 1..h.p : rolling[Len(rolling) - h.p + i] = asked[h.n][i]
        BY DEF Whole
    <2>. QED BY <1>1, <1>2, <2>1, <2>2, <2>3 DEF Whole, Behind, InToken
<1>6. Obeyed(h)'
    BY <1>1 DEF Obeyed, Done
<1>7. Explains(from, q, h)'
    <2>1. /\ from \in [1..Len(executed) -> 1..Len(asked)]
          /\ \A i \in 1..Len(executed) :
               /\ executed[i] = Parse(asked[from[i]])
               /\ \A j \in 1..Len(executed) : i < j => from[i] < from[j]
               /\ \A j \in 1..Len(msgq) : InToken(o[j]) => from[i] < o[j].n
               /\ InToken(h) /\ asked[h.n][h.p] \notin Final => from[i] < h.n
               /\ Coming => from[i] < Len(asked)
        BY DEF Explains
    <2>2. ASSUME NEW i \in 1..Len(executed), NEW j \in 1..Len(msgq'), InToken(q[j])
          PROVE  from[i] < q[j].n
        BY <1>3, <2>1, <2>2
    <2>. QED BY <1>1, <1>2, <2>1, <2>2 DEF Explains, InToken
<1>. QED BY <1>4, <1>5, <1>6, <1>7

\* What came through and lies before the byte taken lies behind.
LEMMA AllBehind ==
    ASSUME TypeOK, Work, NEW o, NEW h, Origins(o, h), Whole(o, h),
           NEW n \in 1..Len(asked), Through(n), NEW p \in 1..Len(asked[n]),
           n < o[1].n \/ (n = o[1].n /\ p < o[1].p)
    PROVE  n < h.n \/ (n = h.n /\ p <= h.p)
<1>. DEFINE b == o[1]  m == Len(msgq)  N == Len(asked)  a == Len(air)
<1>1. /\ b.n \in 0..N /\ b.p \in 0..6 /\ N \in Nat /\ m > 0 /\ m \in Nat /\ BeforeAir(b)
      /\ n \in Nat /\ p \in 1..5 /\ a \in Nat
      /\ \A k \in 1..N : Len(asked[k]) \in 1..5
    <2>1. Label(b) /\ m > 0 /\ BeforeAir(b)
        BY Taken
    <2>2. b.n \in 0..N /\ b.p \in 0..6
        BY <2>1 DEF Label, Origin, Nowhere, Beyond
    <2>3. N \in Nat /\ m \in Nat /\ a \in Nat /\ \A k \in 1..N : Len(asked[k]) \in 1..5
        BY Shapes
    <2>4. n \in 1..N /\ p \in 1..Len(asked[n]) /\ Len(asked[n]) \in 1..5
        BY <2>3
    <2>. DEFINE L == Len(asked[n])
    <2>5. L \in 1..5 /\ p \in 1..L
        BY <2>4
    <2>. HIDE DEF b, N, m, a, L
    <2>6. n \in Nat
        BY <2>3, <2>4
    <2>7. p \in 1..5
        BY <2>5
    <2>. QED BY <2>1, <2>2, <2>3, <2>6, <2>7 DEF b, m
<1>2. \/ n < h.n \/ (n = h.n /\ p <= h.p)
      \/ \E i \in 1..m : o[i].n = n /\ o[i].p = p
      \/ Coming /\ n = N /\ p > Len(asked[n]) - a
    BY DEF Whole, Behind
<1>3. ASSUME NEW i \in 1..m, o[i].n = n, o[i].p = p PROVE FALSE
    <2>1. i # 1
        BY <1>1, <1>3
    <2>2. Precedes(b, o[i])
        BY <1>1, <1>3, <2>1 DEF Origins
    <2>. HIDE DEF b
    <2>. QED BY <1>1, <1>3, <2>2 DEF Precedes, InToken, b
<1>4. ASSUME Coming, n = N, p > Len(asked[n]) - a PROVE FALSE
    <2>1. n \in 0..N /\ b.n \in 0..N
        BY <1>1
    <2>2. b.n = N /\ p < b.p
        <3>. HIDE DEF b, N
        <3>. QED BY <1>1, <1>4, <2>1 DEF b
    <2>3. b.p <= Len(asked[n]) - a
        BY <1>1, <1>4, <2>2 DEF BeforeAir
    <2>. DEFINE L == Len(asked[n])
    <2>4. L \in 1..5 /\ p > L - a /\ b.p <= L - a
        BY <1>1, <1>4, <2>3
    <2>. HIDE DEF b, N, a, L
    <2>. QED BY <1>1, <2>2, <2>4
<1>. QED BY <1>2, <1>3, <1>4

\* A byte that is heard, from b: it is the new end of the buffer.
LEMMA Heard ==
    ASSUME TypeOK, Work, Allowed(Head(msgq)), NEW o, NEW h, Origins(o, h),
           NEW b, b = o[1]
    PROVE  /\ b.n \in 0..Len(asked) /\ b.p \in 1..6 /\ b \in Origin
           /\ InToken(b) => b.n > 0 /\ b.p <= Len(asked[b.n])
           /\ rolling' \in Seq(Letter) /\ Len(rolling') \in Nat /\ Len(rolling') > 0
           /\ b.p = Beyond => rolling'[Len(rolling')] = "D"
           /\ InToken(b)   => rolling'[Len(rolling')] = asked[b.n][b.p]
           /\ \/ Len(rolling') = Len(rolling) + 1
              \/ Len(rolling') = Len(rolling) /\ Len(rolling') >= 5
           /\ \A j \in 1..(Len(rolling') - 1) :
                rolling'[Len(rolling') - j] = rolling[Len(rolling) - j + 1]
           /\ UNCHANGED <<air, asked, dropped, cut>>
<1>. DEFINE c == Head(msgq)
<1>1. /\ rolling' = ShiftAppendChar(rolling, ToUpper(c)) /\ UNCHANGED <<air, asked, dropped, cut>>
    BY WorkEffect
<1>2. rolling \in Seq(Letter) /\ Len(rolling) < BufSize /\ ToUpper(c) \in Letter
    BY UpperIsLetter DEF TypeOK
<1>3. /\ rolling' \in Seq(Letter) /\ Len(rolling') < BufSize /\ Len(rolling') > 0
      /\ \/ Len(rolling') = Len(rolling) + 1
         \/ Len(rolling') = Len(rolling) /\ Len(rolling') = BufSize - 1
      /\ rolling'[Len(rolling')] = ToUpper(c)
      /\ \A j \in 1..(Len(rolling') - 1) :
           rolling'[Len(rolling') - j] = rolling[Len(rolling) - j + 1]
    <2>1. Shifted(rolling, ToUpper(c), rolling')
        BY <1>1, <1>2, ShiftAppends
    <2>. HIDE DEF c
    <2>. QED BY <2>1 DEF Shifted
<1>4. \A j \in 1..(Len(rolling') - 1) :
         rolling'[Len(rolling') - j] = rolling[Len(rolling) - j + 1]
    BY <1>3
<1>5. IsOrigin(b, c) /\ Label(b)
    BY Taken
<1>. HIDE DEF c
<1>6. b.n \in 0..Len(asked) /\ b.p \in 0..6 /\ b \in Origin
    BY <1>5 DEF Label, Origin, Nowhere, Beyond
<1>7. b.p # 0
    BY <1>5 DEF IsOrigin, Nowhere, c
<1>8. /\ InToken(b) => b.n > 0 /\ b.p <= Len(asked[b.n]) /\ ToUpper(c) = asked[b.n][b.p]
      /\ b.p = Beyond => ToUpper(c) = "D"
    BY <1>5 DEF IsOrigin
<1>9. Len(rolling') \in Nat
    BY <1>3
<1>10. \/ Len(rolling') = Len(rolling) + 1
       \/ Len(rolling') = Len(rolling) /\ Len(rolling') >= 5
    BY <1>3, <1>9, Sizes
<1>. QED BY <1>1, <1>3, <1>4, <1>6, <1>7, <1>8, <1>9, <1>10

LEMMA OriginsHear ==
    ASSUME TypeOK, Work, Allowed(Head(msgq)), NEW o, NEW h, Origins(o, h),
           NEW b, b = o[1], NEW q, q = Tail(o)
    PROVE  Origins(q, b)'
<1>1. UNCHANGED <<air, asked>>
    BY Heard
<1>2. Coming' <=> Coming
    BY <1>1 DEF Coming
<1>3. \A i \in 1..Len(msgq') :
         i + 1 \in 1..Len(msgq) /\ 1 < i + 1 /\ q[i] = o[i + 1] /\ msgq'[i] = msgq[i + 1]
    BY Taken
<1>4. q \in Seq(Origin) /\ Len(q) = Len(msgq') /\ Len(msgq') \in Nat /\ 1 \in 1..Len(msgq)
    BY Taken
<1>5. \A i \in 1..Len(msgq') : IsOrigin(q[i], msgq[i])'
    BY <1>1, <1>3 DEF Origins, IsOrigin, Allowed, InToken
<1>6. AirIsWord'
    BY <1>1, <1>2 DEF Origins, AirIsWord
<1>7. IsHeard(b)' /\ b \in Origin
    <2>1. b.n \in 0..Len(asked') /\ b.p # Nowhere /\ b \in Origin
        BY <1>1, Heard DEF Nowhere
    <2>2. b.p = Beyond => rolling'[Len(rolling')] = "D"
        BY Heard
    <2>3. InToken(b) => b.n > 0 /\ b.p <= Len(asked'[b.n])
                        /\ rolling'[Len(rolling')] = asked'[b.n][b.p]
        BY <1>1, Heard
    <2>4. rolling' # <<>>
        BY Heard
    <2>. QED BY <2>1, <2>2, <2>3, <2>4 DEF IsHeard, InToken
<1>8. ASSUME NEW k, BeforeAir(k) PROVE BeforeAir(k)'
    BY <1>1, <1>2, <1>8 DEF BeforeAir
<1>9. ASSUME NEW i \in 1..Len(msgq') PROVE Precedes(b, q[i])' /\ BeforeAir(q[i])'
    <2>1. Precedes(o[1], o[i + 1]) /\ BeforeAir(o[i + 1]) /\ q[i] = o[i + 1]
        BY <1>3, <1>4 DEF Origins
    <2>2. Precedes(b, q[i])'
        BY <2>1 DEF Precedes, InToken
    <2>3. BeforeAir(q[i])'
        BY <1>1, <1>2, <2>1 DEF BeforeAir
    <2>. QED BY <2>2, <2>3
<1>10. \A i, j \in 1..Len(msgq') : i < j => Precedes(q[i], q[j])'
    <2>1. ASSUME NEW i \in 1..Len(msgq'), NEW j \in 1..Len(msgq'), i < j
          PROVE  Precedes(q[i], q[j])
        <3>1. i + 1 < j + 1
            BY <1>4, <2>1
        <3>2. Precedes(o[i + 1], o[j + 1])
            BY <1>3, <3>1 DEF Origins
        <3>. QED BY <1>3, <3>2
    <2>. QED BY <2>1 DEF Precedes, InToken
<1>11. BeforeAir(b)'
    <2>1. BeforeAir(b)
        BY Taken
    <2>. QED BY <1>1, <1>2, <2>1 DEF BeforeAir
<1>. QED BY <1>4, <1>5, <1>6, <1>7, <1>9, <1>10, <1>11 DEF Origins

\* The buffer ends with what has been heard of a token that comes through.
LEMMA EndsWithHeard ==
    ASSUME TypeOK, Work, Allowed(Head(msgq)), NEW o, NEW h, Origins(o, h), Whole(o, h),
           NEW b, b = o[1], InToken(b), Through(b.n)
    PROVE  /\ b.p <= Len(rolling')
           /\ \A i \in 1..b.p : rolling'[Len(rolling') - b.p + i] = asked[b.n][i]
<1>. DEFINE r == Len(rolling)  s == Len(rolling')  p == b.p  w == asked[b.n]
<1>1. /\ b.n \in 1..Len(asked) /\ p \in 1..Len(w) /\ Len(w) \in 1..5 /\ p \in 1..5
      /\ s \in Nat /\ s > 0 /\ r \in Nat /\ rolling'[s] = w[p]
      /\ s = r + 1 \/ s >= 5
    <2>1. b.n \in 0..Len(asked) /\ b.n > 0 /\ p <= Len(w) /\ p \in 1..5 /\ rolling'[s] = w[p]
        BY Heard DEF InToken
    <2>2. s \in Nat /\ s > 0 /\ (s = r + 1 \/ s >= 5)
        BY Heard
    <2>3. b.n \in 1..Len(asked)
        BY <2>1, Shapes
    <2>4. Len(w) \in 1..5 /\ r \in Nat
        BY <2>3, Shapes
    <2>. QED BY <2>1, <2>2, <2>3, <2>4
<1>2. \A j \in 1..(s - 1) : rolling'[s - j] = rolling[r - j + 1]
    BY Heard
<1>3. CASE p = 1
    <2>. HIDE DEF s, p, w
    <2>1. p <= s /\ \A i \in 1..p : i = 1 /\ s - p + i = s
        BY <1>1, <1>3
    <2>. QED BY <1>1, <1>3, <2>1 DEF s, p, w
<1>4. CASE p > 1
    <2>1. b.n = h.n /\ h.p = p - 1
        <3>1. b.n < h.n \/ (b.n = h.n /\ p - 1 <= h.p)
            <4>1. p - 1 \in 1..Len(w) /\ p - 1 < p
                BY <1>1, <1>4
            <4>. QED BY <1>1, <4>1, AllBehind
        <3>2. h.n < b.n \/ (h.n = b.n /\ h.p < p)
            BY Taken DEF Precedes
        <3>3. h.n \in Nat /\ h.p \in 0..6
            BY LabelsTyped
        <3>4. b.n \in Nat
            BY <1>1
        <3>5. p \in Nat
            BY <1>1
        <3>. HIDE DEF p
        <3>. QED BY <3>1, <3>2, <3>3, <3>4, <3>5
    <2>2. InToken(h) /\ Through(h.n)
        <3>1. p - 1 \in 1..5
            BY <1>1, <1>4
        <3>. QED BY <2>1, <3>1 DEF InToken
    <2>3. p - 1 <= r /\ \A i \in 1..(p - 1) : rolling[r - (p - 1) + i] = w[i]
        BY <2>1, <2>2 DEF Whole
    <2>. HIDE DEF r, s, p, w
    <2>4. p <= s
        BY <1>1, <1>4, <2>3
    <2>5. ASSUME NEW i \in 1..p PROVE rolling'[s - p + i] = w[i]
        <3>1. CASE i = p
            <4>1. s - p + i = s
                BY <1>1, <3>1
            <4>. QED BY <1>1, <3>1, <4>1
        <3>2. CASE i < p
            <4>. DEFINE j == p - i
            <4>1. j \in 1..(s - 1) /\ s - j = s - p + i /\ r - j + 1 = r - (p - 1) + i
                BY <1>1, <2>4, <3>2
            <4>2. i \in 1..(p - 1)
                BY <1>1, <3>2
            <4>. HIDE DEF j
            <4>3. rolling'[s - j] = rolling[r - j + 1]
                BY <1>2, <4>1
            <4>4. rolling[r - (p - 1) + i] = w[i]
                BY <2>3, <4>2
            <4>. QED BY <4>1, <4>3, <4>4
        <3>. QED BY <1>1, <3>1, <3>2
    <2>. QED BY <2>4, <2>5 DEF s, p, w
<1>. QED BY <1>1, <1>3, <1>4

LEMMA WholeHear ==
    ASSUME TypeOK, Work, Allowed(Head(msgq)), NEW o, NEW h, Origins(o, h), Whole(o, h),
           NEW b, b = o[1], NEW q, q = Tail(o)
    PROVE  Whole(q, b)'
<1>1. UNCHANGED <<air, asked, dropped, cut>>
    BY Heard
<1>2. Coming' <=> Coming
    BY <1>1 DEF Coming
<1>3. \A n : Through(n)' <=> Through(n)
    BY <1>1 DEF Through
<1>4. ASSUME NEW n \in 1..Len(asked), Through(n), NEW p \in 1..Len(asked[n])
      PROVE  \/ Behind(n, p, b)
             \/ \E i \in 1..Len(msgq') : q[i].n = n /\ q[i].p = p
             \/ Coming /\ n = Len(asked) /\ p > Len(asked[n]) - Len(air)
    <2>1. CASE Behind(n, p, h)
        <3>1. n < h.n \/ (n = h.n /\ p <= h.p)
            BY <2>1 DEF Behind
        <3>2. h.n < b.n \/ (h.n = b.n /\ (InToken(b) => h.p < b.p))
            BY Taken DEF Precedes
        <3>3. h.n \in Nat /\ h.p \in 0..6 /\ b.p \in 1..6 /\ b.n \in Nat
            BY LabelsTyped, Heard
        <3>4. n \in Nat /\ p \in 1..5
            <4>. DEFINE L == Len(asked[n])
            <4>1. L \in 1..5 /\ Len(asked) \in Nat
                BY <1>4, Shapes
            <4>2. p \in 1..L
                BY <1>4
            <4>3. n \in Nat
                BY <1>4, <4>1
            <4>. HIDE DEF L
            <4>4. p \in 1..5
                BY <4>1, <4>2
            <4>. QED BY <4>3, <4>4
        <3>5. n < b.n \/ (n = b.n /\ p <= b.p)
            <4>. DEFINE bn == b.n  bp == b.p  hn == h.n  hp == h.p
            <4>1. hn < bn \/ (hn = bn /\ (bp \in 1..5 => hp < bp))
                BY <3>2 DEF InToken
            <4>2. n < hn \/ (n = hn /\ p <= hp)
                BY <3>1
            <4>3. hn \in Nat /\ hp \in 0..6 /\ bp \in 1..6 /\ bn \in Nat
                BY <3>3
            <4>. HIDE DEF bn, bp, hn, hp
            <4>4. n < bn \/ (n = bn /\ p <= bp)
                BY <3>4, <4>1, <4>2, <4>3
            <4>. QED BY <4>4 DEF bn, bp
        <3>. QED BY <3>5 DEF Behind
    <2>2. CASE \E i \in 1..Len(msgq) : o[i].n = n /\ o[i].p = p
        <3>1. PICK i \in 1..Len(msgq) : o[i].n = n /\ o[i].p = p
            BY <2>2
        <3>2. CASE i = 1
            <4>1. n = b.n /\ p = b.p /\ b.p \in 1..6
                BY <3>1, <3>2, Heard
            <4>. QED BY <4>1 DEF Behind
        <3>3. CASE i # 1
            <4>1. i - 1 \in 1..Len(msgq') /\ q[i - 1] = o[i]
                BY <3>3, Taken
            <4>. QED BY <3>1, <4>1
        <3>. QED BY <3>2, <3>3
    <2>. QED BY <1>4, <2>1, <2>2 DEF Whole
<1>5. InToken(b) /\ Through(b.n) =>
        /\ b.p <= Len(rolling')
        /\ \A i \in 1..b.p : rolling'[Len(rolling') - b.p + i] = asked[b.n][i]
    BY EndsWithHeard
<1>. QED BY <1>1, <1>2, <1>3, <1>4, <1>5 DEF Whole, Behind, InToken

\* What the search finds at the end of the buffer ...
LEMMA Found ==
    ASSUME TypeOK, Work, Allowed(Head(msgq)), NEW o, NEW h, Origins(o, h)
    PROVE  \/ executed' = executed /\ \A t \in Token : ~IsSuffix(t, rolling')
           \/ \E t \in Token : /\ IsSuffix(t, rolling')
                               /\ executed' = Append(executed, Parse(t))
<1>1. rolling' = ShiftAppendChar(rolling, ToUpper(Head(msgq)))
    BY WorkEffect
<1>. QED BY <1>1, WorkEffect

\* ... has its last two letters there.
LEMMA FoundEnds ==
    ASSUME NEW t \in Token, NEW b \in Seq(Letter), IsSuffix(t, b)
    PROVE  /\ Len(b) \in Nat /\ Len(t) \in 1..5 /\ Len(t) <= Len(b)
           /\ b[Len(b)] = t[Len(t)] /\ b[Len(b)] \in Final
           /\ Len(t) > 1 => b[Len(b) - 1] = t[Len(t) - 1] /\ b[Len(b) - 1] \in Mid
<1>. DEFINE n == Len(t)  m == Len(b)
<1>1. t \in Seq(Letter) /\ n \in 1..5 /\ m \in Nat
    BY TokenLetters
<1>2. n <= m /\ \A i \in 1..n : t[i] = b[m - n + i]
    BY <1>1, SuffixMeans
<1>. HIDE DEF n, m
<1>3. m - n + n = m /\ n \in 1..n
    BY <1>1, <1>2
<1>4. t[n] = b[m]
    BY <1>2, <1>3
<1>5. n > 1 => n - 1 \in 1..n /\ m - n + (n - 1) = m - 1
    BY <1>1, <1>2
<1>6. n > 1 => t[n - 1] = b[m - 1]
    BY <1>2, <1>5
<1>7. t[n] \in Final /\ (n > 1 => t[n - 1] \in Mid)
    BY TokenEnds DEF n
<1>. QED BY <1>1, <1>2, <1>4, <1>6, <1>7 DEF n, m

\* A letter that is not a last one, or "D", executes nothing.
LEMMA NothingFound ==
    ASSUME TypeOK, Work, Allowed(Head(msgq)), NEW o, NEW h, Origins(o, h),
           NEW b, b = o[1], InToken(b) => b.p # Len(asked[b.n])
    PROVE  executed' = executed
<1>. DEFINE last == rolling'[Len(rolling')]
<1>1. rolling' \in Seq(Letter)
    BY Heard
<1>2. last \notin Final
    <2>1. CASE b.p = Beyond
        <3>1. last = "D"
            BY <2>1, Heard
        <3>. QED BY <3>1 DEF Final
    <2>2. CASE InToken(b)
        <3>1. /\ b.n \in 0..Len(asked) /\ b.n > 0 /\ b.p <= Len(asked[b.n])
              /\ last = asked[b.n][b.p] /\ b.p \in 1..5
            BY <2>2, Heard DEF InToken
        <3>2. b.n \in 1..Len(asked)
            BY <3>1, Shapes
        <3>3. asked[b.n] \in Token /\ Len(asked[b.n]) \in 1..5
            BY <3>2, Shapes
        <3>4. b.p \in 1..Len(asked[b.n])
            BY <3>1, <3>3
        <3>5. asked[b.n][b.p] \in Final => b.p = Len(asked[b.n])
            BY <3>3, <3>4, TokenEnds
        <3>. QED BY <2>2, <3>1, <3>5
    <2>3. b.p \in 1..6
        BY Heard
    <2>. QED BY <2>1, <2>2, <2>3 DEF InToken, Beyond
<1>3. \A t \in Token : ~IsSuffix(t, rolling')
    BY <1>1, <1>2, FoundEnds
<1>. QED BY <1>3, Found

\* The last letter of a token that came through executes it, and nothing else.
LEMMA TokenFound ==
    ASSUME TypeOK, Work, Allowed(Head(msgq)), NEW o, NEW h, Origins(o, h), Whole(o, h),
           NEW b, b = o[1], InToken(b), b.p = Len(asked[b.n]), Through(b.n)
    PROVE  executed' = Append(executed, Parse(asked[b.n]))
<1>. DEFINE w == asked[b.n]
<1>1. b.n \in 1..Len(asked)
    <2>1. b.n \in 0..Len(asked) /\ b.n > 0
        BY Heard
    <2>. QED BY <2>1, Shapes
<1>2. w \in Token /\ w \in Seq(Letter) /\ rolling' \in Seq(Letter)
    BY <1>1, Shapes, Heard
<1>3. /\ Len(w) <= Len(rolling')
      /\ \A i \in 1..Len(w) : w[i] = rolling'[Len(rolling') - Len(w) + i]
    BY EndsWithHeard
<1>4. IsSuffix(w, rolling')
    BY <1>2, <1>3, SuffixMeans
<1>5. PICK t \in Token : IsSuffix(t, rolling') /\ executed' = Append(executed, Parse(t))
    BY <1>2, <1>4, Found
<1>6. t = w
    BY <1>2, <1>4, <1>5, NoTokenHidesAnother
<1>. QED BY <1>5, <1>6

LEMMA ObeyedHear ==
    ASSUME TypeOK, Work, Allowed(Head(msgq)), NEW o, NEW h, Origins(o, h), Whole(o, h),
           Obeyed(h), NEW b, b = o[1]
    PROVE  Obeyed(b)'
<1>. DEFINE N == Len(asked)
<1>1. UNCHANGED <<asked, dropped, cut>>
    BY Heard
<1>2. /\ b.n \in 0..N /\ b.p \in 1..6 /\ (InToken(b) => b.n > 0 /\ b.p <= Len(asked[b.n]))
      /\ h.n \in 0..N /\ h.p \in 0..6 /\ N \in Nat
      /\ \A k \in 1..N : Len(asked[k]) \in 1..5
    <2>1. h.n \in 0..N /\ h.p \in 0..6
        BY LabelsTyped DEF Label
    <2>2. N \in Nat /\ \A k \in 1..N : Len(asked[k]) \in 1..5
        BY Shapes
    <2>3. b.n \in 0..N /\ b.p \in 1..6 /\ (InToken(b) => b.n > 0 /\ b.p <= Len(asked[b.n]))
        BY Heard
    <2>. QED BY <2>1, <2>2, <2>3
<1>3. h.n < b.n \/ (h.n = b.n /\ (InToken(b) => h.p < b.p))
    BY Taken DEF Precedes
<1>4. ASSUME NEW n \in 1..N, Through(n), n < b.n \/ (n = b.n /\ b.p = Beyond)
      PROVE  n < h.n \/ (n = h.n /\ Len(asked[n]) <= h.p)
    <2>. DEFINE L == Len(asked[n])
    <2>1. L \in 1..5
        BY <1>2
    <2>2. L \in 1..L /\ L < 6
        <3>. HIDE DEF L
        <3>. QED BY <2>1
    <2>3. n < b.n \/ (n = b.n /\ L < b.p)
        <3>. HIDE DEF L
        <3>. QED BY <1>4, <2>2 DEF Beyond
    <2>. QED BY <1>4, <2>2, <2>3, AllBehind
\* No byte lost: what is done before this byte, and after it.
<1>5. ASSUME ~dropped, InToken(b) PROVE Done(h) = b.n - 1 /\ b.n > 0
    <2>1. CASE h.n = b.n
        <3>1. h.n \in 1..N /\ h.p < Len(asked[h.n])
            <4>1. b.n \in 1..N /\ h.p < b.p /\ b.p <= Len(asked[b.n])
                BY <1>2, <1>3, <1>5, <2>1
            <4>. DEFINE L == Len(asked[b.n])  hp == h.p  bp == b.p
            <4>2. L \in 1..5 /\ hp \in 0..6 /\ bp \in 1..6 /\ hp < bp /\ bp <= L
                BY <1>2, <4>1
            <4>. HIDE DEF L, hp, bp
            <4>3. hp < L
                BY <4>2
            <4>. QED BY <2>1, <4>1, <4>3 DEF L, hp
        <3>2. ~(h.p >= Len(asked[h.n]))
            BY <1>2, <3>1
        <3>. QED BY <1>2, <2>1, <3>1, <3>2 DEF Done
    <2>2. CASE h.n < b.n /\ b.n = 1
        BY <1>2, <2>2 DEF Done
    <2>3. CASE h.n < b.n /\ b.n > 1
        <3>. DEFINE n == b.n - 1
        <3>1. n \in 1..N /\ n < b.n
            BY <1>2, <2>3
        <3>2. n < h.n \/ (n = h.n /\ Len(asked[n]) <= h.p)
            BY <1>4, <1>5, <3>1 DEF Through
        <3>3. n = h.n /\ Len(asked[n]) <= h.p
            BY <1>2, <2>3, <3>1, <3>2
        <3>. HIDE DEF n
        <3>4. Len(asked[n]) \in 1..5
            BY <1>2, <3>1
        <3>5. Done(h) = n
            <4>1. Done(h) = IF h.n = 0 \/ h.p >= Len(asked[n]) THEN n ELSE h.n - 1
                BY <3>3 DEF Done
            <4>2. h.p \in 0..6
                BY <1>2
            <4>. DEFINE L == Len(asked[n])  hp == h.p
            <4>3. L \in 1..5 /\ L <= hp /\ hp \in 0..6
                BY <3>3, <3>4, <4>2
            <4>. HIDE DEF L, hp
            <4>4. hp >= L
                BY <4>3
            <4>5. h.n = 0 \/ h.p >= Len(asked[n])
                BY <4>4 DEF L, hp
            <4>. QED BY <4>1, <4>5, Zenon
        <3>. QED BY <1>2, <2>3, <3>5 DEF n
    <2>. QED BY <1>2, <1>3, <1>5, <2>1, <2>2, <2>3
<1>6. ASSUME b.p = Beyond, b.n > 0, Through(b.n)
      PROVE  h.n = b.n /\ Len(asked[b.n]) <= h.p
    <2>1. b.n \in 1..N
        BY <1>2, <1>6
    <2>2. b.n < h.n \/ (b.n = h.n /\ Len(asked[b.n]) <= h.p)
        BY <1>4, <1>6, <2>1
    <2>. QED BY <1>2, <1>3, <2>1, <2>2
<1>7. ASSUME ~dropped, b.p = Beyond PROVE Done(h) = b.n
    <2>1. CASE b.n = 0
        BY <1>2, <1>3, <2>1 DEF Done
    <2>2. CASE b.n > 0
        <3>1. h.n = b.n /\ Len(asked[b.n]) <= h.p /\ b.n \in 1..N
            BY <1>2, <1>6, <1>7, <2>2 DEF Through
        <3>2. Len(asked[b.n]) \in 1..5
            BY <1>2, <3>1
        <3>. QED BY <1>2, <3>1, <3>2 DEF Done
    <2>. QED BY <1>2, <2>1, <2>2
<1>8. ~dropped => executed = [i \in 1..Done(h) |-> Parse(asked[i])]
    BY DEF Obeyed
<1>9. ~dropped' => executed' = [i \in 1..Done(b)' |-> Parse(asked'[i])]
    <2>1. SUFFICES ASSUME ~dropped PROVE executed' = [i \in 1..Done(b) |-> Parse(asked[i])]
        BY <1>1 DEF Done
    <2>2. CASE b.p = Beyond
        <3>1. executed' = executed
            BY <2>2, NothingFound DEF InToken, Beyond
        <3>2. Done(b) = b.n
            <4>1. CASE b.n = 0
                BY <4>1 DEF Done
            <4>2. CASE b.n > 0
                <5>1. b.n \in 1..N
                    BY <1>2, <4>2
                <5>. DEFINE L == Len(asked[b.n])
                <5>2. L \in 1..5
                    BY <1>2, <5>1
                <5>. HIDE DEF L
                <5>3. 6 >= L
                    BY <5>2
                <5>4. b.p >= Len(asked[b.n])
                    BY <2>2, <5>3 DEF Beyond, L
                <5>. QED BY <5>4 DEF Done
            <4>. QED BY <1>2, <4>1, <4>2
        <3>3. Done(h) = Done(b)
            BY <1>7, <2>1, <2>2, <3>2
        <3>. QED BY <1>8, <2>1, <3>1, <3>3
    <2>3. CASE InToken(b) /\ b.p # Len(asked[b.n])
        <3>1. executed' = executed
            BY <2>3, NothingFound
        <3>2. b.n \in 1..N /\ b.p <= Len(asked[b.n])
            BY <1>2, <2>3
        <3>3. Len(asked[b.n]) \in 1..5
            BY <1>2, <3>2
        <3>4. ~(b.p >= Len(asked[b.n])) /\ b.n # 0
            BY <1>2, <2>3, <3>2, <3>3
        <3>5. Done(b) = b.n - 1
            BY <3>4 DEF Done
        <3>6. Done(h) = Done(b)
            BY <1>5, <2>1, <2>3, <3>5
        <3>. QED BY <1>8, <2>1, <3>1, <3>6
    <2>4. CASE InToken(b) /\ b.p = Len(asked[b.n])
        <3>1. executed' = Append(executed, Parse(asked[b.n]))
            BY <2>1, <2>4, TokenFound DEF Through
        <3>2. Done(h) = b.n - 1 /\ b.n > 0
            BY <1>5, <2>1, <2>4
        <3>3. Done(b) = b.n
            <4>1. b.n \in 1..N
                BY <1>2, <3>2
            <4>2. Len(asked[b.n]) \in 1..5
                BY <1>2, <4>1
            <4>. QED BY <2>4, <4>2 DEF Done
        <3>. DEFINE k == b.n - 1  f == [i \in 1..k |-> Parse(asked[i])]
        <3>4. executed = f /\ k \in Nat /\ k + 1 = b.n
            BY <1>2, <1>8, <2>1, <3>2
        <3>. HIDE DEF k
        <3>5. Append(f, Parse(asked[k + 1])) = [i \in 1..(k + 1) |-> Parse(asked[i])]
            BY <3>4
        <3>. QED BY <3>1, <3>3, <3>4, <3>5
    <2>. QED BY <1>2, <2>2, <2>3, <2>4 DEF InToken, Beyond
\* The last token came through.
<1>10. ASSUME ~cut, asked # <<>>, b.n = N, b.p >= Len(asked[N])
       PROVE  executed' # <<>> /\ executed'[Len(executed')] = Parse(asked[N])
    <2>1. Through(b.n) /\ N \in 1..N
        BY <1>2, <1>10, Shapes DEF Through
    <2>2. CASE InToken(b)
        <3>1. b.p = Len(asked[b.n])
            <4>1. Len(asked[N]) \in 1..5
                BY <1>2, <2>1
            <4>. QED BY <1>2, <1>10, <2>2, <4>1
        <3>2. executed' = Append(executed, Parse(asked[b.n]))
            BY <2>1, <2>2, <3>1, TokenFound
        <3>. DEFINE P == Parse(asked[N])
        <3>3. executed \in Seq({Parse(t) : t \in Token})
            BY DEF TypeOK
        <3>. HIDE DEF P
        <3>4. \A S : \A e \in Seq(S) : Append(e, P) # <<>> /\ Append(e, P)[Len(Append(e, P))] = P
            OBVIOUS
        <3>. QED BY <1>10, <3>2, <3>3, <3>4 DEF P
    <2>3. CASE b.p = Beyond
        <3>1. executed' = executed
            BY <2>3, NothingFound DEF InToken, Beyond
        <3>2. h.n = b.n /\ Len(asked[b.n]) <= h.p
            BY <1>2, <1>6, <1>10, <2>1, <2>3
        <3>3. Len(asked[N]) \in 1..5
            BY <1>2, <2>1
        <3>4. h.p >= Len(asked[h.n])
            BY <1>2, <1>10, <3>2, <3>3
        <3>. QED BY <1>10, <3>1, <3>2, <3>4 DEF Obeyed
    <2>. QED BY <1>2, <2>2, <2>3 DEF InToken, Beyond
<1>. QED BY <1>1, <1>9, <1>10 DEF Obeyed

\* The token whose letter ended the one found, as far as it can be told: the letter
\* before belongs to a token of the same command that nothing has executed yet.
LEMMA FoundToken ==
    ASSUME TypeOK, Work, Allowed(Head(msgq)), NEW o, NEW h, Origins(o, h),
           NEW from, Explains(from, o, h), NEW b, b = o[1],
           NEW t \in Token, IsSuffix(t, rolling')
    PROVE  /\ InToken(b) /\ b.n \in 1..Len(asked) /\ b.p = Len(asked[b.n])
           /\ \E x \in 1..b.n : /\ Parse(asked[x]) = Parse(t)
                                /\ \A i \in 1..Len(executed) : from[i] < x
<1>. DEFINE s == Len(rolling')  r == Len(rolling)
<1>1. rolling' \in Seq(Letter) /\ s \in Nat /\ s > 0 /\ r \in Nat
    BY Heard, Shapes
<1>2. /\ Len(t) \in 1..5 /\ Len(t) <= s
      /\ rolling'[s] = t[Len(t)] /\ rolling'[s] \in Final
      /\ Len(t) > 1 => rolling'[s - 1] \in Mid /\ rolling'[s - 1] = t[Len(t) - 1]
    BY <1>1, FoundEnds
<1>3. InToken(b)
    <2>1. b.p = Beyond => rolling'[s] = "D"
        BY Heard
    <2>2. b.p \in 1..6
        BY Heard
    <2>. QED BY <1>2, <2>1, <2>2 DEF InToken, Beyond, Final
<1>4. /\ b.n \in 1..Len(asked) /\ b.p \in 1..Len(asked[b.n]) /\ rolling'[s] = asked[b.n][b.p]
      /\ asked[b.n] \in Token
    <2>1. /\ b.n \in 0..Len(asked) /\ b.n > 0 /\ b.p <= Len(asked[b.n]) /\ b.p \in 1..6
          /\ rolling'[s] = asked[b.n][b.p]
        BY <1>3, Heard
    <2>2. b.n \in 1..Len(asked)
        BY <2>1, Shapes
    <2>3. Len(asked[b.n]) \in 1..5 /\ asked[b.n] \in Token
        BY <2>2, Shapes
    <2>. QED BY <2>1, <2>2, <2>3
<1>5. b.p = Len(asked[b.n])
    BY <1>2, <1>4, TokenEnds
<1>6. CASE Len(t) = 1
    <2>1. t = <<"C">>
        BY <1>6, TokenEnds
    <2>2. rolling'[s] = "C"
        BY <1>2, <1>6, <2>1
    <2>3. asked[b.n] = <<"C">>
        BY <1>4, <2>2, TokenEnds
    <2>4. \A i \in 1..Len(executed) : from[i] < b.n
        BY <1>3, Taken DEF Explains
    <2>5. b.n \in 1..b.n
        BY <1>4, Shapes
    <2>. QED BY <1>3, <1>4, <1>5, <2>1, <2>3, <2>4, <2>5
<1>7. CASE Len(t) > 1
    <2>0. s > 1 /\ 1 \in 1..(s - 1)
        BY <1>1, <1>2, <1>7
    <2>1. rolling'[s - 1] = rolling[r - 1 + 1]
        BY <2>0, Heard
    <2>2. rolling[r] \in Mid /\ rolling[r] = t[Len(t) - 1]
        BY <1>1, <1>2, <1>7, <2>1
    <2>3. r > 0
        <3>1. s = r + 1 \/ s = r
            BY Heard
        <3>. HIDE DEF s, r
        <3>. QED BY <1>1, <2>0, <3>1
    <2>4. InToken(h) /\ h.n \in 1..Len(asked) /\ h.p \in 1..Len(asked[h.n])
          /\ rolling[r] = asked[h.n][h.p]
        <3>1. IsHeard(h)
            BY DEF Origins
        <3>2. h.p \in 0..6 /\ h.p # 0
            BY <3>1, LabelsTyped DEF IsHeard, Nowhere
        <3>3. rolling # <<>>
            BY <2>3
        <3>4. h.p # 6
            BY <2>2, <3>1, <3>3 DEF IsHeard, Beyond, Mid
        <3>5. InToken(h)
            BY <3>2, <3>4 DEF InToken
        <3>6. /\ h.n \in 0..Len(asked) /\ h.n > 0 /\ h.p <= Len(asked[h.n])
              /\ rolling[r] = asked[h.n][h.p]
            BY <3>1, <3>5 DEF IsHeard
        <3>7. h.n \in 1..Len(asked)
            BY <3>6, Shapes
        <3>8. Len(asked[h.n]) \in 1..5
            BY <3>7, Shapes
        <3>9. h.p \in 1..Len(asked[h.n])
            BY <3>2, <3>6, <3>8
        <3>. QED BY <3>5, <3>6, <3>7, <3>9
    <2>5. Parse(asked[h.n]) = Parse(t)
        <3>1. asked[h.n] \in Token
            BY <2>4, Shapes
        <3>2. Parse(asked[h.n]) = Meaning(rolling[r])
            BY <2>2, <2>4, <3>1, MidTellsCommand
        <3>3. Len(t) - 1 \in 1..Len(t)
            BY <1>2, <1>7
        <3>4. Parse(t) = Meaning(rolling[r])
            BY <2>2, <3>3, MidTellsCommand
        <3>. QED BY <3>2, <3>4
    <2>6. \A i \in 1..Len(executed) : from[i] < h.n
        <3>1. asked[h.n][h.p] \notin Final
            BY <2>2, <2>4 DEF Mid, Final
        <3>. QED BY <2>4, <3>1 DEF Explains
    <2>7. h.n \in 1..b.n
        <3>1. h.n < b.n \/ h.n = b.n
            BY Taken DEF Precedes
        <3>. DEFINE hn == h.n  bn == b.n  N == Len(asked)
        <3>2. (hn < bn \/ hn = bn) /\ hn \in 1..N /\ bn \in 1..N /\ N \in Nat
            BY <1>4, <2>4, <3>1, Shapes
        <3>. HIDE DEF hn, bn, N
        <3>3. hn \in 1..bn
            BY <3>2
        <3>. QED BY <3>3 DEF hn, bn
    <2>. QED BY <1>3, <1>4, <1>5, <2>5, <2>6, <2>7
<1>8. Len(t) = 1 \/ Len(t) > 1
    <2>. DEFINE n == Len(t)
    <2>1. n \in 1..5
        BY TokenLetters
    <2>. HIDE DEF n
    <2>2. n = 1 \/ n > 1
        BY <2>1
    <2>. QED BY <2>2 DEF n
<1>. QED BY <1>6, <1>7, <1>8

LEMMA ExplainsHear ==
    ASSUME TypeOK, Work, Allowed(Head(msgq)), NEW o, NEW h, Origins(o, h),
           NEW from, Explains(from, o, h), NEW b, b = o[1], NEW q, q = Tail(o)
    PROVE  \E new : Explains(new, q, b)'
<1>. DEFINE N == Len(asked)  e == Len(executed)
<1>0. /\ from \in [1..e -> 1..N]
      /\ \A i \in 1..e :
           /\ executed[i] = Parse(asked[from[i]])
           /\ \A j \in 1..e : i < j => from[i] < from[j]
           /\ \A j \in 1..Len(msgq) : InToken(o[j]) => from[i] < o[j].n
           /\ Coming => from[i] < N
    BY DEF Explains
<1>1. UNCHANGED <<air, asked>> /\ e \in Nat /\ N \in Nat
    BY Heard, Shapes
<1>2. Coming' <=> Coming
    BY <1>1 DEF Coming
<1>3. /\ \A i \in 1..Len(msgq') :
           i + 1 \in 1..Len(msgq) /\ 1 < i + 1 /\ q[i] = o[i + 1] /\ msgq'[i] = msgq[i + 1]
      /\ 1 \in 1..Len(msgq)
    <2>1. \A i \in 1..Len(msgq') :
             i + 1 \in 1..Len(msgq) /\ 1 < i + 1 /\ q[i] = o[i + 1] /\ msgq'[i] = msgq[i + 1]
        BY Taken
    <2>. QED BY <2>1, Taken
<1>4. CASE executed' = executed
    <2>1. ASSUME NEW i \in 1..e
          PROVE  /\ \A j \in 1..Len(msgq') : InToken(q[j]) => from[i] < q[j].n
                 /\ InToken(b) /\ asked[b.n][b.p] \notin Final => from[i] < b.n
        BY <1>0, <1>3
    <2>2. Explains(from, q, b)'
        BY <1>0, <1>1, <1>2, <1>4, <2>1 DEF Explains, InToken
    <2>. QED BY <2>2
<1>5. CASE \E t \in Token : IsSuffix(t, rolling') /\ executed' = Append(executed, Parse(t))
    <2>1. PICK t \in Token : IsSuffix(t, rolling') /\ executed' = Append(executed, Parse(t))
        BY <1>5
    <2>2. InToken(b) /\ b.n \in 1..N /\ b.p = Len(asked[b.n])
        BY <2>1, FoundToken
    <2>3. PICK x \in 1..b.n : /\ Parse(asked[x]) = Parse(t)
                              /\ \A i \in 1..e : from[i] < x
        BY <2>1, FoundToken
    <2>. PICK new : new = [i \in 1..(e + 1) |-> IF i = e + 1 THEN x ELSE from[i]]
        OBVIOUS
    <2>4. /\ Len(executed') = e + 1 /\ executed'[e + 1] = Parse(t)
          /\ \A i \in 1..e : executed'[i] = executed[i]
        <3>1. executed \in Seq({Parse(u) : u \in Token})
            BY DEF TypeOK
        <3>. QED BY <2>1, <3>1
    <2>5. \A i \in 1..(e + 1) : i = e + 1 \/ (i \in 1..e /\ i # e + 1)
        BY <1>1
    <2>6. \A i \in 1..e : i # e + 1 /\ i \in 1..(e + 1) /\ new[i] = from[i]
        BY <1>1
    <2>7. e + 1 \in 1..(e + 1) /\ new[e + 1] = x
        BY <1>1
    <2>8. x \in 1..N
        BY <1>1, <2>2, <2>3
    <2>9. new \in [1..(e + 1) -> 1..N]
        BY <1>0, <2>5, <2>8
    <2>10. ASSUME NEW j \in 1..Len(msgq'), InToken(q[j]) PROVE x < q[j].n
        <3>1. Precedes(b, o[j + 1]) /\ InToken(o[j + 1]) /\ q[j] = o[j + 1]
            BY <1>3, <2>10 DEF Origins
        <3>2. /\ o[j + 1].n \in 0..N /\ o[j + 1].n > 0 /\ o[j + 1].p <= Len(asked[o[j + 1].n])
            BY <1>3, <3>1 DEF Origins, IsOrigin
        <3>3. o[j + 1].p \in 1..5 /\ b.p \in 1..5
            BY <2>2, <3>1 DEF InToken
        <3>4. b.n < o[j + 1].n \/ (b.n = o[j + 1].n /\ b.p < o[j + 1].p)
            BY <3>1 DEF Precedes
        <3>5. ~(b.n = o[j + 1].n /\ b.p < o[j + 1].p)
            <4>1. SUFFICES ASSUME b.n = o[j + 1].n, b.p < o[j + 1].p PROVE FALSE
                OBVIOUS
            <4>. DEFINE bp == b.p  op == o[j + 1].p
            <4>2. op <= bp /\ bp < op /\ bp \in 1..5 /\ op \in 1..5
                BY <2>2, <3>2, <3>3, <4>1
            <4>. HIDE DEF bp, op
            <4>. QED BY <4>2
        <3>. DEFINE bn == b.n  on == o[j + 1].n
        <3>6. bn < on /\ x \in 1..bn /\ bn \in Nat /\ on \in Nat
            BY <1>1, <2>2, <2>3, <3>2, <3>4, <3>5
        <3>. HIDE DEF bn, on
        <3>7. x < on
            BY <3>6
        <3>. QED BY <3>1, <3>7 DEF on
    <2>11. ASSUME Coming PROVE x < N
        <3>1. BeforeAir(b)
            BY Taken
        <3>2. b.n # N
            <4>1. SUFFICES ASSUME b.n = N PROVE FALSE
                OBVIOUS
            <4>. DEFINE L == Len(asked[N])  a == Len(air)
            <4>2. L <= L - a
                BY <2>2, <2>11, <3>1, <4>1 DEF BeforeAir
            <4>3. L \in 1..5 /\ a \in Nat /\ a # 0
                BY <2>2, <2>11, <4>1, Shapes DEF Coming
            <4>. HIDE DEF L, a
            <4>. QED BY <4>2, <4>3
        <3>. QED BY <1>1, <2>2, <2>3, <3>2
    <2>12. asked[b.n][b.p] \in Final
        BY <2>2, Shapes
    <2>13. ASSUME NEW i \in 1..(e + 1)
           PROVE  /\ executed'[i] = Parse(asked[new[i]])
                  /\ \A j \in 1..(e + 1) : i < j => new[i] < new[j]
                  /\ \A j \in 1..Len(msgq') : InToken(q[j]) => new[i] < q[j].n
                  /\ Coming => new[i] < N
        <3>1. CASE i = e + 1
            <4>1. \A j \in 1..(e + 1) : ~(i < j)
                BY <1>1, <3>1
            <4>. QED BY <2>3, <2>4, <2>7, <2>10, <2>11, <3>1, <4>1
        <3>2. CASE i \in 1..e
            <4>1. new[i] = from[i] /\ executed'[i] = executed[i] /\ from[i] < x
                BY <2>3, <2>4, <2>6, <3>2
            <4>2. \A j \in 1..(e + 1) : i < j => new[i] < new[j]
                BY <1>0, <2>5, <2>6, <2>7, <3>2, <4>1
            <4>3. \A j \in 1..Len(msgq') : InToken(q[j]) => new[i] < q[j].n
                BY <1>0, <1>3, <3>2, <4>1
            <4>. QED BY <1>0, <3>2, <4>1, <4>2, <4>3
        <3>. QED BY <2>5, <3>1, <3>2
    <2>14. Explains(new, q, b)'
        BY <1>1, <1>2, <2>4, <2>9, <2>12, <2>13 DEF Explains, InToken
    <2>. QED BY <2>14
<1>. QED BY <1>4, <1>5, Found

-----------------------------------------------------------------------------
(* The invariant *)

\* Every byte has an origin that accounts for what has been and will be executed.
Accounted(o, h) == Origins(o, h) /\ Whole(o, h) /\ Obeyed(h)

Traced == \E o, h : Accounted(o, h) /\ \E from : Explains(from, o, h)

LEMMA TracedInit == Init => Traced
<1>. SUFFICES ASSUME Init PROVE Traced
    OBVIOUS
<1>. DEFINE h == [n |-> 0, p |-> 6]  none == <<>>
<1>1. /\ air = none /\ msgq = none /\ rolling = none /\ executed = none /\ asked = none
    BY DEF Init
<1>2. /\ none \in Seq(Origin) /\ Len(none) = 0 /\ Len(msgq) = 0 /\ Len(asked) = 0
      /\ Len(executed) = 0
    BY <1>1
<1>3. h \in Origin /\ h.n = 0 /\ h.p = 6 /\ ~InToken(h)
    BY DEF Origin, InToken, Nowhere, Beyond
<1>4. ~Coming
    BY <1>1 DEF Coming
<1>5. \A i : i \notin 1..0
    OBVIOUS
<1>6. IsHeard(h)
    BY <1>1, <1>2, <1>3 DEF IsHeard, Nowhere
<1>. HIDE DEF h, none
<1>7. Origins(none, h)
    BY <1>1, <1>2, <1>3, <1>4, <1>5, <1>6 DEF Origins, AirIsWord, BeforeAir
<1>8. Whole(none, h)
    BY <1>2, <1>3, <1>5 DEF Whole
<1>9. Obeyed(h)
    <2>1. Done(h) = 0
        BY <1>3 DEF Done
    <2>2. [i \in 1..0 |-> Parse(asked[i])] = <<>>
        OBVIOUS
    <2>3. executed = [i \in 1..Done(h) |-> Parse(asked[i])]
        BY <1>1, <2>1, <2>2 DEF none
    <2>4. asked = <<>>
        BY <1>1 DEF none
    <2>. QED BY <2>3, <2>4 DEF Obeyed
<1>10. Explains([i \in 1..Len(executed) |-> 1], none, h)
    BY <1>2, <1>5 DEF Explains
<1>. QED BY <1>7, <1>8, <1>9, <1>10 DEF Traced, Accounted

LEMMA TracedNext == TypeOK /\ Traced /\ [Next]_vars => Traced'
<1>. SUFFICES ASSUME TypeOK, Traced, [Next]_vars PROVE Traced'
    OBVIOUS
<1>1. PICK o, h : Accounted(o, h) /\ \E from : Explains(from, o, h)
    BY DEF Traced
<1>2. PICK from : Explains(from, o, h)
    BY <1>1
<1>3. Origins(o, h) /\ Whole(o, h) /\ Obeyed(h)
    BY <1>1 DEF Accounted
<1>4. ASSUME NEW w \in Words, Send(w) PROVE Traced'
    <2>1. Origins(o, h)' /\ Whole(o, h)'
        BY <1>3, <1>4, OriginsSend, WholeSend
    <2>2. Obeyed(h)' /\ Explains(from, o, h)'
        BY <1>2, <1>3, <1>4, ObeyedSend, ExplainsSend
    <2>. QED BY <2>1, <2>2 DEF Traced, Accounted
<1>5. CASE Receive
    <2>1. PICK l, q : l = Next1 /\ q = Labelled(o, l)
        OBVIOUS
    <2>2. Origins(q, h)' /\ Whole(q, h)'
        BY <1>3, <1>5, <2>1, OriginsReceive, WholeReceive
    <2>3. Obeyed(h)' /\ Explains(from, q, h)'
        BY <1>2, <1>3, <1>5, <2>1, ObeyedReceive, ExplainsReceive
    <2>. QED BY <2>2, <2>3 DEF Traced, Accounted
<1>6. ASSUME NEW c \in Noise, ReceiveNoise(c) PROVE Traced'
    <2>1. PICK l, q : l = [n |-> Len(asked), p |-> Nowhere] /\ q = Labelled(o, l)
        OBVIOUS
    <2>2. Origins(q, h)' /\ Whole(q, h)' /\ Obeyed(h)' /\ Explains(from, q, h)'
        BY <1>2, <1>3, <1>6, <2>1, NoiseStep
    <2>. QED BY <2>2 DEF Traced, Accounted
<1>7. CASE Work
    <2>1. PICK b, q : b = o[1] /\ q = Tail(o)
        OBVIOUS
    <2>2. CASE Allowed(Head(msgq))
        <3>1. Origins(q, b)' /\ Whole(q, b)' /\ Obeyed(b)'
            BY <1>3, <1>7, <2>1, <2>2, OriginsHear, WholeHear, ObeyedHear
        <3>2. PICK new : Explains(new, q, b)'
            BY <1>2, <1>3, <1>7, <2>1, <2>2, ExplainsHear
        <3>. QED BY <3>1, <3>2 DEF Traced, Accounted
    <2>3. CASE ~Allowed(Head(msgq))
        <3>1. Origins(q, h)' /\ Whole(q, h)' /\ Obeyed(h)' /\ Explains(from, q, h)'
            BY <1>2, <1>3, <1>7, <2>1, <2>3, Skipped
        <3>. QED BY <3>1 DEF Traced, Accounted
    <2>. QED BY <2>2, <2>3
<1>8. CASE UNCHANGED vars
    <2>1. Origins(o, h)' /\ Whole(o, h)' /\ Obeyed(h)' /\ Explains(from, o, h)'
        BY <1>2, <1>3, <1>8
           DEF vars, Origins, Whole, Obeyed, Explains, AirIsWord, Coming, IsOrigin, IsHeard,
               Precedes, BeforeAir, InToken, Allowed, Through, Behind, Done
    <2>. QED BY <2>1 DEF Traced, Accounted
<1>. QED BY <1>4, <1>5, <1>6, <1>7, <1>8 DEF Next

\* At rest the last byte heard is the end of all there was.
LEMMA AllHeard ==
    ASSUME TypeOK, Idle, NEW o, NEW h, Origins(o, h), Whole(o, h), asked # <<>>,
           Through(Len(asked))
    PROVE  h.n = Len(asked) /\ h.p >= Len(asked[Len(asked)])
<1>. DEFINE N == Len(asked)  L == Len(asked[N])
<1>1. N \in 1..N /\ N \in Nat /\ L \in 1..5 /\ h.n \in 0..N /\ h.p \in 0..6
    <2>1. N \in Nat /\ N # 0 /\ h.n \in 0..N /\ h.p \in 0..6
        BY Shapes, LabelsTyped DEF Label
    <2>2. N \in 1..N
        BY <2>1
    <2>. QED BY <2>1, <2>2, Shapes
<1>2. ~Coming /\ \A i : i \notin 1..Len(msgq)
    <2>1. air = <<>> /\ msgq = <<>>
        BY DEF Idle
    <2>2. Len(msgq) = 0
        BY <2>1
    <2>. QED BY <2>1, <2>2 DEF Coming
<1>3. L \in 1..L
    <2>. HIDE DEF L
    <2>. QED BY <1>1
<1>4. N < h.n \/ (N = h.n /\ L <= h.p)
    BY <1>1, <1>2, <1>3 DEF Whole, Behind
<1>. DEFINE hn == h.n  hp == h.p
<1>5. hn = N /\ hp >= L
    <2>1. (N < hn \/ (N = hn /\ L <= hp)) /\ hn \in 0..N /\ hp \in 0..6 /\ L \in 1..5 /\ N \in Nat
        BY <1>1, <1>4
    <2>. HIDE DEF hn, hp, N, L
    <2>. QED BY <2>1
<1>. QED BY <1>5

LEMMA WordsOnce == TypeOK /\ Traced => WordsExecuteOnce
<1>. SUFFICES ASSUME TypeOK, Traced, Idle, ~dropped
              PROVE  executed = [i \in DOMAIN asked |-> Parse(asked[i])]
    BY DEF WordsExecuteOnce
<1>1. PICK o, h : Origins(o, h) /\ Whole(o, h) /\ Obeyed(h)
    BY DEF Traced, Accounted
<1>2. Len(asked) \in Nat /\ DOMAIN asked = 1..Len(asked) /\ h.n \in 0..Len(asked)
      /\ (asked = <<>> <=> Len(asked) = 0)
    BY <1>1, Shapes, LabelsTyped DEF Label
<1>3. Done(h) = Len(asked)
    <2>1. CASE asked = <<>>
        BY <1>2, <2>1 DEF Done
    <2>2. CASE asked # <<>>
        <3>1. h.n = Len(asked) /\ h.p >= Len(asked[Len(asked)])
            BY <1>1, <2>2, AllHeard DEF Through
        <3>. QED BY <3>1 DEF Done
    <2>. QED BY <2>1, <2>2
<1>4. executed = [i \in 1..Done(h) |-> Parse(asked[i])]
    BY <1>1 DEF Obeyed
<1>. QED BY <1>2, <1>3, <1>4

LEMMA LastWord == TypeOK /\ Traced => LastWordWins
<1>. SUFFICES ASSUME TypeOK, Traced, Idle, ~cut, asked # <<>>
              PROVE  executed # <<>> /\ Last(executed) = Parse(Last(asked))
    BY DEF LastWordWins
<1>1. PICK o, h : Origins(o, h) /\ Whole(o, h) /\ Obeyed(h)
    BY DEF Traced, Accounted
<1>2. h.n = Len(asked) /\ h.p >= Len(asked[Len(asked)])
    BY <1>1, AllHeard DEF Through
<1>3. executed # <<>> /\ executed[Len(executed)] = Parse(asked[h.n])
    BY <1>1, <1>2 DEF Obeyed
<1>. QED BY <1>2, <1>3 DEF Last

LEMMA OnlySent == TypeOK /\ Traced => ExecutesOnlyWhatWasSent
<1>. SUFFICES ASSUME TypeOK, Traced PROVE ExecutesOnlyWhatWasSent
    OBVIOUS
<1>1. PICK o, h : \E from : Explains(from, o, h)
    BY DEF Traced
<1>2. PICK from : Explains(from, o, h)
    BY <1>1
<1>3. DOMAIN executed = 1..Len(executed) /\ DOMAIN asked = 1..Len(asked)
    BY DEF TypeOK
<1>4. /\ from \in [DOMAIN executed -> DOMAIN asked]
      /\ \A i \in DOMAIN executed : executed[i] = Parse(asked[from[i]])
      /\ \A i, j \in DOMAIN executed : i < j => from[i] < from[j]
    BY <1>2, <1>3 DEF Explains
<1>. QED BY <1>4 DEF ExecutesOnlyWhatWasSent

\* As long as nothing is lost, the stream without delimiters is read as it was sent:
\* every token is executed once, in order, whatever noise and "D" come in between.
THEOREM WordsOnceCorrect == Spec => []WordsExecuteOnce
<1>1. Spec => [](TypeOK /\ Traced)
    BY BtTypeInit, BtTypeNext, TracedInit, TracedNext, PTL DEF Spec
<1>. QED BY <1>1, WordsOnce, PTL

\* Whatever is lost, no command is executed that was not sent, none twice, and none
\* out of order, not even from what remains of two words.
THEOREM OnlySentCorrect == Spec => []ExecutesOnlyWhatWasSent
<1>1. Spec => [](TypeOK /\ Traced)
    BY BtTypeInit, BtTypeNext, TracedInit, TracedNext, PTL DEF Spec
<1>. QED BY <1>1, OnlySent, PTL

\* Whatever was lost before, a token that comes through is the last one executed.
THEOREM LastWordCorrect == Spec => []LastWordWins
<1>1. Spec => [](TypeOK /\ Traced)
    BY BtTypeInit, BtTypeNext, TracedInit, TracedNext, PTL DEF Spec
<1>. QED BY <1>1, LastWord, PTL

=============================================================================
