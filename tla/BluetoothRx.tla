---------------------------- MODULE BluetoothRx ----------------------------
(***************************************************************************)
(* bluetooth_rx.c with vehicle_command_parser.c: the bytes of an HC-05       *)
(* module on a UART, an interrupt handler that queues them, and a thread     *)
(* that finds command words in the stream and submits them.  The stream has  *)
(* no delimiters, and a byte that finds the queue full is lost.              *)
(***************************************************************************)
EXTENDS Integers, Sequences, SequencesExt

CONSTANTS
    Words,          \* what the remote control may send, byte by byte
    Noise,          \* the bytes the line itself may produce
    QueueSize,      \* BT_RX_MSGQ_SIZE
    BufSize,        \* BT_ROLLING_BUF_SIZE, with the terminating zero
    MaxWords,       \* bound on the words sent
    MaxNoise        \* bound on the noise

\* Capital letters of the vocabulary by their small ones.
Capital == [c |-> "C", d |-> "D", e |-> "E", f |-> "F", g |-> "G", h |-> "H",
            i |-> "I", l |-> "L", n |-> "N", o |-> "O", p |-> "P", r |-> "R",
            t |-> "T", u |-> "U", w |-> "W"]

Letter == {Capital[l] : l \in DOMAIN Capital}
Byte   == DOMAIN Capital \cup Letter

\* bt_is_allowed_char, for the bytes that occur here.
Allowed(c) == c \in Byte

ToUpper(c) == IF c \in DOMAIN Capital THEN Capital[c] ELSE c

Capitals(word) == [i \in DOMAIN word |-> ToUpper(word[i])]

\* The words detect_command_from_stream looks for.
Token == {<<"U", "P">>,
          <<"D", "W", "N">>, <<"D", "O", "W", "N">>,
          <<"L", "F", "T">>, <<"L", "E", "F", "T">>,
          <<"R", "G", "T">>, <<"R", "I", "G", "H", "T">>,
          <<"C">>}

\* The remote control knows these words and one more, "D", whose detection is
\* commented out.
ASSUME WordAssumption ==
    /\ \A w \in Words : w \in Seq(Byte) /\ Capitals(w) \in Token \cup {<<"D">>}
    /\ \A b \in Noise : ~Allowed(b)
ASSUME SizeAssumption ==
    /\ QueueSize \in Nat \ {0}
    /\ BufSize \in Nat /\ \A t \in Token : Len(t) < BufSize
    /\ {MaxWords, MaxNoise} \subseteq Nat

VARIABLES
    air,        \* bytes of the word being sent that have not arrived yet
    msgq,       \* bt_rx_msgq
    rolling,    \* rolling_buf
    executed,   \* the commands submitted to the control manager
    \* history and environment
    asked,      \* the tokens the remote control has sent, in capitals
    words,      \* the number of words it has sent, "D" included
    noise,      \* the number of noise bytes so far
    dropped,    \* whether a byte has ever been lost
    cut         \* whether one has since the last token began

vars == <<air, msgq, rolling, executed, asked, words, noise, dropped, cut>>

Init ==
    /\ air = <<>> /\ msgq = <<>> /\ rolling = <<>> /\ executed = <<>>
    /\ asked = <<>> /\ words = 0 /\ noise = 0 /\ dropped = FALSE /\ cut = FALSE
-----------------------------------------------------------------------------
\* The remote control starts its next word when the last one has arrived.
Send(word) ==
    /\ air = <<>> /\ words < MaxWords
    /\ air' = word /\ words' = words + 1
    /\ IF Capitals(word) \in Token
       THEN asked' = Append(asked, Capitals(word)) /\ cut' = FALSE
       ELSE UNCHANGED <<asked, cut>>
    /\ UNCHANGED <<msgq, rolling, executed, noise, dropped>>

\* k_msgq_put with K_NO_WAIT, its result ignored.
Put(c) == msgq' = IF Len(msgq) < QueueSize THEN Append(msgq, c) ELSE msgq

\* The interrupt handler queues a byte of a word ...
Receive ==
    /\ air # <<>> /\ Put(Head(air)) /\ air' = Tail(air)
    /\ dropped' = (dropped \/ Len(msgq) = QueueSize)
    /\ cut' = (cut \/ Len(msgq) = QueueSize)
    /\ UNCHANGED <<rolling, executed, asked, words, noise>>

\* ... or one nobody sent.
ReceiveNoise(c) ==
    /\ noise < MaxNoise /\ noise' = noise + 1
    /\ Put(c)
    /\ UNCHANGED <<air, rolling, executed, asked, words, dropped, cut>>

\* Mutant: the buffer grows by one byte too many before it shifts.
ShiftAppendOverlong(buf, c) ==
    IF Len(buf) >= BufSize THEN Append(Tail(buf), c) ELSE Append(buf, c)

\* Mutant: a full buffer takes nothing more.
ShiftAppendStuck(buf, c) == IF Len(buf) >= BufSize - 1 THEN buf ELSE Append(buf, c)

ShiftAppendChar(buf, c) ==
    IF Len(buf) >= BufSize - 1 THEN Append(Tail(buf), c) ELSE Append(buf, c)

\* Mutant: a token anywhere in the buffer counts.
DetectedAnywhere(buf) ==
    {t \in Token : t \in SubSeqs(buf)}

\* Mutant: the whole buffer is compared with the tokens.
DetectedWhole(buf) == {t \in Token : t = buf}

\* The token the buffer ends with.  No token ends in another one, so the order
\* of the tests makes no difference.
Detected(buf) == {t \in Token : IsSuffix(t, buf)}

Command(type, linear, angular) ==
    [command_type |-> type, linear_x |-> linear, angular_z |-> angular,
     speed_limit_pct |-> 40, ttl_ms |-> 400]

\* vehicle_parse_ascii_command, for the tokens the stream search hands it.
Parse(token) ==
    CASE token = <<"U", "P">> -> Command("MOTION", 1000, 0)
      [] token \in {<<"D", "W", "N">>, <<"D", "O", "W", "N">>}
            -> Command("MOTION", -1000, 0)
      [] token \in {<<"L", "F", "T">>, <<"L", "E", "F", "T">>}
            -> Command("MOTION", 0, 1000)
      [] token \in {<<"R", "G", "T">>, <<"R", "I", "G", "H", "T">>}
            -> Command("MOTION", 0, -1000)
      [] token = <<"C">> -> Command("STOP", 0, 0)

\* The worker thread takes one byte: skipped, or appended and, when it ends a
\* word, executed.
Work ==
    /\ msgq # <<>> /\ msgq' = Tail(msgq)
    /\ IF Allowed(Head(msgq))
       THEN LET buf == ShiftAppendChar(rolling, ToUpper(Head(msgq)))
            IN  /\ rolling' = buf
                /\ IF Detected(buf) = {} THEN UNCHANGED executed
                   ELSE \E t \in Detected(buf) : executed' = Append(executed, Parse(t))
       ELSE UNCHANGED <<rolling, executed>>
    /\ UNCHANGED <<air, asked, words, noise, dropped, cut>>

Next ==
    \/ \E w \in Words : Send(w)
    \/ Receive
    \/ \E c \in Noise : ReceiveNoise(c)
    \/ Work

Spec == Init /\ [][Next]_vars
-----------------------------------------------------------------------------
TypeOK ==
    /\ air \in Seq(Byte)
    /\ msgq \in Seq(Byte \cup Noise) /\ Len(msgq) <= QueueSize
    /\ rolling \in Seq(Letter) /\ Len(rolling) < BufSize
    /\ asked \in Seq(Token)
    /\ executed \in Seq({Parse(t) : t \in Token})
    /\ words \in 0..MaxWords /\ noise \in 0..MaxNoise
    /\ dropped \in BOOLEAN /\ cut \in BOOLEAN /\ (cut => dropped)

Idle == air = <<>> /\ msgq = <<>>

\* As long as the queue has room for every byte, each token is executed exactly
\* once and in the order of sending, whatever garbage comes in between and
\* though nothing ever empties the buffer or marks the end of a word.
WordsExecuteOnce ==
    Idle /\ ~dropped => executed = [i \in DOMAIN asked |-> Parse(asked[i])]

\* Bytes that find the queue full may cost a command, but never turn one into
\* another, repeat one, or make one up from the remains of two words: what is
\* executed is always part of what was sent, in that order.
ExecutesOnlyWhatWasSent ==
    \E from \in [DOMAIN executed -> DOMAIN asked] :
        /\ \A i \in DOMAIN executed : executed[i] = Parse(asked[from[i]])
        /\ \A i, j \in DOMAIN executed : i < j => from[i] < from[j]

\* The search recovers by itself: once the bytes of a token have all come
\* through, its command is the last one executed, whatever was lost before and
\* whatever else ("D", noise) comes after it.
LastWordWins ==
    Idle /\ ~cut /\ asked # <<>> =>
        executed # <<>> /\ Last(executed) = Parse(Last(asked))
=============================================================================
