------------------------- MODULE MotorDriverProofs -------------------------
(***************************************************************************)
(* Theorems about MotorDriver, for any number of motors, wired either way    *)
(* round, any percentages asked for and any failures: pins that switch at    *)
(* rest, reversals after a rest, beliefs that are true of what is powered,   *)
(* and what a call has done when it returns.                                 *)
(***************************************************************************)
EXTENDS MotorDriver, TLAPS

Kinds == {"ready", "configure", "pwm", "in1", "in2", "deadtime", "commit"}
OpType == [kind : Kinds, motor : Motor, arg : Int]
Names == {"none", "init", "set_left_right", "stop_all"}

This == MotorOrder[at]
Aim == Requested(This)

Types ==
    /\ TypeOK
    /\ call \in [name : Names, left : Int, right : Int]

(* What is left to do on a motor, from its last operation to its first *)

Pin1(n, pct) == IF Turn(n, pct) > 0 THEN 1 ELSE 0
Pin2(n, pct) == IF Turn(n, pct) < 0 THEN 1 ELSE 0

\* Concatenation, under a name of its own that the provers leave alone.
Cat(r, s) == r \o s

Last(n, pct) == <<Op("commit", n, pct)>>
FromPower(n, pct) == IF pct = 0 THEN Last(n, 0)
                     ELSE Cat(<<Op("pwm", n, Magnitude(pct))>>, Last(n, pct))
FromIn2(n, pct) == Cat(<<Op("in2", n, Pin2(n, pct))>>, FromPower(n, pct))
FromIn1(n, pct) == Cat(<<Op("in1", n, Pin1(n, pct))>>, FromIn2(n, pct))
FromOff(n, pct) == Cat(<<Op("pwm", n, 0)>>, FromIn1(n, pct))
FromRest(n, pct) == Cat(<<Op("deadtime", n, 0)>>, FromOff(n, pct))
FromReversal(n, pct) == Cat(<<Op("pwm", n, 0)>>, FromRest(n, pct))
FromConfigure2(n) == Cat(<<Op("configure", n, 2)>>, FromOff(n, 0))
FromConfigure1(n) == Cat(<<Op("configure", n, 1)>>, FromConfigure2(n))
FromReady(n) == Cat(<<Op("ready", n, 0)>>, FromConfigure1(n))

\* The motor at work is as it was, or off; and has not driven the other way.
Untouched(n) == Drive(n) = before[n] /\ (drove[n] = 0 \/ drove[n] = Sign(current_pct[n]))
Off(n) == duty[n] = 0
MayDrive(n, pct) == ~DifferentNonzeroDirection(drove[n], pct)
Pin1Set(n, pct) == in1[n] = IF <<n, 1>> \in configured THEN Pin1(n, pct) ELSE 0
Pin2Set(n, pct) == in2[n] = IF <<n, 2>> \in configured THEN Pin2(n, pct) ELSE 0
Idle(n) == n \notin Wired /\ Drive(n) = 0

Stage ==
    \/ todo = <<>>
    \/ /\ call.name = "init"
       /\ todo \in {FromReady(This), FromConfigure1(This), FromConfigure2(This)}
    \/ /\ todo = FromReversal(This, Aim) /\ Untouched(This)
       /\ DifferentNonzeroDirection(current_pct[This], Aim)
    \/ todo = FromRest(This, Aim) /\ Off(This)
    \/ todo = FromOff(This, Aim) /\ (Untouched(This) \/ Off(This)) /\ MayDrive(This, Aim)
    \/ todo = FromIn1(This, Aim) /\ Off(This) /\ MayDrive(This, Aim)
    \/ todo = FromIn2(This, Aim) /\ Off(This) /\ MayDrive(This, Aim) /\ Pin1Set(This, Aim)
    \/ /\ todo = FromPower(This, Aim) /\ Off(This) /\ MayDrive(This, Aim)
       /\ Pin1Set(This, Aim) /\ Pin2Set(This, Aim)
    \/ /\ todo = Last(This, Aim) /\ duty[This] = Magnitude(Aim)
       /\ Drive(This) = Aim \/ Idle(This)

Settled(n) == duty[n] > 0 => Drive(n) = current_pct[n] \/ Idle(n)

Hardware ==
    /\ \A n \in Motor : /\ <<n, 1>> \notin configured => in1[n] = 0
                        /\ <<n, 2>> \notin configured => in2[n] = 0
    /\ \A n \in Motor : n # This \/ ~NextIs("commit") => Settled(n)
    /\ \A n \in Motor : duty[n] > 0 => ~DifferentNonzeroDirection(drove[n], Drive(n))
    /\ \A i \in DOMAIN MotorOrder : i > at /\ todo # <<>> => Untouched(MotorOrder[i])
    /\ call.name \in {"none", "init"} => \A n \in Motor : duty[n] = 0
    /\ call.name # "set_left_right" => call.left = 0 /\ call.right = 0
    /\ call.name = "none" => todo = <<>>

Served(n) == n \in Wired => Drive(n) = Requested(n)

Progress ==
    /\ ~failed \/ call.name = "set_left_right" =>
          \A i \in DOMAIN MotorOrder : i < at => Served(MotorOrder[i])
    /\ todo = <<>> /\ ~failed /\ call.name # "none" => at = Len(MotorOrder) /\ Served(This)
    /\ failed /\ todo # <<>> => call.name = "stop_all"
    /\ todo = <<>> /\ failed /\ call.name = "set_left_right" =>
          /\ This \in Wired => Drive(This) \in {before[This], 0}
          /\ \A i \in DOMAIN MotorOrder : i > at =>
                Drive(MotorOrder[i]) = before[MotorOrder[i]]

IInv == Types /\ Stage /\ Hardware /\ Progress

-----------------------------------------------------------------------------
(* The lists *)

LEMMA Closed == \A r, s \in Seq(OpType) : Cat(r, s) \in Seq(OpType) /\ Cat(<<>>, r) = r
<1>. DEFINE S == OpType
<1>. HIDE DEF S
<1>1. \A r, s \in Seq(S) : r \o s \in Seq(S) /\ <<>> \o r = r
    OBVIOUS
<1>. QED BY <1>1 DEF S, Cat

LEMMA Associative == \A r, s, t \in Seq(OpType) : Cat(Cat(r, s), t) = Cat(r, Cat(s, t))
<1>. DEFINE S == OpType
<1>. SUFFICES ASSUME NEW r \in Seq(S), NEW s \in Seq(S), NEW t \in Seq(S)
              PROVE  (r \o s) \o t = r \o (s \o t)
    BY DEF Cat
<1>. HIDE DEF S
<1>. DEFINE u == (r \o s) \o t  v == r \o (s \o t)
<1>1. /\ u \in Seq(S) /\ v \in Seq(S) /\ Len(u) = Len(r) + Len(s) + Len(t)
      /\ Len(v) = Len(r) + Len(s) + Len(t)
    OBVIOUS
<1>2. ASSUME NEW i \in 1..Len(u) PROVE u[i] = v[i]
    BY <1>1, <1>2
<1>. HIDE DEF u, v
<1>. QED BY <1>1, <1>2

LEMMA Pair ==
    ASSUME NEW S, NEW a \in S, NEW b \in S
    PROVE  <<a, b>> = <<a>> \o <<b>> /\ <<a>> \in Seq(S) /\ <<b>> \in Seq(S)
<1>. DEFINE u == <<a, b>>  v == <<a>> \o <<b>>
<1>1. <<a>> \in Seq(S) /\ <<b>> \in Seq(S) /\ Len(<<a>>) = 1 /\ Len(<<b>>) = 1
      /\ <<a>>[1] = a /\ <<b>>[1] = b
    OBVIOUS
<1>2. u \in Seq(S) /\ Len(u) = 2 /\ u[1] = a /\ u[2] = b
    OBVIOUS
<1>3. v \in Seq(S) /\ Len(v) = 2
    BY <1>1
<1>4. v[1] = a /\ v[2] = b
    BY <1>1
<1>. HIDE DEF u, v
<1>5. \A i \in 1..2 : u[i] = v[i]
    <2>1. \A i \in 1..2 : i = 1 \/ i = 2
        OBVIOUS
    <2>. QED BY <1>2, <1>4, <2>1
<1>6. u = v
    BY <1>2, <1>3, <1>5
<1>. QED BY <1>1, <1>6 DEF u, v

LEMMA NonEmpty == ASSUME NEW S, NEW s \in Seq(S), s # <<>> PROVE Len(s) > 0
<1>1. Len(s) \in Nat /\ DOMAIN s = 1..Len(s)
    OBVIOUS
<1>2. ASSUME Len(s) = 0 PROVE FALSE
    <2>1. s = <<>>
        BY <1>2
    <2>. QED BY <2>1
<1>. QED BY <1>1, <1>2

LEMMA Triple ==
    ASSUME NEW S, NEW a \in S, NEW b \in S, NEW c \in S
    PROVE  <<a, b, c>> = (<<a>> \o <<b>>) \o <<c>>
<1>. DEFINE u == <<a, b, c>>  v == (<<a>> \o <<b>>) \o <<c>>
<1>1. u \in Seq(S) /\ Len(u) = 3 /\ u[1] = a /\ u[2] = b /\ u[3] = c
    OBVIOUS
<1>2. v \in Seq(S) /\ Len(v) = 3 /\ v[1] = a /\ v[2] = b /\ v[3] = c
    OBVIOUS
<1>. HIDE DEF u, v
<1>3. \A i \in 1..3 : u[i] = v[i]
    <2>1. \A i \in 1..3 : i = 1 \/ i = 2 \/ i = 3
        OBVIOUS
    <2>. QED BY <1>1, <1>2, <2>1
<1>4. u = v
    BY <1>1, <1>2, <1>3
<1>. QED BY <1>4 DEF u, v

LEMMA Cons ==
    ASSUME NEW S, NEW a \in S, NEW s \in Seq(S)
    PROVE  /\ <<a>> \o s \in Seq(S) /\ <<a>> \o s # <<>>
           /\ Head(<<a>> \o s) = a /\ Tail(<<a>> \o s) = s
<1>1. <<a>> \in Seq(S) /\ Len(<<a>>) = 1 /\ <<a>>[1] = a
    OBVIOUS
<1>2. <<a>> \o s \in Seq(S) /\ Len(<<a>> \o s) = 1 + Len(s)
    BY <1>1
<1>3. (<<a>> \o s)[1] = a
    BY <1>1
<1>4. Tail(<<a>> \o s) = s
    <2>. DEFINE t == <<a>> \o s
    <2>1. t \in Seq(S) /\ Len(t) = 1 + Len(s) /\ Len(s) \in Nat
        BY <1>2
    <2>2. \A i \in 1..Len(s) : t[i + 1] = s[i]
        BY <1>1
    <2>. HIDE DEF t
    <2>3. Len(Tail(t)) = Len(s) /\ Tail(t) \in Seq(S)
        BY <2>1
    <2>4. \A i \in 1..Len(s) : Tail(t)[i] = s[i]
        BY <2>1, <2>2, <2>3
    <2>. QED BY <2>3, <2>4 DEF t
<1>. QED BY <1>2, <1>3, <1>4

LEMMA OpIn == ASSUME NEW k \in Kinds, NEW n \in Motor, NEW a \in Int
              PROVE  /\ Op(k, n, a) \in OpType /\ Op(k, n, a).kind = k
                     /\ Op(k, n, a).motor = n /\ Op(k, n, a).arg = a
BY DEF Op, OpType

LEMMA ZeroPct == 0 \in -100..100
OBVIOUS

LEMMA Single == ASSUME NEW k \in Kinds, NEW n \in Motor, NEW a \in Int
                PROVE  <<Op(k, n, a)>> \in Seq(OpType)
BY OpIn

LEMMA PinsIn ==
    ASSUME NEW n \in Motor, NEW pct \in -100..100
    PROVE  /\ Pin1(n, pct) \in 0..1 /\ Pin2(n, pct) \in 0..1
           /\ pct = 0 => Pin1(n, pct) = 0 /\ Pin2(n, pct) = 0
           /\ pct # 0 => Pin1(n, pct) - Pin2(n, pct) =
                            IF n \in Inverted THEN -Sign(pct) ELSE Sign(pct)
<1>1. CASE n \in Inverted
    BY <1>1 DEF Pin1, Pin2, Turn, Sign
<1>2. CASE n \notin Inverted
    BY <1>2 DEF Pin1, Pin2, Turn, Sign
<1>. QED BY <1>1, <1>2

LEMMA PinsAre ==
    ASSUME NEW n \in Motor, NEW pct \in -100..100
    PROVE  DirectionPins(n, pct)
              = Cat(<<Op("in1", n, Pin1(n, pct))>>, <<Op("in2", n, Pin2(n, pct))>>)
<1>. DEFINE a == Op("in1", n, Pin1(n, pct))  b == Op("in2", n, Pin2(n, pct))
<1>1. a \in OpType /\ b \in OpType
    <2>1. Pin1(n, pct) \in 0..1 /\ Pin2(n, pct) \in 0..1
        BY PinsIn, Zenon
    <2>2. Pin1(n, pct) \in Int /\ Pin2(n, pct) \in Int
        BY <2>1
    <2>. QED BY <2>2, OpIn DEF Kinds
<1>2. DirectionPins(n, pct) = <<a, b>>
    BY DEF DirectionPins, Pin1, Pin2
<1>. HIDE DEF a, b
<1>3. DirectionPins(n, pct) = Cat(<<a>>, <<b>>)
    BY <1>1, <1>2, Pair DEF Cat
<1>. QED BY <1>3 DEF a, b

\* The first operation of each list, and what is left after it.
Starts(s, k, n, a, t) == s # <<>> /\ Head(s) = Op(k, n, a) /\ Tail(s) = t

LEMMA StartsWith ==
    ASSUME NEW k \in Kinds, NEW n \in Motor, NEW a \in Int, NEW t \in Seq(OpType)
    PROVE  /\ Cat(<<Op(k, n, a)>>, t) \in Seq(OpType)
           /\ Starts(Cat(<<Op(k, n, a)>>, t), k, n, a, t)
BY OpIn, Cons DEF Starts, Cat

LEMMA Lists ==
    ASSUME NEW n \in Motor, NEW pct \in -100..100
    PROVE  /\ Starts(Last(n, pct), "commit", n, pct, <<>>)
           /\ pct # 0 => Starts(FromPower(n, pct), "pwm", n, Magnitude(pct), Last(n, pct))
           /\ pct = 0 => FromPower(n, pct) = Last(n, pct)
           /\ Starts(FromIn2(n, pct), "in2", n, Pin2(n, pct), FromPower(n, pct))
           /\ Starts(FromIn1(n, pct), "in1", n, Pin1(n, pct), FromIn2(n, pct))
           /\ Starts(FromOff(n, pct), "pwm", n, 0, FromIn1(n, pct))
           /\ Starts(FromRest(n, pct), "deadtime", n, 0, FromOff(n, pct))
           /\ Starts(FromReversal(n, pct), "pwm", n, 0, FromRest(n, pct))
           /\ FromOff(n, pct) \in Seq(OpType) /\ FromPower(n, pct) \in Seq(OpType)
<1>0. /\ 0 \in Int /\ pct \in Int /\ Pin1(n, pct) \in Int /\ Pin2(n, pct) \in Int
      /\ Magnitude(pct) \in Int
    <2>1. Pin1(n, pct) \in 0..1 /\ Pin2(n, pct) \in 0..1
        BY PinsIn
    <2>. QED BY <2>1 DEF Magnitude
<1>1. Last(n, pct) \in Seq(OpType) /\ Starts(Last(n, pct), "commit", n, pct, <<>>)
    <2>1. Op("commit", n, pct) \in OpType
        BY OpIn, <1>0 DEF Kinds
    <2>. QED BY <2>1 DEF Last, Starts
<1>2. /\ FromPower(n, pct) \in Seq(OpType)
      /\ pct # 0 => Starts(FromPower(n, pct), "pwm", n, Magnitude(pct), Last(n, pct))
    <2>1. CASE pct = 0
        BY <1>1, <2>1 DEF FromPower
    <2>2. CASE pct # 0
        BY <1>0, <1>1, <2>2, StartsWith DEF FromPower, Kinds
    <2>. QED BY <2>1, <2>2
<1>3. /\ FromIn2(n, pct) \in Seq(OpType)
      /\ Starts(FromIn2(n, pct), "in2", n, Pin2(n, pct), FromPower(n, pct))
    BY <1>0, <1>2, StartsWith DEF FromIn2, Kinds
<1>4. /\ FromIn1(n, pct) \in Seq(OpType)
      /\ Starts(FromIn1(n, pct), "in1", n, Pin1(n, pct), FromIn2(n, pct))
    BY <1>0, <1>3, StartsWith DEF FromIn1, Kinds
<1>5. /\ FromOff(n, pct) \in Seq(OpType)
      /\ Starts(FromOff(n, pct), "pwm", n, 0, FromIn1(n, pct))
    BY <1>0, <1>4, StartsWith DEF FromOff, Kinds
<1>6. /\ FromRest(n, pct) \in Seq(OpType)
      /\ Starts(FromRest(n, pct), "deadtime", n, 0, FromOff(n, pct))
    BY <1>0, <1>5, StartsWith DEF FromRest, Kinds
<1>7. Starts(FromReversal(n, pct), "pwm", n, 0, FromRest(n, pct))
    BY <1>0, <1>6, StartsWith DEF FromReversal, Kinds
<1>. QED BY <1>1, <1>2, <1>3, <1>4, <1>5, <1>6, <1>7 DEF FromPower

LEMMA InitLists ==
    ASSUME NEW n \in Motor
    PROVE  /\ Starts(FromReady(n), "ready", n, 0, FromConfigure1(n))
           /\ Starts(FromConfigure1(n), "configure", n, 1, FromConfigure2(n))
           /\ Starts(FromConfigure2(n), "configure", n, 2, FromOff(n, 0))
<1>0. FromOff(n, 0) \in Seq(OpType)
    <2>1. 0 \in -100..100
        OBVIOUS
    <2>. QED BY <2>1, Lists, Zenon
<1>1. /\ FromConfigure2(n) \in Seq(OpType)
      /\ Starts(FromConfigure2(n), "configure", n, 2, FromOff(n, 0))
    BY <1>0, StartsWith DEF FromConfigure2, Kinds
<1>2. /\ FromConfigure1(n) \in Seq(OpType)
      /\ Starts(FromConfigure1(n), "configure", n, 1, FromConfigure2(n))
    BY <1>1, StartsWith DEF FromConfigure1, Kinds
<1>3. Starts(FromReady(n), "ready", n, 0, FromConfigure1(n))
    BY <1>2, StartsWith DEF FromReady, Kinds
<1>. QED BY <1>1, <1>2, <1>3

\* The lists are what the functions of the driver do.
LEMMA StopOneIs == ASSUME NEW n \in Motor PROVE StopOne(n) = FromOff(n, 0)
<1>. DEFINE a == <<Op("pwm", n, 0)>>      b == <<Op("in1", n, Pin1(n, 0))>>
            c == <<Op("in2", n, Pin2(n, 0))>>  d == <<Op("commit", n, 0)>>
<1>1. a \in Seq(OpType) /\ b \in Seq(OpType) /\ c \in Seq(OpType) /\ d \in Seq(OpType)
    <2>1. Pin1(n, 0) \in 0..1 /\ Pin2(n, 0) \in 0..1
        BY PinsIn, ZeroPct, Zenon
    <2>2. Pin1(n, 0) \in Int /\ Pin2(n, 0) \in Int
        BY <2>1
    <2>. QED BY <2>2, Single DEF Kinds
<1>2. StopOne(n) = Cat(Cat(a, Cat(b, c)), d)
    <2>1. DirectionPins(n, 0) = Cat(b, c)
        BY PinsAre, ZeroPct, Zenon
    <2>2. StopOne(n) = Cat(Cat(a, DirectionPins(n, 0)), d)
        BY Zenon DEF StopOne, Cat
    <2>. QED BY <2>1, <2>2
<1>3. FromOff(n, 0) = Cat(a, Cat(b, Cat(c, d)))
    BY DEF FromOff, FromIn1, FromIn2, FromPower, Last
<1>. HIDE DEF a, b, c, d
<1>4. Cat(b, c) \in Seq(OpType) /\ Cat(Cat(b, c), d) = Cat(b, Cat(c, d))
    BY <1>1, Closed, Associative
<1>5. Cat(Cat(a, Cat(b, c)), d) = Cat(a, Cat(Cat(b, c), d))
    BY <1>1, <1>4, Associative
<1>. QED BY <1>2, <1>3, <1>4, <1>5

LEMMA SetOneIs ==
    ASSUME NEW n \in Motor, NEW pct \in -100..100
    PROVE  SetOne(n, pct) = IF DifferentNonzeroDirection(current_pct[n], pct)
                            THEN FromReversal(n, pct) ELSE FromOff(n, pct)
<1>. DEFINE a == <<Op("pwm", n, 0)>>      b == <<Op("in1", n, Pin1(n, pct))>>
            c == <<Op("in2", n, Pin2(n, pct))>>  d == <<Op("pwm", n, Magnitude(pct))>>
            e == <<Op("commit", n, pct)>>   f == <<Op("deadtime", n, 0)>>
            pins == DirectionPins(n, pct)
            power == <<Op("pwm", n, Magnitude(pct)), Op("commit", n, pct)>>
            body == IF pct = 0 THEN StopOne(n) ELSE a \o pins \o power
            rest == <<Op("pwm", n, 0), Op("deadtime", n, 0)>>
<1>0. Magnitude(pct) \in Int
    BY DEF Magnitude
<1>1. /\ a \in Seq(OpType) /\ b \in Seq(OpType) /\ c \in Seq(OpType) /\ d \in Seq(OpType)
      /\ e \in Seq(OpType) /\ f \in Seq(OpType)
    <2>1. Pin1(n, pct) \in 0..1 /\ Pin2(n, pct) \in 0..1
        BY PinsIn, Zenon
    <2>2. Pin1(n, pct) \in Int /\ Pin2(n, pct) \in Int
        BY <2>1
    <2>. QED BY <1>0, <2>2, Single DEF Kinds
<1>2. body = FromOff(n, pct)
    <2>1. CASE pct = 0
        BY <2>1, StopOneIs
    <2>2. CASE pct # 0
        <3>1. power = Cat(d, e)
            <4>1. Op("pwm", n, Magnitude(pct)) \in OpType /\ Op("commit", n, pct) \in OpType
                BY <1>0, OpIn DEF Kinds
            <4>. QED BY <4>1, Pair DEF Cat
        <3>2. pins = Cat(b, c)
            BY PinsAre, Zenon
        <3>3. FromOff(n, pct) = Cat(a, Cat(b, Cat(c, Cat(d, e))))
            BY <2>2 DEF FromOff, FromIn1, FromIn2, FromPower, Last
        <3>. HIDE DEF a, b, c, d, e, pins, power
        <3>4. body = Cat(Cat(a, pins), power)
            BY <2>2 DEF Cat
        <3>. HIDE DEF body
        <3>5. Cat(b, c) \in Seq(OpType) /\ Cat(d, e) \in Seq(OpType)
            BY <1>1, Closed
        <3>6. Cat(Cat(b, c), Cat(d, e)) = Cat(b, Cat(c, Cat(d, e)))
            BY <1>1, <3>5, Associative
        <3>7. Cat(Cat(a, Cat(b, c)), Cat(d, e)) = Cat(a, Cat(Cat(b, c), Cat(d, e)))
            BY <1>1, <3>5, Associative
        <3>. QED BY <3>1, <3>2, <3>3, <3>4, <3>6, <3>7
    <2>. QED BY <2>1, <2>2
<1>3. SetOne(n, pct) = Cat(IF DifferentNonzeroDirection(current_pct[n], pct)
                           THEN rest ELSE <<>>, body)
    BY Zenon DEF SetOne, Cat
<1>4. rest = Cat(a, f)
    <2>1. Op("pwm", n, 0) \in OpType /\ Op("deadtime", n, 0) \in OpType
        BY OpIn DEF Kinds
    <2>. QED BY <2>1, Pair DEF Cat
<1>. HIDE DEF body, rest
<1>5. FromOff(n, pct) \in Seq(OpType)
    BY Lists, Zenon
<1>6. Cat(<<>>, FromOff(n, pct)) = FromOff(n, pct)
    BY <1>5, Closed
<1>7. FromReversal(n, pct) = Cat(a, Cat(f, FromOff(n, pct)))
    BY DEF FromReversal, FromRest
<1>. HIDE DEF a, f
<1>8. Cat(Cat(a, f), FromOff(n, pct)) = FromReversal(n, pct)
    BY <1>1, <1>5, <1>7, Associative
<1>. QED BY <1>2, <1>3, <1>4, <1>6, <1>8

LEMMA InitOneIs == ASSUME NEW n \in Motor PROVE InitOne(n) = FromReady(n)
<1>. DEFINE a == <<Op("ready", n, 0)>>  b == <<Op("configure", n, 1)>>
            c == <<Op("configure", n, 2)>>  s == FromOff(n, 0)
            abc == <<Op("ready", n, 0), Op("configure", n, 1), Op("configure", n, 2)>>
<1>1. a \in Seq(OpType) /\ b \in Seq(OpType) /\ c \in Seq(OpType)
    BY Single DEF Kinds
<1>2. abc = Cat(Cat(a, b), c)
    <2>1. /\ Op("ready", n, 0) \in OpType /\ Op("configure", n, 1) \in OpType
          /\ Op("configure", n, 2) \in OpType
        BY OpIn DEF Kinds
    <2>. QED BY <2>1, Triple DEF Cat
<1>3. InitOne(n) = Cat(abc, s)
    BY StopOneIs DEF InitOne, Cat
<1>4. s \in Seq(OpType)
    BY Lists, ZeroPct, Zenon
<1>5. FromReady(n) = Cat(a, Cat(b, Cat(c, s)))
    BY DEF FromReady, FromConfigure1, FromConfigure2
<1>. HIDE DEF a, b, c, s, abc
<1>6. Cat(a, b) \in Seq(OpType) /\ Cat(c, s) \in Seq(OpType)
    BY <1>1, <1>4, Closed
<1>7. Cat(Cat(Cat(a, b), c), s) = Cat(Cat(a, b), Cat(c, s))
    BY <1>1, <1>4, <1>6, Associative
<1>8. Cat(Cat(a, b), Cat(c, s)) = Cat(a, Cat(b, Cat(c, s)))
    BY <1>1, <1>6, Associative
<1>. QED BY <1>2, <1>3, <1>5, <1>7, <1>8

-----------------------------------------------------------------------------
(* The motors, the percentages and what the bridge makes of them *)

LEMMA ThisIs ==
    ASSUME Types
    PROVE  /\ This \in Motor
           /\ \A i \in DOMAIN MotorOrder : MotorOrder[i] \in Motor
           /\ at \in Nat /\ Len(MotorOrder) \in Nat /\ DOMAIN MotorOrder = 1..Len(MotorOrder)
<1>1. MotorOrder \in Seq(Motor)
    BY MotorAssumption
<1>. QED BY <1>1 DEF Types, TypeOK, This

LEMMA PctIn ==
    ASSUME NEW n, NEW left \in Int, NEW right \in Int
    PROVE  /\ PctOf(n, left, right) \in -100..100
           /\ left = 0 /\ right = 0 => PctOf(n, left, right) = 0
BY DEF PctOf, ClampMotorPct

LEMMA AimIn ==
    ASSUME Types, call.name # "set_left_right" => call.left = 0 /\ call.right = 0
    PROVE  /\ Aim \in -100..100
           /\ call.name # "set_left_right" => Aim = 0
<1>1. call.left \in Int /\ call.right \in Int
    BY DEF Types
<1>2. Aim = PctOf(This, call.left, call.right)
    BY DEF Aim, Requested
<1>. QED BY <1>1, <1>2, PctIn

LEMMA SameWay ==
    ASSUME NEW a \in -1..1, NEW b \in 0..100
    PROVE  ~DifferentNonzeroDirection(a, a * b)
<1>1. a = -1 \/ a = 0 \/ a = 1
    OBVIOUS
<1>. QED BY <1>1 DEF DifferentNonzeroDirection

LEMMA DriveIn ==
    ASSUME NEW n \in Motor, TypeOK
    PROVE  /\ PinSense(n) \in -1..1 /\ Drive(n) \in -100..100
           /\ duty[n] = 0 => Drive(n) = 0
           /\ ~DifferentNonzeroDirection(PinSense(n), Drive(n))
<1>1. in1[n] \in 0..1 /\ in2[n] \in 0..1 /\ duty[n] \in 0..100
    BY DEF TypeOK
<1>2. PinSense(n) \in -1..1
    BY <1>1 DEF PinSense
<1>3. PinSense(n) = -1 \/ PinSense(n) = 0 \/ PinSense(n) = 1
    BY <1>2
<1>4. \/ Drive(n) = -duty[n] /\ PinSense(n) = -1
      \/ Drive(n) = 0 /\ PinSense(n) = 0
      \/ Drive(n) = duty[n] /\ PinSense(n) = 1
    BY <1>1, <1>3 DEF Drive
<1>. QED BY <1>1, <1>2, <1>4 DEF DifferentNonzeroDirection

\* Pins set for a percentage make the bridge apply it or, where a pin is not an
\* output, perhaps nothing.
LEMMA PowerOn ==
    ASSUME NEW n \in Motor, NEW g \in -100..100, g # 0, Types,
           Pin1Set(n, g), Pin2Set(n, g)
    PROVE  /\ PinSense(n) * Magnitude(g) = g \/ (n \notin Wired /\ PinSense(n) * Magnitude(g) = 0)
           /\ Magnitude(g) \in 0..100
<1>1. /\ Pin1(n, g) \in 0..1 /\ Pin2(n, g) \in 0..1
      /\ Pin1(n, g) - Pin2(n, g) = IF n \in Inverted THEN -Sign(g) ELSE Sign(g)
    BY PinsIn
<1>2. Sign(g) \in {-1, 1} /\ Sign(g) * Magnitude(g) = g /\ Magnitude(g) \in 0..100
    BY DEF Sign, Magnitude
<1>. HIDE DEF Magnitude
<1>3. n \in Wired <=> <<n, 1>> \in configured /\ <<n, 2>> \in configured
    BY DEF Wired
<1>4. PinSense(n) = Sign(g) \/ (n \notin Wired /\ PinSense(n) = 0)
    <2>1. CASE n \in Inverted
        BY <1>1, <1>2, <1>3, <2>1 DEF PinSense, Pin1Set, Pin2Set
    <2>2. CASE n \notin Inverted
        BY <1>1, <1>2, <1>3, <2>2 DEF PinSense, Pin1Set, Pin2Set
    <2>. QED BY <2>1, <2>2
<1>. QED BY <1>2, <1>4

\* What a step leaves alone.
LEMMA Frame ==
    ASSUME NEW n \in Motor, in1'[n] = in1[n], in2'[n] = in2[n], duty'[n] = duty[n],
           <<n, 1>> \in configured' <=> <<n, 1>> \in configured,
           <<n, 2>> \in configured' <=> <<n, 2>> \in configured
    PROVE  Drive(n)' = Drive(n) /\ (n \in Wired)' = (n \in Wired) /\ Idle(n)' = Idle(n)
<1>1. Drive(n)' = Drive(n)
    BY DEF Drive, PinSense
<1>2. (n \in Wired)' <=> (n \in Wired)
    BY DEF Wired
<1>. QED BY <1>1, <1>2 DEF Idle

\* What a call sets out to do on a motor when it comes to it.
LEMMA Entry ==
    ASSUME NEW n \in Motor, NEW c \in [name : Names, left : Int, right : Int],
           c.name # "none", c.name # "set_left_right" => c.left = 0 /\ c.right = 0,
           NEW g, g = PctOf(n, c.left, c.right)
    PROVE  \/ c.name = "init" /\ OperationsOn(n, c) = FromReady(n)
           \/ /\ OperationsOn(n, c) = FromReversal(n, g)
              /\ DifferentNonzeroDirection(current_pct[n], g)
           \/ /\ OperationsOn(n, c) = FromOff(n, g)
              /\ ~DifferentNonzeroDirection(current_pct[n], g)
<1>1. g \in -100..100 /\ (c.left = 0 /\ c.right = 0 => g = 0)
    BY PctIn
<1>2. CASE c.name = "init"
    BY <1>2, InitOneIs DEF OperationsOn
<1>3. CASE c.name = "stop_all"
    BY <1>1, <1>3, StopOneIs DEF OperationsOn, DifferentNonzeroDirection
<1>4. CASE c.name = "set_left_right"
    <2>1. OperationsOn(n, c) = SetOne(n, g)
        BY <1>4 DEF OperationsOn
    <2>. QED BY <1>1, <2>1, SetOneIs
<1>. QED BY <1>2, <1>3, <1>4 DEF Names

-----------------------------------------------------------------------------
(* The moves of a call, by where it is: what each operation then does *)

Same == UNCHANGED <<call, at, failed, before>>

MReady ==
    /\ call.name = "init" /\ todo' = FromConfigure1(This)
    /\ Same /\ UNCHANGED <<hardwareVars, current_pct, drove>>
MConfigure ==
    /\ call.name = "init" /\ todo' \in {FromConfigure2(This), FromOff(This, Aim)}
    /\ \E p \in {1, 2} :
          /\ in1' = [in1 EXCEPT ![This] = IF p = 1 THEN 0 ELSE @]
          /\ in2' = [in2 EXCEPT ![This] = IF p = 2 THEN 0 ELSE @]
          /\ configured' = configured \cup {<<This, p>>}
    /\ Same /\ UNCHANGED <<duty, current_pct, drove>>
MOff ==
    /\ todo' = FromRest(This, Aim) \/ (todo' = FromIn1(This, Aim) /\ MayDrive(This, Aim))
    /\ duty' = [duty EXCEPT ![This] = 0]
    /\ Same /\ UNCHANGED <<in1, in2, configured, current_pct, drove>>
MRest ==
    /\ todo' = FromOff(This, Aim) /\ Off(This)
    /\ drove' = [m \in Motor |-> IF duty[m] = 0 THEN 0 ELSE drove[m]]
    /\ Same /\ UNCHANGED <<hardwareVars, current_pct>>
MIn1 ==
    /\ todo' = FromIn2(This, Aim) /\ Off(This) /\ MayDrive(This, Aim)
    /\ in1' = [in1 EXCEPT ![This] = IF <<This, 1>> \in configured THEN Pin1(This, Aim) ELSE @]
    /\ Same /\ UNCHANGED <<in2, duty, configured, current_pct, drove>>
MIn2 ==
    /\ todo' = FromPower(This, Aim) /\ Off(This) /\ MayDrive(This, Aim)
    /\ Pin1Set(This, Aim)
    /\ in2' = [in2 EXCEPT ![This] = IF <<This, 2>> \in configured THEN Pin2(This, Aim) ELSE @]
    /\ Same /\ UNCHANGED <<in1, duty, configured, current_pct, drove>>
MPower ==
    /\ Aim # 0 /\ todo' = Last(This, Aim) /\ MayDrive(This, Aim)
    /\ Pin1Set(This, Aim) /\ Pin2Set(This, Aim)
    /\ duty' = [duty EXCEPT ![This] = Magnitude(Aim)]
    /\ drove' = [drove EXCEPT ![This] = IF Magnitude(Aim) > 0 THEN PinSense(This) ELSE @]
    /\ Same /\ UNCHANGED <<in1, in2, configured, current_pct>>
MCommit ==
    /\ duty[This] = Magnitude(Aim) /\ (Drive(This) = Aim \/ Idle(This))
    /\ current_pct' = [current_pct EXCEPT ![This] = Aim]
    /\ NextMotor /\ UNCHANGED <<hardwareVars, call, failed, historyVars>>
MFail ==
    /\ call.name = "init" \/ Untouched(This) \/ Off(This)
    /\ ~NextIs("commit") /\ Fail

\* todo begins with operation (k, a) on this motor and goes on with t.
At(k, a, t) == /\ todo # <<>> /\ Tail(todo) = t /\ Head(todo).kind = k
               /\ Head(todo).motor = This /\ Head(todo).arg = a

LEMMA AtIs ==
    ASSUME NEW k \in Kinds, NEW n \in Motor, NEW a \in Int, NEW t, n = This,
           Starts(todo, k, n, a, t)
    PROVE  At(k, a, t)
<1>1. Head(todo) = Op(k, n, a) /\ todo # <<>> /\ Tail(todo) = t
    BY DEF Starts
<1>2. Op(k, n, a).kind = k /\ Op(k, n, a).motor = n /\ Op(k, n, a).arg = a
    BY OpIn
<1>. QED BY <1>1, <1>2 DEF At

\* Only the operation that is next is performed, or fails.
LEMMA Performs ==
    ASSUME NEW k \in Kinds, NEW a, NEW t, At(k, a, t), Perform
    PROVE  /\ \/ k = "pwm" /\ SetPwm
              \/ k = "in1" /\ SetIn1
              \/ k = "in2" /\ SetIn2
              \/ k = "configure" /\ ConfigureGpio
              \/ k = "ready" /\ CheckReady
              \/ k = "deadtime" /\ DeadTime
              \/ k = "commit" /\ Commit
              \/ k # "commit" /\ k # "deadtime" /\ Fail
           /\ NextIs("commit") <=> k = "commit"
<1>1. \A j : NextIs(j) <=> j = k
    BY DEF At, NextIs
<1>2. Fail => k # "commit" /\ k # "deadtime"
    BY <1>1 DEF Fail, MayFail
<1>3. /\ SetPwm => k = "pwm"
      /\ SetIn1 => k = "in1"
      /\ SetIn2 => k = "in2"
      /\ ConfigureGpio => k = "configure"
      /\ CheckReady => k = "ready"
      /\ DeadTime => k = "deadtime"
      /\ Commit => k = "commit"
    BY <1>1 DEF SetPwm, SetIn1, SetIn2, ConfigureGpio, CheckReady, DeadTime, Commit
<1>4. \/ SetPwm \/ SetIn1 \/ SetIn2 \/ ConfigureGpio \/ CheckReady
      \/ DeadTime \/ Commit \/ Fail
    BY DEF Perform
<1>5. NextIs("commit") <=> k = "commit"
    BY <1>1
<1>. QED BY <1>2, <1>3, <1>4, <1>5

Moves == MReady \/ MConfigure \/ MOff \/ MRest \/ MIn1 \/ MIn2 \/ MPower \/ MCommit \/ MFail

LEMMA StepsAreMoves == ASSUME IInv, Perform PROVE Moves
<1>. DEFINE n == This  g == Aim
<1>1. /\ n \in Motor /\ g \in -100..100 /\ (call.name # "set_left_right" => g = 0)
      /\ \A k, a, t : k \in Kinds /\ a \in Int /\ Starts(todo, k, n, a, t) => At(k, a, t)
      /\ Types
    <2>1. Types /\ Hardware
        BY DEF IInv
    <2>2. n \in Motor /\ g \in -100..100 /\ (call.name # "set_left_right" => g = 0)
        BY <2>1, ThisIs, AimIn DEF Hardware
    <2>. QED BY <2>1, <2>2, AtIs
<1>2. todo # <<>>
    BY DEF Perform, SetPwm, SetIn1, SetIn2, ConfigureGpio, CheckReady, DeadTime, Commit, Fail,
           MayFail, NextIs
<1>3. /\ Starts(Last(n, g), "commit", n, g, <<>>)
      /\ g # 0 => Starts(FromPower(n, g), "pwm", n, Magnitude(g), Last(n, g))
      /\ g = 0 => FromPower(n, g) = Last(n, g)
      /\ Starts(FromIn2(n, g), "in2", n, Pin2(n, g), FromPower(n, g))
      /\ Starts(FromIn1(n, g), "in1", n, Pin1(n, g), FromIn2(n, g))
      /\ Starts(FromOff(n, g), "pwm", n, 0, FromIn1(n, g))
      /\ Starts(FromRest(n, g), "deadtime", n, 0, FromOff(n, g))
      /\ Starts(FromReversal(n, g), "pwm", n, 0, FromRest(n, g))
    BY <1>1, Lists
<1>4. /\ Starts(FromReady(n), "ready", n, 0, FromConfigure1(n))
      /\ Starts(FromConfigure1(n), "configure", n, 1, FromConfigure2(n))
      /\ Starts(FromConfigure2(n), "configure", n, 2, FromOff(n, 0))
    BY <1>1, InitLists
<1>5. Pin1(n, g) \in Int /\ Pin2(n, g) \in Int /\ Magnitude(g) \in Int
    <2>1. Pin1(n, g) \in 0..1 /\ Pin2(n, g) \in 0..1
        BY <1>1, PinsIn
    <2>. QED BY <1>1, <2>1 DEF Magnitude
<1>6. TypeOK
    BY <1>1 DEF Types
<1>. HIDE DEF n, g
<1>7. CASE call.name = "init" /\ todo = FromReady(n)
    <2>1. At("ready", 0, FromConfigure1(n))
        BY <1>1, <1>4, <1>7 DEF Kinds
    <2>2. (CheckReady \/ Fail) /\ ~NextIs("commit")
        BY <2>1, Performs DEF Kinds
    <2>. QED BY <1>7, <2>1, <2>2 DEF Moves, MReady, MFail, CheckReady, Done, At, Same, n
<1>8. CASE call.name = "init" /\ todo = FromConfigure1(n)
    <2>1. At("configure", 1, FromConfigure2(n))
        BY <1>1, <1>4, <1>8 DEF Kinds
    <2>2. (ConfigureGpio \/ Fail) /\ ~NextIs("commit")
        BY <2>1, Performs DEF Kinds
    <2>3. CASE ConfigureGpio
        <3>1. MConfigure
            BY <1>8, <2>1, <2>3 DEF MConfigure, ConfigureGpio, Done, At, Same, n
        <3>. QED BY <3>1 DEF Moves
    <2>. QED BY <1>8, <2>2, <2>3 DEF Moves, MFail
<1>9. CASE call.name = "init" /\ todo = FromConfigure2(n)
    <2>1. At("configure", 2, FromOff(n, 0))
        BY <1>1, <1>4, <1>9 DEF Kinds
    <2>2. (ConfigureGpio \/ Fail) /\ ~NextIs("commit")
        BY <2>1, Performs DEF Kinds
    <2>3. CASE ConfigureGpio
        <3>0. g = 0
            BY <1>1, <1>9
        <3>1. MConfigure
            BY <1>9, <2>1, <2>3, <3>0 DEF MConfigure, ConfigureGpio, Done, At, Same, n, g
        <3>. QED BY <3>1 DEF Moves
    <2>. QED BY <1>9, <2>2, <2>3 DEF Moves, MFail
<1>10. CASE todo = FromReversal(n, g) /\ Untouched(n)
    <2>1. At("pwm", 0, FromRest(n, g))
        BY <1>1, <1>3, <1>10 DEF Kinds
    <2>2. (SetPwm \/ Fail) /\ ~NextIs("commit")
        BY <2>1, Performs DEF Kinds
    <2>3. CASE SetPwm
        <3>0. drove' = drove /\ duty' = [duty EXCEPT ![n] = 0]
            <4>1. drove \in [Motor -> -1..1] /\ ~(Head(todo).arg > 0)
                BY <1>6, <2>1 DEF TypeOK, At
            <4>. QED BY <1>1, <2>1, <2>3, <4>1 DEF SetPwm, At, n
        <3>1. MOff
            BY <2>1, <2>3, <3>0 DEF MOff, SetPwm, Done, At, Same, n, g
        <3>. QED BY <3>1 DEF Moves
    <2>. QED BY <1>10, <2>2, <2>3 DEF Moves, MFail, n
<1>11. CASE todo = FromRest(n, g) /\ Off(n)
    <2>1. At("deadtime", 0, FromOff(n, g))
        BY <1>1, <1>3, <1>11 DEF Kinds
    <2>2. DeadTime
        BY <2>1, Performs DEF Kinds
    <2>3. MRest
        BY <1>11, <2>1, <2>2 DEF MRest, DeadTime, Done, At, Same, n, g
    <2>. QED BY <2>3 DEF Moves
<1>12. CASE todo = FromOff(n, g) /\ (Untouched(n) \/ Off(n)) /\ MayDrive(n, g)
    <2>1. At("pwm", 0, FromIn1(n, g))
        BY <1>1, <1>3, <1>12 DEF Kinds
    <2>2. (SetPwm \/ Fail) /\ ~NextIs("commit")
        BY <2>1, Performs DEF Kinds
    <2>3. CASE SetPwm
        <3>0. drove' = drove /\ duty' = [duty EXCEPT ![n] = 0]
            <4>1. drove \in [Motor -> -1..1] /\ ~(Head(todo).arg > 0)
                BY <1>6, <2>1 DEF TypeOK, At
            <4>. QED BY <1>1, <2>1, <2>3, <4>1 DEF SetPwm, At, n
        <3>1. MOff
            BY <1>12, <2>1, <2>3, <3>0 DEF MOff, SetPwm, Done, At, Same, n, g
        <3>. QED BY <3>1 DEF Moves
    <2>. QED BY <1>12, <2>2, <2>3 DEF Moves, MFail, n
<1>13. CASE todo = FromIn1(n, g) /\ Off(n) /\ MayDrive(n, g)
    <2>1. At("in1", Pin1(n, g), FromIn2(n, g))
        BY <1>1, <1>3, <1>5, <1>13 DEF Kinds
    <2>2. (SetIn1 \/ Fail) /\ ~NextIs("commit")
        BY <2>1, Performs DEF Kinds
    <2>3. CASE SetIn1
        <3>1. MIn1
            BY <1>13, <2>1, <2>3 DEF MIn1, SetIn1, Done, At, Same, n, g
        <3>. QED BY <3>1 DEF Moves
    <2>. QED BY <1>13, <2>2, <2>3 DEF Moves, MFail, n
<1>14. CASE todo = FromIn2(n, g) /\ Off(n) /\ MayDrive(n, g) /\ Pin1Set(n, g)
    <2>1. At("in2", Pin2(n, g), FromPower(n, g))
        BY <1>1, <1>3, <1>5, <1>14 DEF Kinds
    <2>2. (SetIn2 \/ Fail) /\ ~NextIs("commit")
        BY <2>1, Performs DEF Kinds
    <2>3. CASE SetIn2
        <3>1. MIn2
            BY <1>14, <2>1, <2>3 DEF MIn2, SetIn2, Done, At, Same, n, g
        <3>. QED BY <3>1 DEF Moves
    <2>. QED BY <1>14, <2>2, <2>3 DEF Moves, MFail, n
<1>15. CASE /\ g # 0 /\ todo = FromPower(n, g) /\ Off(n) /\ MayDrive(n, g)
            /\ Pin1Set(n, g) /\ Pin2Set(n, g)
    <2>1. At("pwm", Magnitude(g), Last(n, g))
        BY <1>1, <1>3, <1>5, <1>15 DEF Kinds
    <2>2. (SetPwm \/ Fail) /\ ~NextIs("commit")
        BY <2>1, Performs DEF Kinds
    <2>3. CASE SetPwm
        <3>1. MPower
            BY <1>15, <2>1, <2>3 DEF MPower, SetPwm, Done, At, Same, n, g
        <3>. QED BY <3>1 DEF Moves
    <2>. QED BY <1>15, <2>2, <2>3 DEF Moves, MFail, n
<1>16. CASE /\ todo = Last(n, g) /\ duty[n] = Magnitude(g)
            /\ Drive(n) = g \/ Idle(n)
    <2>1. At("commit", g, <<>>)
        BY <1>1, <1>3, <1>16 DEF Kinds
    <2>2. Commit
        BY <2>1, Performs DEF Kinds
    <2>3. MCommit
        BY <1>16, <2>1, <2>2 DEF MCommit, Commit, At, n, g
    <2>. QED BY <2>3 DEF Moves
<1>17. CASE g = 0 /\ todo = FromPower(n, g) /\ Off(n)
    <2>1. todo = Last(n, g)
        BY <1>3, <1>17
    <2>2. duty[n] = Magnitude(g) /\ Drive(n) = g
        BY <1>1, <1>6, <1>17, DriveIn DEF Magnitude, Off
    <2>. QED BY <1>16, <2>1, <2>2
<1>18. Stage
    BY DEF IInv
<1>. QED BY <1>2, <1>7, <1>8, <1>9, <1>10, <1>11, <1>12, <1>13, <1>14, <1>15, <1>16, <1>17, <1>18
         DEF Stage, n, g

-----------------------------------------------------------------------------
(* The invariant *)

LEMMA Apart ==
    ASSUME Types, NEW i \in DOMAIN MotorOrder, i # at
    PROVE  MotorOrder[i] \in Motor /\ MotorOrder[i] # This
BY ThisIs, MotorAssumption DEF This, Types, TypeOK

\* A move within the work on motor n disturbs no other motor, and what it does to
\* n need only be safe.
LEMMA Within ==
    ASSUME NEW n \in Motor, n = This, IInv, Same, current_pct' = current_pct,
           todo # <<>>, todo' # <<>>, TypeOK',
           \A m \in Motor \ {n} :
               /\ in1'[m] = in1[m] /\ in2'[m] = in2[m] /\ duty'[m] = duty[m]
               /\ \A p \in {1, 2} : <<m, p>> \in configured' <=> <<m, p>> \in configured
               /\ drove'[m] \in {drove[m], 0},
           <<n, 1>> \notin configured' => in1'[n] = 0,
           <<n, 2>> \notin configured' => in2'[n] = 0,
           duty'[n] = 0 \/ NextIs("commit")' \/ Settled(n)',
           duty'[n] > 0 => ~DifferentNonzeroDirection(drove'[n], Drive(n)'),
           call.name = "init" => duty'[n] = 0
    PROVE  Types' /\ Hardware' /\ Progress' /\ n = This' /\ Aim' = Aim
<1>0. Types /\ Hardware /\ Progress
    BY DEF IInv
<1>1. n = This' /\ Aim' = Aim /\ at' = at /\ call' = call /\ failed' = failed /\ before' = before
    BY DEF Same, This, Aim, Requested
<1>2. Types'
    BY <1>0, <1>1 DEF Types
<1>3. ASSUME NEW m \in Motor, m # n
      PROVE  /\ Drive(m)' = Drive(m) /\ (m \in Wired)' = (m \in Wired) /\ Idle(m)' = Idle(m)
             /\ duty'[m] = duty[m] /\ drove'[m] \in {drove[m], 0}
             /\ <<m, 1>> \notin configured' => in1'[m] = 0
             /\ <<m, 2>> \notin configured' => in2'[m] = 0
    <2>1. /\ in1'[m] = in1[m] /\ in2'[m] = in2[m] /\ duty'[m] = duty[m]
          /\ <<m, 1>> \in configured' <=> <<m, 1>> \in configured
          /\ <<m, 2>> \in configured' <=> <<m, 2>> \in configured
          /\ drove'[m] \in {drove[m], 0}
        BY <1>3
    <2>2. Drive(m)' = Drive(m) /\ (m \in Wired)' = (m \in Wired) /\ Idle(m)' = Idle(m)
        BY <2>1, Frame
    <2>. QED BY <1>0, <2>1, <2>2 DEF Hardware
<1>4. ASSUME NEW m \in Motor, m # n PROVE Settled(m)'
    <2>1. Settled(m)
        BY <1>0, <1>4 DEF Hardware
    <2>. QED BY <1>3, <1>4, <2>1 DEF Settled
<1>5. ASSUME NEW m \in Motor, m # n, duty'[m] > 0
      PROVE  ~DifferentNonzeroDirection(drove'[m], Drive(m)')
    <2>1. duty[m] > 0 /\ Drive(m)' = Drive(m) /\ drove'[m] \in {drove[m], 0}
        BY <1>3, <1>5
    <2>2. ~DifferentNonzeroDirection(drove[m], Drive(m))
        BY <1>0, <2>1 DEF Hardware
    <2>3. ~DifferentNonzeroDirection(0, Drive(m))
        BY DEF DifferentNonzeroDirection
    <2>. QED BY <2>1, <2>2, <2>3
<1>6. ASSUME NEW i \in DOMAIN MotorOrder, i > at PROVE Untouched(MotorOrder[i])'
    <2>1. MotorOrder[i] \in Motor /\ MotorOrder[i] # n
        <3>1. i # at
            BY <1>0, <1>6, ThisIs
        <3>. QED BY <1>0, <3>1, Apart
    <2>2. Untouched(MotorOrder[i])
        BY <1>0, <1>6 DEF Hardware
    <2>. QED BY <1>1, <1>3, <2>1, <2>2 DEF Untouched
<1>7. ASSUME call.name = "init", NEW m \in Motor PROVE duty'[m] = 0
    BY <1>0, <1>3, <1>7 DEF Hardware
<1>8. Hardware'
    <2>1. call.name # "none"
        BY <1>0 DEF Hardware
    <2>2. \A m \in Motor : /\ <<m, 1>> \notin configured' => in1'[m] = 0
                           /\ <<m, 2>> \notin configured' => in2'[m] = 0
        BY <1>3
    <2>3. \A m \in Motor : m # This' \/ ~NextIs("commit")' => Settled(m)'
        <3>1. CASE duty'[n] = 0
            BY <1>1, <1>4, <3>1 DEF Settled
        <3>2. CASE duty'[n] # 0
            BY <1>1, <1>4, <3>2
        <3>. QED BY <3>1, <3>2
    <2>4. \A m \in Motor : duty'[m] > 0 => ~DifferentNonzeroDirection(drove'[m], Drive(m)')
        BY <1>5
    <2>. QED BY <1>0, <1>1, <1>6, <1>7, <2>1, <2>2, <2>3, <2>4 DEF Hardware
<1>9. ASSUME NEW i \in DOMAIN MotorOrder, i < at, Served(MotorOrder[i])
      PROVE  Served(MotorOrder[i])'
    <2>1. MotorOrder[i] \in Motor /\ MotorOrder[i] # n
        <3>1. i # at
            BY <1>0, <1>9, ThisIs
        <3>. QED BY <1>0, <3>1, Apart
    <2>2. Requested(MotorOrder[i])' = Requested(MotorOrder[i])
        BY <1>1 DEF Requested
    <2>. QED BY <1>3, <1>9, <2>1, <2>2 DEF Served
<1>10. Progress'
    BY <1>0, <1>1, <1>9 DEF Progress
<1>. QED BY <1>1, <1>2, <1>8, <1>10

LEMMA InitHolds == Init => IInv
<1>. SUFFICES ASSUME Init PROVE IInv
    OBVIOUS
<1>1. MotorOrder \in Seq(Motor) /\ Len(MotorOrder) > 0
    <2>1. MotorOrder \in Seq(Motor)
        BY MotorAssumption
    <2>2. MotorOrder # <<>>
        BY MotorAssumption
    <2>. QED BY <2>1, <2>2, NonEmpty
<1>2. Types
    <2>1. at \in DOMAIN MotorOrder
        BY <1>1 DEF Init
    <2>2. call \in [name : Names, left : Int, right : Int]
        BY DEF Init, Names
    <2>3. /\ in1 \in [Motor -> 0..1] /\ in2 \in [Motor -> 0..1] /\ duty \in [Motor -> 0..100]
          /\ current_pct \in [Motor -> -100..100] /\ before \in [Motor -> -100..100]
          /\ drove \in [Motor -> -1..1]
        BY DEF Init
    <2>. QED BY <2>1, <2>2, <2>3 DEF Init, Types, TypeOK
<1>3. Stage
    BY DEF Init, Stage
<1>4. ASSUME NEW n \in Motor PROVE Settled(n) /\ duty[n] = 0 /\ in1[n] = 0 /\ in2[n] = 0
    BY <1>4 DEF Init, Settled
<1>5. Hardware
    BY <1>4 DEF Init, Hardware
<1>6. Progress
    <2>1. ~\E i \in DOMAIN MotorOrder : i < 1
        BY <1>1
    <2>. QED BY <2>1 DEF Init, Progress
<1>. QED BY <1>2, <1>3, <1>5, <1>6 DEF IInv

\* The first operation of a list is never lost: no list is empty.
LEMMA NotEmpty ==
    ASSUME NEW n \in Motor, NEW g \in -100..100
    PROVE  /\ FromReady(n) # <<>> /\ FromConfigure1(n) # <<>> /\ FromConfigure2(n) # <<>>
           /\ FromReversal(n, g) # <<>> /\ FromRest(n, g) # <<>> /\ FromOff(n, g) # <<>>
           /\ FromIn1(n, g) # <<>> /\ FromIn2(n, g) # <<>> /\ FromPower(n, g) # <<>>
           /\ Last(n, g) # <<>>
<1>1. CASE g = 0
    BY <1>1, Lists, InitLists DEF Starts
<1>2. CASE g # 0
    BY <1>2, Lists, InitLists DEF Starts
<1>. QED BY <1>1, <1>2

LEMMA ReadyHolds == ASSUME IInv, todo # <<>>, MReady PROVE IInv'
<1>1. PICK n \in Motor : n = This
    BY ThisIs DEF IInv
<1>2. Types /\ Hardware /\ duty[n] = 0 /\ TypeOK /\ Aim = 0 /\ Aim \in -100..100
    BY AimIn DEF IInv, Hardware, Types, MReady
<1>3. todo' = FromConfigure1(n) /\ todo' # <<>> /\ call'.name = "init"
    BY <1>1, <1>2, NotEmpty DEF MReady, Same
<1>4. TypeOK'
    BY <1>2 DEF TypeOK, MReady, hardwareVars, Same
<1>5. Types' /\ Hardware' /\ Progress' /\ n = This' /\ Aim' = Aim
    <2>1. /\ <<n, 1>> \notin configured' => in1'[n] = 0
          /\ <<n, 2>> \notin configured' => in2'[n] = 0
        BY <1>2 DEF MReady, Hardware, hardwareVars
    <2>. QED BY <1>1, <1>2, <1>3, <1>4, <2>1, Within DEF MReady, hardwareVars
<1>6. Stage'
    BY <1>3, <1>5 DEF Stage
<1>. QED BY <1>5, <1>6 DEF IInv

LEMMA ConfigureHolds == ASSUME IInv, todo # <<>>, MConfigure PROVE IInv'
<1>1. PICK n \in Motor : n = This
    BY ThisIs DEF IInv
<1>2. Types /\ Hardware /\ duty[n] = 0 /\ TypeOK /\ Aim = 0 /\ Aim \in -100..100
    BY AimIn DEF IInv, Hardware, Types, MConfigure
<1>3. /\ todo' \in {FromConfigure2(n), FromOff(n, 0)} /\ todo' # <<>>
      /\ call'.name = "init" /\ duty' = duty /\ drove' = drove /\ current_pct' = current_pct /\ Same
    BY <1>1, <1>2, NotEmpty DEF MConfigure, Same
<1>4. PICK p \in {1, 2} : /\ in1' = [in1 EXCEPT ![n] = IF p = 1 THEN 0 ELSE @]
                          /\ in2' = [in2 EXCEPT ![n] = IF p = 2 THEN 0 ELSE @]
                          /\ configured' = configured \cup {<<n, p>>}
    BY <1>1 DEF MConfigure
<1>5. TypeOK'
    BY <1>2, <1>3, <1>4 DEF TypeOK, Same
<1>6. Types' /\ Hardware' /\ Progress' /\ n = This' /\ Aim' = Aim
    <2>1. /\ <<n, 1>> \notin configured' => in1'[n] = 0
          /\ <<n, 2>> \notin configured' => in2'[n] = 0
        BY <1>2, <1>4 DEF TypeOK, Hardware
    <2>2. \A m \in Motor \ {n} :
              /\ in1'[m] = in1[m] /\ in2'[m] = in2[m] /\ duty'[m] = duty[m]
              /\ \A q \in {1, 2} : <<m, q>> \in configured' <=> <<m, q>> \in configured
              /\ drove'[m] \in {drove[m], 0}
        BY <1>2, <1>3, <1>4 DEF TypeOK
    <2>. QED BY <1>1, <1>2, <1>3, <1>5, <2>1, <2>2, Within
<1>7. Stage'
    BY <1>2, <1>3, <1>6 DEF Stage, Off, MayDrive, DifferentNonzeroDirection
<1>. QED BY <1>6, <1>7 DEF IInv

LEMMA OffHolds == ASSUME IInv, todo # <<>>, MOff PROVE IInv'
<1>1. PICK n \in Motor : n = This
    BY ThisIs DEF IInv
<1>2. Types /\ Hardware /\ TypeOK /\ Aim \in -100..100
    BY AimIn DEF IInv, Hardware, Types
<1>3. /\ todo' = FromRest(n, Aim) \/ (todo' = FromIn1(n, Aim) /\ MayDrive(n, Aim))
      /\ todo' # <<>> /\ duty' = [duty EXCEPT ![n] = 0] /\ Same
      /\ in1' = in1 /\ in2' = in2 /\ configured' = configured
      /\ drove' = drove /\ current_pct' = current_pct
    BY <1>1, <1>2, NotEmpty DEF MOff
<1>4. TypeOK'
    <2>1. duty' \in [Motor -> 0..100]
        BY <1>2, <1>3 DEF TypeOK
    <2>. QED BY <1>2, <1>3, <2>1, Zenon DEF TypeOK, Same
<1>5. duty'[n] = 0 /\ \A m \in Motor \ {n} : duty'[m] = duty[m]
    BY <1>2, <1>3 DEF TypeOK
<1>6. Types' /\ Hardware' /\ Progress' /\ n = This' /\ Aim' = Aim
    <2>1. /\ <<n, 1>> \notin configured' => in1'[n] = 0
          /\ <<n, 2>> \notin configured' => in2'[n] = 0
        BY <1>2, <1>3 DEF Hardware
    <2>. QED BY <1>1, <1>2, <1>3, <1>4, <1>5, <2>1, Within
<1>7. MayDrive(n, Aim)' <=> MayDrive(n, Aim)
    BY <1>3, <1>6 DEF MayDrive
<1>8. Stage'
    BY <1>3, <1>5, <1>6, <1>7 DEF Stage, Off
<1>. QED BY <1>6, <1>8 DEF IInv

LEMMA RestHolds == ASSUME IInv, todo # <<>>, MRest PROVE IInv'
<1>1. PICK n \in Motor : n = This
    BY ThisIs DEF IInv
<1>2. Types /\ Hardware /\ TypeOK /\ Aim \in -100..100
    BY AimIn DEF IInv, Hardware, Types
<1>3. /\ todo' = FromOff(n, Aim) /\ todo' # <<>> /\ duty[n] = 0 /\ Same
      /\ drove' = [m \in Motor |-> IF duty[m] = 0 THEN 0 ELSE drove[m]]
      /\ in1' = in1 /\ in2' = in2 /\ configured' = configured
      /\ duty' = duty /\ current_pct' = current_pct
    BY <1>1, <1>2, NotEmpty DEF MRest, Off, hardwareVars
<1>4. TypeOK'
    <2>1. drove' \in [Motor -> -1..1]
        BY <1>2, <1>3 DEF TypeOK
    <2>. QED BY <1>2, <1>3, <2>1, Zenon DEF TypeOK, Same
<1>5. drove'[n] = 0 /\ \A m \in Motor : drove'[m] \in {drove[m], 0}
    BY <1>3
<1>6. Types' /\ Hardware' /\ Progress' /\ n = This' /\ Aim' = Aim
    <2>1. /\ <<n, 1>> \notin configured' => in1'[n] = 0
          /\ <<n, 2>> \notin configured' => in2'[n] = 0
        BY <1>2, <1>3 DEF Hardware
    <2>. QED BY <1>1, <1>2, <1>3, <1>4, <1>5, <2>1, Within
<1>7. Off(n)' /\ MayDrive(n, Aim)'
    BY <1>3, <1>5 DEF Off, MayDrive, DifferentNonzeroDirection
<1>8. Stage'
    BY <1>3, <1>6, <1>7 DEF Stage
<1>. QED BY <1>6, <1>8 DEF IInv

LEMMA In1Holds == ASSUME IInv, todo # <<>>, MIn1 PROVE IInv'
<1>1. PICK n \in Motor : n = This
    BY ThisIs DEF IInv
<1>2. Types /\ Hardware /\ TypeOK /\ Aim \in -100..100
    BY AimIn DEF IInv, Hardware, Types
<1>3. /\ todo' = FromIn2(n, Aim) /\ todo' # <<>> /\ duty[n] = 0 /\ MayDrive(n, Aim) /\ Same
      /\ in1' = [in1 EXCEPT ![n] = IF <<n, 1>> \in configured THEN Pin1(n, Aim) ELSE @]
      /\ in2' = in2 /\ configured' = configured /\ duty' = duty
      /\ drove' = drove /\ current_pct' = current_pct
    BY <1>1, <1>2, NotEmpty DEF MIn1, Off
<1>4. Pin1(n, Aim) \in 0..1 /\ in1[n] \in 0..1 /\ (<<n, 1>> \notin configured => in1[n] = 0)
    BY <1>2, PinsIn DEF Hardware, TypeOK
<1>5. TypeOK'
    <2>1. in1' \in [Motor -> 0..1]
        BY <1>2, <1>3, <1>4 DEF TypeOK
    <2>. QED BY <1>2, <1>3, <2>1, Zenon DEF TypeOK, Same
<1>6. /\ in1'[n] = IF <<n, 1>> \in configured THEN Pin1(n, Aim) ELSE 0
      /\ \A m \in Motor \ {n} : in1'[m] = in1[m]
    BY <1>2, <1>3, <1>4 DEF TypeOK
<1>7. Types' /\ Hardware' /\ Progress' /\ n = This' /\ Aim' = Aim
    <2>1. /\ <<n, 1>> \notin configured' => in1'[n] = 0
          /\ <<n, 2>> \notin configured' => in2'[n] = 0
        BY <1>2, <1>3, <1>6 DEF Hardware
    <2>. QED BY <1>1, <1>2, <1>3, <1>5, <1>6, <2>1, Within
<1>8. Off(n)' /\ MayDrive(n, Aim)' /\ Pin1Set(n, Aim)'
    BY <1>3, <1>6, <1>7 DEF Off, MayDrive, Pin1Set
<1>9. Stage'
    BY <1>3, <1>7, <1>8 DEF Stage
<1>. QED BY <1>7, <1>9 DEF IInv

LEMMA In2Holds == ASSUME IInv, todo # <<>>, MIn2 PROVE IInv'
<1>1. PICK n \in Motor : n = This
    BY ThisIs DEF IInv
<1>2. Types /\ Hardware /\ TypeOK /\ Aim \in -100..100
    BY AimIn DEF IInv, Hardware, Types
<1>3. /\ todo' = FromPower(n, Aim) /\ todo' # <<>> /\ duty[n] = 0 /\ MayDrive(n, Aim) /\ Same
      /\ in2' = [in2 EXCEPT ![n] = IF <<n, 2>> \in configured THEN Pin2(n, Aim) ELSE @]
      /\ in1' = in1 /\ configured' = configured /\ duty' = duty /\ Pin1Set(n, Aim)
      /\ drove' = drove /\ current_pct' = current_pct
    BY <1>1, <1>2, NotEmpty DEF MIn2, Off
<1>4. Pin2(n, Aim) \in 0..1 /\ in2[n] \in 0..1 /\ (<<n, 2>> \notin configured => in2[n] = 0)
    BY <1>2, PinsIn DEF Hardware, TypeOK
<1>5. TypeOK'
    <2>1. in2' \in [Motor -> 0..1]
        BY <1>2, <1>3, <1>4 DEF TypeOK
    <2>. QED BY <1>2, <1>3, <2>1, Zenon DEF TypeOK, Same
<1>6. /\ in2'[n] = IF <<n, 2>> \in configured THEN Pin2(n, Aim) ELSE 0
      /\ \A m \in Motor \ {n} : in2'[m] = in2[m]
    BY <1>2, <1>3, <1>4 DEF TypeOK
<1>7. Types' /\ Hardware' /\ Progress' /\ n = This' /\ Aim' = Aim
    <2>1. /\ <<n, 1>> \notin configured' => in1'[n] = 0
          /\ <<n, 2>> \notin configured' => in2'[n] = 0
        BY <1>2, <1>3, <1>6 DEF Hardware
    <2>. QED BY <1>1, <1>2, <1>3, <1>5, <1>6, <2>1, Within
<1>8. Off(n)' /\ MayDrive(n, Aim)' /\ Pin1Set(n, Aim)' /\ Pin2Set(n, Aim)'
    BY <1>3, <1>6, <1>7 DEF Off, MayDrive, Pin1Set, Pin2Set
<1>9. Stage'
    BY <1>3, <1>7, <1>8 DEF Stage
<1>. QED BY <1>7, <1>9 DEF IInv

LEMMA PowerHolds == ASSUME IInv, todo # <<>>, MPower PROVE IInv'
<1>1. PICK n \in Motor : n = This
    BY ThisIs DEF IInv
<1>2. Types /\ Hardware /\ TypeOK /\ Aim \in -100..100 /\ call.name # "init"
    BY AimIn DEF IInv, Hardware, Types, MPower
<1>3. /\ todo' = Last(n, Aim) /\ todo' # <<>> /\ Aim # 0 /\ MayDrive(n, Aim) /\ Same
      /\ Pin1Set(n, Aim) /\ Pin2Set(n, Aim)
      /\ duty' = [duty EXCEPT ![n] = Magnitude(Aim)]
      /\ drove' = [drove EXCEPT ![n] = IF Magnitude(Aim) > 0 THEN PinSense(n) ELSE @]
      /\ in1' = in1 /\ in2' = in2 /\ configured' = configured /\ current_pct' = current_pct
    BY <1>1, <1>2, NotEmpty DEF MPower
<1>4. /\ Magnitude(Aim) \in 0..100 /\ Magnitude(Aim) > 0 /\ PinSense(n) \in -1..1
      /\ \/ PinSense(n) * Magnitude(Aim) = Aim
         \/ n \notin Wired /\ PinSense(n) * Magnitude(Aim) = 0
    <2>1. Magnitude(Aim) > 0
        BY <1>2, <1>3 DEF Magnitude
    <2>. QED BY <1>2, <1>3, <2>1, PowerOn, DriveIn
<1>5. TypeOK'
    <2>1. duty' \in [Motor -> 0..100]
        BY <1>2, <1>3, <1>4 DEF TypeOK
    <2>2. drove' \in [Motor -> -1..1]
        BY <1>2, <1>3, <1>4 DEF TypeOK
    <2>. QED BY <1>2, <1>3, <2>1, <2>2, Zenon DEF TypeOK, Same
<1>6. /\ duty'[n] = Magnitude(Aim) /\ drove'[n] = PinSense(n)
      /\ \A m \in Motor \ {n} : duty'[m] = duty[m] /\ drove'[m] = drove[m]
    BY <1>2, <1>3, <1>4 DEF TypeOK
<1>7. PinSense(n)' = PinSense(n) /\ (n \in Wired)' = (n \in Wired)
    BY <1>3 DEF PinSense, Wired
<1>8. Drive(n)' = Aim \/ Idle(n)'
    BY <1>4, <1>6, <1>7 DEF Drive, Idle
<1>9. ~DifferentNonzeroDirection(drove'[n], Drive(n)')
    <2>1. Drive(n)' = PinSense(n) * Magnitude(Aim)
        BY <1>6, <1>7 DEF Drive
    <2>. QED BY <1>4, <1>6, <2>1, SameWay
<1>10. NextIs("commit")'
    <2>1. Starts(Last(n, Aim), "commit", n, Aim, <<>>)
        BY <1>2, Lists
    <2>2. Op("commit", n, Aim).kind = "commit"
        BY DEF Op
    <2>. QED BY <1>3, <2>1, <2>2 DEF Starts, NextIs
<1>11. Types' /\ Hardware' /\ Progress' /\ n = This' /\ Aim' = Aim
    <2>1. /\ <<n, 1>> \notin configured' => in1'[n] = 0
          /\ <<n, 2>> \notin configured' => in2'[n] = 0
        BY <1>2, <1>3 DEF Hardware
    <2>. QED BY <1>1, <1>2, <1>3, <1>5, <1>6, <1>9, <1>10, <2>1, Within
<1>12. Stage'
    BY <1>3, <1>6, <1>8, <1>11 DEF Stage
<1>. QED BY <1>11, <1>12 DEF IInv

\* A call comes to motor m.
LEMMA Entering ==
    ASSUME NEW m \in Motor, m = This', call' \in [name : Names, left : Int, right : Int],
           call'.name # "none",
           call'.name # "set_left_right" => call'.left = 0 /\ call'.right = 0,
           todo' = OperationsOn(m, call'),
           current_pct'[m] = current_pct[m], current_pct[m] \in -100..100, Untouched(m)'
    PROVE  Stage' /\ todo' # <<>> /\ ~NextIs("commit")'
<1>1. PICK g \in -100..100 : g = PctOf(m, call'.left, call'.right)
    <2>1. call'.left \in Int /\ call'.right \in Int
        OBVIOUS
    <2>. QED BY <2>1, PctIn
<1>2. g = Aim'
    BY <1>1 DEF Aim, Requested
<1>3. \/ call'.name = "init" /\ todo' = FromReady(m)
      \/ todo' = FromReversal(m, g) /\ DifferentNonzeroDirection(current_pct[m], g)
      \/ todo' = FromOff(m, g) /\ ~DifferentNonzeroDirection(current_pct[m], g)
    BY <1>1, Entry
<1>4. /\ Starts(FromReady(m), "ready", m, 0, FromConfigure1(m))
      /\ Starts(FromReversal(m, g), "pwm", m, 0, FromRest(m, g))
      /\ Starts(FromOff(m, g), "pwm", m, 0, FromIn1(m, g))
    BY Lists, InitLists
<1>5. todo' # <<>> /\ ~NextIs("commit")'
    <2>1. Op("ready", m, 0).kind = "ready" /\ Op("pwm", m, 0).kind = "pwm"
        BY DEF Op
    <2>. QED BY <1>3, <1>4, <2>1 DEF Starts, NextIs
<1>6. ~DifferentNonzeroDirection(current_pct[m], g) => MayDrive(m, g)'
    <2>1. drove'[m] = 0 \/ drove'[m] = Sign(current_pct[m])
        BY DEF Untouched
    <2>. QED BY <2>1 DEF MayDrive, DifferentNonzeroDirection, Sign
<1>7. Stage'
    <2>1. CASE call'.name = "init" /\ todo' = FromReady(m)
        BY <2>1 DEF Stage
    <2>2. CASE todo' = FromReversal(m, g) /\ DifferentNonzeroDirection(current_pct[m], g)
        BY <1>2, <2>2 DEF Stage
    <2>3. CASE todo' = FromOff(m, g) /\ ~DifferentNonzeroDirection(current_pct[m], g)
        BY <1>2, <1>6, <2>3 DEF Stage
    <2>. QED BY <1>3, <2>1, <2>2, <2>3
<1>. QED BY <1>5, <1>7

\* The work on motor n ends and the call goes on with the next, or returns.
LEMMA Advance ==
    ASSUME NEW n \in Motor, n = This, IInv, todo # <<>>, NextMotor,
           UNCHANGED <<hardwareVars, call, historyVars>>,
           current_pct' \in [Motor -> -100..100], failed' \in BOOLEAN,
           \A m \in Motor \ {n} : current_pct'[m] = current_pct[m],
           \A m \in Motor : Settled(m)',
           failed' => call.name = "stop_all",
           ~failed' => ~failed /\ Served(n)
    PROVE  IInv'
<1>0. Types /\ TypeOK /\ Hardware /\ Progress
    BY DEF IInv, Types
<1>1. /\ at \in Nat /\ Len(MotorOrder) \in Nat /\ DOMAIN MotorOrder = 1..Len(MotorOrder)
      /\ at \in DOMAIN MotorOrder /\ \A i \in DOMAIN MotorOrder : MotorOrder[i] \in Motor
    BY <1>0, ThisIs DEF TypeOK
<1>2. /\ in1' = in1 /\ in2' = in2 /\ duty' = duty /\ configured' = configured
      /\ call' = call /\ before' = before /\ drove' = drove
    BY DEF hardwareVars, historyVars
<1>3. ASSUME NEW m \in Motor
      PROVE  Drive(m)' = Drive(m) /\ (m \in Wired)' = (m \in Wired) /\ Served(m)' = Served(m)
    BY <1>2, Frame DEF Served, Requested
<1>4. ASSUME NEW i \in DOMAIN MotorOrder, i > at, NEW m \in Motor, m = MotorOrder[i]
      PROVE  Untouched(m)' /\ current_pct'[m] = current_pct[m]
    <2>1. m # n
        <3>1. i # at
            BY <1>1, <1>4
        <3>. QED BY <1>0, <1>4, <3>1, Apart
    <2>2. Untouched(m)
        BY <1>0, <1>4 DEF Hardware
    <2>. QED BY <1>2, <1>3, <2>1, <2>2 DEF Untouched
<1>5. /\ call'.name # "none" /\ call' \in [name : Names, left : Int, right : Int]
      /\ call'.name # "set_left_right" => call'.left = 0 /\ call'.right = 0
    BY <1>0, <1>2 DEF Hardware, Types
<1>6. \/ /\ at < Len(MotorOrder) /\ at' = at + 1 /\ at' \in DOMAIN MotorOrder
         /\ Stage' /\ todo' # <<>>
      \/ at = Len(MotorOrder) /\ at' = at /\ todo' = <<>> /\ Stage'
    <2>1. CASE at < Len(MotorOrder)
        <3>1. at' = at + 1 /\ todo' = OperationsOn(MotorOrder[at + 1], call)
            BY <2>1 DEF NextMotor
        <3>2. at + 1 \in DOMAIN MotorOrder /\ at + 1 > at
            BY <1>1, <2>1
        <3>3. PICK m \in Motor : m = MotorOrder[at + 1]
            BY <1>1, <3>2
        <3>4. m = This'
            BY <3>1, <3>3 DEF This
        <3>5. Untouched(m)' /\ current_pct'[m] = current_pct[m]
            <4>1. PICK i \in DOMAIN MotorOrder : i = at + 1
                BY <3>2
            <4>. QED BY <1>4, <3>2, <3>3, <4>1
        <3>6. todo' = OperationsOn(m, call')
            BY <1>2, <3>1, <3>3
        <3>7. current_pct[m] \in -100..100
            BY <1>0 DEF TypeOK
        <3>8. Stage' /\ todo' # <<>>
            BY <1>5, <3>4, <3>5, <3>6, <3>7, Entering
        <3>. QED BY <2>1, <3>1, <3>2, <3>8
    <2>2. CASE ~(at < Len(MotorOrder))
        <3>1. at' = at /\ todo' = <<>>
            BY <2>2 DEF NextMotor
        <3>2. at = Len(MotorOrder)
            <4>1. at \in 1..Len(MotorOrder) /\ Len(MotorOrder) \in Nat
                BY <1>1
            <4>. QED BY <2>2, <4>1
        <3>3. Stage'
            BY <3>1 DEF Stage
        <3>. QED BY <3>1, <3>2, <3>3
    <2>. QED BY <2>1, <2>2
<1>7. Types'
    <2>1. at' \in DOMAIN MotorOrder
        BY <1>1, <1>6
    <2>2. TypeOK'
        BY <1>0, <1>2, <2>1, Zenon DEF TypeOK
    <2>. QED BY <1>5, <2>2 DEF Types
<1>8. Hardware'
    <2>1. \A m \in Motor : /\ <<m, 1>> \notin configured' => in1'[m] = 0
                           /\ <<m, 2>> \notin configured' => in2'[m] = 0
        BY <1>0, <1>2 DEF Hardware
    <2>2. \A m \in Motor : duty'[m] > 0 => ~DifferentNonzeroDirection(drove'[m], Drive(m)')
        BY <1>0, <1>2, <1>3 DEF Hardware
    <2>3. ASSUME NEW i \in DOMAIN MotorOrder, i > at' PROVE Untouched(MotorOrder[i])'
        <3>1. i > at
            <4>1. i \in Nat /\ at' \in {at, at + 1}
                <5>1. i \in 1..Len(MotorOrder)
                    BY <1>1, Zenon
                <5>2. at' = at + 1 \/ at' = at
                    BY <1>6, Zenon
                <5>. QED BY <5>1, <5>2
            <4>. QED BY <1>1, <2>3, <4>1
        <3>2. PICK m \in Motor : m = MotorOrder[i]
            BY <1>1
        <3>3. Untouched(m)'
            BY <1>4, <3>1, <3>2
        <3>. QED BY <3>2, <3>3
    <2>4. call.name = "init" => \A m \in Motor : duty'[m] = 0
        BY <1>0, <1>2 DEF Hardware
    <2>. QED BY <1>2, <1>5, <2>1, <2>2, <2>3, <2>4 DEF Hardware
<1>9. Progress'
    <2>1. ASSUME ~failed' \/ call.name = "set_left_right", NEW i \in DOMAIN MotorOrder, i < at'
          PROVE  Served(MotorOrder[i])'
        <3>1. ~failed' /\ ~failed /\ Served(n)
            BY <2>1
        <3>2. i < at \/ MotorOrder[i] = n
            <4>1. i \in Nat /\ at' \in {at, at + 1}
                <5>1. i \in 1..Len(MotorOrder)
                    BY <1>1, Zenon
                <5>2. at' = at + 1 \/ at' = at
                    BY <1>6, Zenon
                <5>. QED BY <5>1, <5>2
            <4>2. i < at \/ i = at
                BY <1>1, <2>1, <4>1
            <4>. QED BY <4>2 DEF This
        <3>3. PICK m \in Motor : m = MotorOrder[i]
            BY <1>1
        <3>4. Served(m)
            BY <1>0, <3>1, <3>2, <3>3 DEF Progress
        <3>5. Served(m)'
            BY <1>3, <3>4
        <3>. QED BY <3>3, <3>5
    <2>2. ASSUME todo' = <<>>, ~failed' PROVE at' = Len(MotorOrder) /\ Served(This)'
        <3>1. at' = Len(MotorOrder) /\ n = This'
            BY <1>6, <2>2 DEF This
        <3>2. Served(n)'
            BY <1>3, <2>2
        <3>. QED BY <3>1, <3>2 DEF Served, Requested, Drive, PinSense
    <2>. QED BY <1>2, <2>1, <2>2 DEF Progress
<1>. QED BY <1>6, <1>7, <1>8, <1>9 DEF IInv

LEMMA CommitHolds == ASSUME IInv, todo # <<>>, MCommit PROVE IInv'
<1>1. PICK n \in Motor : n = This
    BY ThisIs DEF IInv
<1>2. Types /\ Hardware /\ Progress /\ TypeOK /\ Aim \in -100..100
    BY AimIn DEF IInv, Hardware, Types
<1>3. /\ Drive(n) = Aim \/ Idle(n)
      /\ current_pct' = [current_pct EXCEPT ![n] = Aim] /\ NextMotor
      /\ UNCHANGED <<hardwareVars, call, failed, historyVars>>
    BY <1>1 DEF MCommit
<1>4. /\ current_pct' \in [Motor -> -100..100] /\ failed' \in BOOLEAN /\ current_pct'[n] = Aim
      /\ \A m \in Motor \ {n} : current_pct'[m] = current_pct[m]
    BY <1>2, <1>3 DEF TypeOK
<1>5. in1' = in1 /\ in2' = in2 /\ duty' = duty /\ configured' = configured /\ failed' = failed
    BY <1>3 DEF hardwareVars
<1>6. ASSUME NEW m \in Motor PROVE Settled(m)'
    <2>1. Drive(m)' = Drive(m) /\ Idle(m)' = Idle(m)
        BY <1>5, Frame
    <2>2. CASE m = n
        BY <1>3, <1>4, <2>1, <2>2 DEF Settled
    <2>3. CASE m # n
        <3>1. Settled(m)
            BY <1>1, <1>2, <2>3 DEF Hardware
        <3>. QED BY <1>4, <1>5, <2>1, <2>3, <3>1 DEF Settled
    <2>. QED BY <2>2, <2>3
<1>7. Served(n)
    BY <1>1, <1>3 DEF Served, Idle, Aim
<1>8. failed => call.name = "stop_all"
    BY <1>2 DEF Progress
<1>. QED BY <1>1, <1>3, <1>4, <1>5, <1>6, <1>7, <1>8, Advance

LEMMA FailHolds == ASSUME IInv, todo # <<>>, MFail PROVE IInv'
<1>1. PICK n \in Motor : n = This
    BY ThisIs DEF IInv
<1>2. Types /\ Hardware /\ Progress /\ TypeOK
    BY DEF IInv, Types
<1>3. /\ failed' = TRUE /\ ~NextIs("commit")
      /\ in1' = in1 /\ in2' = in2 /\ duty' = duty /\ configured' = configured /\ call' = call
      /\ current_pct' = current_pct /\ before' = before /\ drove' = drove
      /\ UNCHANGED <<hardwareVars, call, historyVars>>
    BY DEF MFail, Fail, hardwareVars, historyVars
<1>4. ASSUME NEW m \in Motor
      PROVE  /\ Drive(m)' = Drive(m) /\ (m \in Wired)' = (m \in Wired) /\ Served(m)' = Served(m)
             /\ Settled(m)'
    <2>1. Drive(m)' = Drive(m) /\ (m \in Wired)' = (m \in Wired) /\ Idle(m)' = Idle(m)
        BY <1>3, Frame
    <2>2. Settled(m)
        BY <1>2, <1>3 DEF Hardware
    <2>. QED BY <1>3, <2>1, <2>2 DEF Settled, Served, Requested
<1>5. CASE call.name = "stop_all"
    <2>1. NextMotor
        BY <1>5 DEF MFail, Fail
    <2>2. current_pct' \in [Motor -> -100..100]
        BY <1>2, <1>3 DEF TypeOK
    <2>. QED BY <1>1, <1>3, <1>4, <1>5, <2>1, <2>2, Advance
<1>6. CASE call.name # "stop_all"
    <2>1. todo' = <<>> /\ at' = at /\ This' = This
        BY <1>6 DEF MFail, Fail, This
    <2>2. Types' /\ Stage'
        <3>1. TypeOK'
            BY <1>2, <1>3, <2>1, Zenon DEF TypeOK
        <3>. QED BY <1>2, <1>3, <2>1, <3>1 DEF Types, Stage
    <2>3. Hardware'
        <3>1. \A m \in Motor : duty'[m] > 0 => ~DifferentNonzeroDirection(drove'[m], Drive(m)')
            BY <1>2, <1>3, <1>4 DEF Hardware
        <3>. QED BY <1>2, <1>3, <1>4, <2>1, <3>1 DEF Hardware
    <2>4. ASSUME call.name = "set_left_right" PROVE This \in Wired => Drive(This) \in {before[This], 0}
        BY <1>1, <1>2, <2>4, DriveIn DEF MFail, Untouched, Off
    <2>5. ASSUME NEW i \in DOMAIN MotorOrder PROVE MotorOrder[i] \in Motor
        BY <1>2, ThisIs
    <2>6. ASSUME NEW i \in DOMAIN MotorOrder, i < at, call.name = "set_left_right"
          PROVE  Served(MotorOrder[i])'
        BY <1>2, <1>4, <2>5, <2>6 DEF Progress
    <2>7. ASSUME NEW i \in DOMAIN MotorOrder, i > at
          PROVE  Drive(MotorOrder[i])' = before'[MotorOrder[i]]
        BY <1>2, <1>3, <1>4, <2>5, <2>7 DEF Hardware, Untouched
    <2>8. (n \in Wired)' = (n \in Wired) /\ Drive(n)' = Drive(n) /\ n = This'
        BY <1>1, <1>4, <2>1
    <2>9. call.name = "set_left_right" => ((This \in Wired)' => Drive(This)' \in {before'[This'], 0})
        <3>1. Drive(This)' = Drive(n)' /\ (This \in Wired)' = (n \in Wired)'
            BY <2>8 DEF Drive, PinSense
        <3>. QED BY <1>1, <1>3, <2>4, <2>8, <3>1
    <2>10. Progress'
        BY <1>3, <2>1, <2>6, <2>7, <2>9 DEF Progress
    <2>. QED BY <2>2, <2>3, <2>10 DEF IInv
<1>. QED BY <1>5, <1>6

LEMMA BeginHolds ==
    ASSUME IInv, NEW name \in Names \ {"none"}, NEW left \in Int, NEW right \in Int,
           name # "set_left_right" => left = 0 /\ right = 0,
           name = "init" => call.name = "none",
           Begin(name, left, right)
    PROVE  IInv'
<1>1. Types /\ TypeOK /\ Hardware /\ Progress
    BY DEF IInv, Types
<1>2. /\ in1' = in1 /\ in2' = in2 /\ duty' = duty /\ configured' = configured
      /\ current_pct' = current_pct /\ todo = <<>> /\ at' = 1 /\ failed' = FALSE
      /\ call' = [name |-> name, left |-> left, right |-> right]
      /\ before' = [m \in Motor |-> Drive(m)] /\ drove' = [m \in Motor |-> Sign(Drive(m))]
      /\ todo' = OperationsOn(MotorOrder[1], call')
    BY DEF Begin, hardwareVars
<1>3. /\ call'.name = name /\ call'.left = left /\ call'.right = right
      /\ call' \in [name : Names, left : Int, right : Int]
    BY <1>2
<1>4. PICK n \in Motor : n = MotorOrder[1] /\ n = This' /\ 1 \in DOMAIN MotorOrder
    <2>1. 1 \in DOMAIN MotorOrder
        BY <1>1, ThisIs DEF TypeOK
    <2>2. MotorOrder[1] \in Motor
        BY <1>1, <2>1, ThisIs
    <2>. QED BY <1>2, <2>1, <2>2 DEF This
<1>5. ASSUME NEW m \in Motor
      PROVE  /\ Drive(m)' = Drive(m) /\ Idle(m)' = Idle(m) /\ Drive(m) \in -100..100
             /\ before'[m] = Drive(m) /\ drove'[m] = Sign(Drive(m))
             /\ Settled(m) /\ (duty[m] = 0 => Drive(m) = 0)
             /\ duty[m] \in 0..100 /\ current_pct[m] \in -100..100
    <2>1. Drive(m)' = Drive(m) /\ Idle(m)' = Idle(m)
        BY <1>2, Frame
    <2>2. Drive(m) \in -100..100 /\ (duty[m] = 0 => Drive(m) = 0)
        BY <1>1, DriveIn
    <2>3. Settled(m)
        BY <1>1, <1>2 DEF Hardware, NextIs
    <2>4. duty[m] \in 0..100 /\ current_pct[m] \in -100..100
        BY <1>1 DEF TypeOK
    <2>. QED BY <1>2, <2>1, <2>2, <2>3, <2>4
<1>6. ASSUME NEW m \in Motor PROVE Untouched(m)'
    <2>1. Drive(m) = 0 \/ Drive(m) = current_pct[m]
        BY <1>5 DEF Settled, Idle
    <2>2. Drive(m)' = Drive(m) /\ before'[m] = Drive(m) /\ drove'[m] = Sign(Drive(m))
          /\ current_pct'[m] = current_pct[m]
        BY <1>2, <1>5
    <2>3. Sign(0) = 0
        BY DEF Sign
    <2>. QED BY <2>1, <2>2, <2>3 DEF Untouched
<1>7. Stage' /\ todo' # <<>> /\ ~NextIs("commit")'
    <2>1. todo' = OperationsOn(n, call') /\ current_pct'[n] = current_pct[n]
          /\ current_pct[n] \in -100..100 /\ Untouched(n)'
        BY <1>2, <1>4, <1>5, <1>6
    <2>. QED BY <1>3, <1>4, <2>1, Entering
<1>8. Types'
    <2>1. before' \in [Motor -> -100..100]
        BY <1>2, <1>5
    <2>2. drove' \in [Motor -> -1..1]
        <3>1. ASSUME NEW m \in Motor PROVE Sign(Drive(m)) \in -1..1
            BY <1>5 DEF Sign
        <3>. QED BY <1>2, <3>1
    <2>3. at' \in DOMAIN MotorOrder /\ failed' \in BOOLEAN
        BY <1>2, <1>4
    <2>4. TypeOK'
        BY <1>1, <1>2, <2>1, <2>2, <2>3, Zenon DEF TypeOK
    <2>. QED BY <1>3, <2>4 DEF Types
<1>9. Hardware'
    <2>1. \A m \in Motor : /\ <<m, 1>> \notin configured' => in1'[m] = 0
                           /\ <<m, 2>> \notin configured' => in2'[m] = 0
        BY <1>1, <1>2 DEF Hardware
    <2>2. \A m \in Motor : Settled(m)'
        BY <1>2, <1>5 DEF Settled
    <2>3. ASSUME NEW m \in Motor
          PROVE  ~DifferentNonzeroDirection(drove'[m], Drive(m)')
        BY <1>5 DEF DifferentNonzeroDirection, Sign
    <2>4. ASSUME NEW i \in DOMAIN MotorOrder PROVE Untouched(MotorOrder[i])'
        <3>1. PICK m \in Motor : m = MotorOrder[i]
            BY <1>1, ThisIs
        <3>2. Untouched(m)'
            BY <1>6
        <3>. QED BY <3>1, <3>2
    <2>5. name = "init" => \A m \in Motor : duty'[m] = 0
        BY <1>1, <1>2 DEF Hardware
    <2>. QED BY <1>3, <2>1, <2>2, <2>3, <2>4, <2>5 DEF Hardware
<1>10. Progress'
    <2>1. ~\E i \in DOMAIN MotorOrder : i < 1
        BY <1>1, ThisIs
    <2>. QED BY <1>2, <1>7, <2>1 DEF Progress
<1>. QED BY <1>7, <1>8, <1>9, <1>10 DEF IInv

LEMMA PerformNotEmpty == Perform => todo # <<>>
BY DEF Perform, SetPwm, SetIn1, SetIn2, ConfigureGpio, CheckReady, DeadTime, Commit, Fail,
       MayFail, NextIs

\* The invariant of the driver, through every operation and every failure.
THEOREM DriverInductive == Spec => []IInv
<1>1. IInv /\ [Next]_vars => IInv'
    <2>. SUFFICES ASSUME IInv, [Next]_vars PROVE IInv'
        OBVIOUS
    <2>1. CASE DriverInit
        <3>1. Begin("init", 0, 0) /\ call.name = "none"
            BY <2>1 DEF DriverInit
        <3>. QED BY <3>1, BeginHolds DEF Names
    <2>2. ASSUME NEW left \in Requests, NEW right \in Requests, SetLeftRight(left, right)
          PROVE  IInv'
        <3>1. Begin("set_left_right", left, right) /\ left \in Int /\ right \in Int
            BY <2>2, RequestAssumption DEF SetLeftRight
        <3>. QED BY <3>1, BeginHolds DEF Names
    <2>3. CASE StopAll
        <3>1. Begin("stop_all", 0, 0)
            BY <2>3 DEF StopAll
        <3>. QED BY <3>1, BeginHolds DEF Names
    <2>4. CASE Perform
        <3>1. Moves /\ todo # <<>>
            BY <2>4, StepsAreMoves, PerformNotEmpty
        <3>. QED BY <3>1, ReadyHolds, ConfigureHolds, OffHolds, RestHolds, In1Holds, In2Holds,
                    PowerHolds, CommitHolds, FailHolds DEF Moves
    <2>5. CASE UNCHANGED vars
        <3>1. /\ in1' = in1 /\ in2' = in2 /\ duty' = duty /\ configured' = configured
              /\ current_pct' = current_pct /\ call' = call /\ at' = at /\ todo' = todo
              /\ failed' = failed /\ before' = before /\ drove' = drove
            BY <2>5 DEF vars, hardwareVars, historyVars
        <3>2. Types'
            BY <3>1 DEF IInv, Types, TypeOK
        <3>3. Stage'
            BY <3>1 DEF IInv, Stage, This, Aim, Requested, Untouched, Off, MayDrive, Pin1Set,
                        Pin2Set, Idle, Drive, PinSense, Wired
        <3>4. Hardware'
            BY <3>1 DEF IInv, Hardware, This, Settled, Untouched, Idle, Drive, PinSense, Wired,
                        NextIs
        <3>5. Progress'
            BY <3>1 DEF IInv, Progress, This, Requested, Served, Drive, PinSense, Wired
        <3>. QED BY <3>2, <3>3, <3>4, <3>5 DEF IInv
    <2>. QED BY <2>1, <2>2, <2>3, <2>4, <2>5 DEF Next
<1>. QED BY <1>1, InitHolds, PTL DEF Spec

-----------------------------------------------------------------------------
(* What the driver guarantees *)

\* Duties and beliefs stay within range, whatever the callers ask for.
THEOREM DriverTypeCorrect == Spec => []TypeOK
<1>1. IInv => TypeOK
    BY DEF IInv, Types
<1>. QED BY <1>1, DriverInductive, PTL

\* A motor under power does what the driver believes it does, or, half wired,
\* nothing: motor_driver_set_left_right recognises the next reversal.
THEOREM PoweredCorrect == Spec => []PoweredAsBelieved
<1>1. IInv => PoweredAsBelieved
    <2>. SUFFICES ASSUME IInv, NEW m \in Motor, duty[m] > 0
                  PROVE  Drive(m) = Believed(m) \/ (m \notin Wired /\ Drive(m) = 0)
        BY DEF PoweredAsBelieved
    <2>1. Types /\ TypeOK /\ Hardware /\ Stage /\ Aim \in -100..100 /\ This \in Motor
          /\ (call.name # "set_left_right" => Aim = 0)
        BY ThisIs, AimIn DEF IInv, Types, Hardware
    <2>2. CASE ~NextIs("commit") \/ (NextIs("commit") /\ Head(todo).motor # m /\ m # This)
        BY <2>1, <2>2 DEF Hardware, Settled, Idle, Believed
    <2>3. CASE NextIs("commit") /\ (Head(todo).motor = m \/ m = This)
        <3>1. todo = Last(This, Aim) /\ (Drive(This) = Aim \/ Idle(This) \/ duty[This] = 0)
            <4>1. PICK n \in Motor, g \in -100..100 : n = This /\ g = Aim
                BY <2>1
            <4>2. /\ Starts(FromIn2(n, g), "in2", n, Pin2(n, g), FromPower(n, g))
                  /\ Starts(FromIn1(n, g), "in1", n, Pin1(n, g), FromIn2(n, g))
                  /\ Starts(FromOff(n, g), "pwm", n, 0, FromIn1(n, g))
                  /\ Starts(FromRest(n, g), "deadtime", n, 0, FromOff(n, g))
                  /\ Starts(FromReversal(n, g), "pwm", n, 0, FromRest(n, g))
                  /\ g # 0 => Starts(FromPower(n, g), "pwm", n, Magnitude(g), Last(n, g))
                  /\ g = 0 => FromPower(n, g) = Last(n, g)
                BY Lists
            <4>3. /\ Starts(FromReady(n), "ready", n, 0, FromConfigure1(n))
                  /\ Starts(FromConfigure1(n), "configure", n, 1, FromConfigure2(n))
                  /\ Starts(FromConfigure2(n), "configure", n, 2, FromOff(n, 0))
                BY InitLists
            <4>4. \A k, a, t : Starts(todo, k, n, a, t) => k = "commit"
                BY <2>3 DEF Starts, NextIs, Op
            <4>5. /\ todo # <<>>
                  /\ todo \notin {FromReady(n), FromConfigure1(n), FromConfigure2(n)}
                  /\ todo \notin {FromIn2(n, g), FromIn1(n, g), FromOff(n, g), FromRest(n, g),
                                  FromReversal(n, g)}
                  /\ todo = FromPower(n, g) => todo = Last(n, g)
                BY <2>3, <4>2, <4>3, <4>4 DEF NextIs
            <4>. QED BY <2>1, <4>1, <4>5 DEF Stage, Off
        <3>2. Starts(Last(This, Aim), "commit", This, Aim, <<>>)
            BY <2>1, Lists
        <3>3. Head(todo).motor = This /\ Head(todo).arg = Aim
            BY <3>1, <3>2 DEF Starts, Op
        <3>. QED BY <2>3, <3>1, <3>3, <2>1 DEF Believed, Idle, TypeOK
    <2>. QED BY <2>2, <2>3, <2>1 DEF Believed, Hardware, Settled, Idle
<1>. QED BY <1>1, DriverInductive, PTL

\* A call that reports success has put every motor where it was asked to.
THEOREM SuccessCorrect == Spec => []SuccessIsReal
<1>1. IInv => SuccessIsReal
    <2>. SUFFICES ASSUME IInv, todo = <<>>, call.name # "none", ~failed, NEW m \in Wired
                  PROVE  Drive(m) = Requested(m)
        BY DEF SuccessIsReal, Returned
    <2>1. Types /\ Progress
        BY DEF IInv
    <2>2. /\ \A i \in DOMAIN MotorOrder : i < at => Served(MotorOrder[i])
          /\ at = Len(MotorOrder) /\ Served(MotorOrder[at])
        BY <2>1 DEF Progress, This
    <2>3. PICK i \in DOMAIN MotorOrder : m = MotorOrder[i]
        BY DEF Wired, Motor
    <2>4. i < at \/ i = at
        <3>1. DOMAIN MotorOrder = 1..Len(MotorOrder) /\ Len(MotorOrder) \in Nat
            BY <2>1, ThisIs
        <3>2. i \in 1..Len(MotorOrder)
            BY <3>1
        <3>. QED BY <2>2, <3>1, <3>2
    <2>5. Served(m)
        BY <2>2, <2>3, <2>4
    <2>. QED BY <2>5 DEF Served
<1>. QED BY <1>1, DriverInductive, PTL

\* A motor_driver_set_left_right that fails has served the motors before the
\* failing one and left those after it alone; that one drives as before or is off.
THEOREM PartialCorrect == Spec => []FailureIsPartial
<1>1. IInv => FailureIsPartial
    <2>. SUFFICES ASSUME IInv, todo = <<>>, failed, call.name = "set_left_right"
                  PROVE  \E k \in DOMAIN MotorOrder : \A i \in DOMAIN MotorOrder :
                            MotorOrder[i] \in Wired =>
                                \/ i < k /\ Drive(MotorOrder[i]) = Requested(MotorOrder[i])
                                \/ i = k /\ Drive(MotorOrder[i]) \in {before[MotorOrder[i]], 0}
                                \/ i > k /\ Drive(MotorOrder[i]) = before[MotorOrder[i]]
        BY DEF FailureIsPartial, Returned
    <2>1. Types /\ Progress /\ at \in DOMAIN MotorOrder
        BY DEF IInv, Types, TypeOK
    <2>2. ASSUME NEW i \in DOMAIN MotorOrder, MotorOrder[i] \in Wired
          PROVE  \/ i < at /\ Drive(MotorOrder[i]) = Requested(MotorOrder[i])
                 \/ i = at /\ Drive(MotorOrder[i]) \in {before[MotorOrder[i]], 0}
                 \/ i > at /\ Drive(MotorOrder[i]) = before[MotorOrder[i]]
        <3>1. i < at \/ i = at \/ i > at
            <4>1. i \in Int /\ at \in Int
                BY <2>1, ThisIs
            <4>. QED BY <4>1
        <3>2. CASE i < at
            BY <2>1, <2>2, <3>2 DEF Progress, Served
        <3>3. CASE i = at
            BY <2>1, <2>2, <3>3 DEF Progress, This
        <3>4. CASE i > at
            BY <2>1, <3>4 DEF Progress
        <3>. QED BY <3>1, <3>2, <3>3, <3>4
    <2>. QED BY <2>1, <2>2
<1>. QED BY <1>1, DriverInductive, PTL

\* What a step of the driver does to the bridge of one motor.
LEMMA OneBridge ==
    ASSUME IInv, Next, NEW m \in Motor
    PROVE  /\ (in1'[m] = in1[m] /\ in2'[m] = in2[m]) \/ duty[m] = 0
           /\ \/ duty'[m] = 0
              \/ duty'[m] = duty[m] /\ Drive(m)' = Drive(m)
              \/ ~DifferentNonzeroDirection(drove[m], Drive(m)')
<1>1. /\ Types /\ TypeOK /\ Hardware /\ This \in Motor /\ Aim \in -100..100
      /\ (call.name # "set_left_right" => Aim = 0)
    BY ThisIs, AimIn DEF IInv, Types, Hardware
<1>2. ASSUME in1'[m] = in1[m], in2'[m] = in2[m], duty'[m] = duty[m]
      PROVE  Drive(m)' = Drive(m)
    BY <1>2 DEF Drive, PinSense
<1>3. CASE in1' = in1 /\ in2' = in2 /\ duty' = duty
    BY <1>2, <1>3
<1>4. CASE Perform
    <2>1. Moves
        BY <1>4, StepsAreMoves
    <2>2. CASE MReady \/ MRest \/ MCommit \/ MFail
        <3>1. in1' = in1 /\ in2' = in2 /\ duty' = duty
            BY <2>2 DEF MReady, MRest, MCommit, MFail, Fail, hardwareVars
        <3>. QED BY <1>3, <3>1
    <2>3. CASE MConfigure
        BY <1>1, <2>3 DEF MConfigure, Hardware
    <2>4. CASE MOff
        <3>1. in1' = in1 /\ in2' = in2 /\ duty' = [duty EXCEPT ![This] = 0]
            BY <2>4 DEF MOff
        <3>2. duty'[m] = 0 \/ duty'[m] = duty[m]
            BY <1>1, <3>1 DEF TypeOK
        <3>. QED BY <1>2, <3>1, <3>2
    <2>5. CASE MIn1 \/ MIn2
        <3>1. duty' = duty /\ duty[This] = 0
            BY <2>5 DEF MIn1, MIn2, Off
        <3>2. m # This => in1'[m] = in1[m] /\ in2'[m] = in2[m]
            BY <1>1, <2>5 DEF MIn1, MIn2, TypeOK
        <3>. QED BY <1>2, <3>1, <3>2
    <2>6. CASE MPower
        <3>1. /\ in1' = in1 /\ in2' = in2 /\ configured' = configured
              /\ duty' = [duty EXCEPT ![This] = Magnitude(Aim)] /\ Aim # 0
              /\ MayDrive(This, Aim) /\ Pin1Set(This, Aim) /\ Pin2Set(This, Aim)
            BY <2>6 DEF MPower
        <3>2. CASE m # This
            <4>1. duty'[m] = duty[m]
                BY <1>1, <3>1, <3>2 DEF TypeOK
            <4>. QED BY <1>2, <3>1, <4>1
        <3>3. CASE m = This
            <4>1. duty'[m] = Magnitude(Aim) /\ PinSense(m)' = PinSense(m)
                BY <1>1, <3>1, <3>3 DEF TypeOK, PinSense
            <4>2. PinSense(m) * Magnitude(Aim) \in {Aim, 0}
                BY <1>1, <3>1, <3>3, PowerOn
            <4>3. Drive(m)' \in {Aim, 0}
                BY <4>1, <4>2 DEF Drive
            <4>4. ~DifferentNonzeroDirection(drove[m], 0)
                BY DEF DifferentNonzeroDirection
            <4>. QED BY <3>1, <3>3, <4>3, <4>4 DEF MayDrive
        <3>. QED BY <3>2, <3>3
    <2>. QED BY <2>1, <2>2, <2>3, <2>4, <2>5, <2>6 DEF Moves
<1>5. ASSUME NEW name, NEW left, NEW right, Begin(name, left, right)
      PROVE  in1' = in1 /\ in2' = in2 /\ duty' = duty
    BY <1>5 DEF Begin, hardwareVars
<1>. QED BY <1>3, <1>4, <1>5 DEF Next, DriverInit, SetLeftRight, StopAll

\* The direction pins of a bridge never change while it is under power.
THEOREM PinsCorrect == Spec => PinsSwitchAtRest
<1>1. IInv /\ [Next]_vars =>
        [\A m \in Motor : <<in1[m], in2[m]>>' # <<in1[m], in2[m]>> => duty[m] = 0]_vars
    <2>. SUFFICES ASSUME IInv, Next, NEW m \in Motor, <<in1[m], in2[m]>>' # <<in1[m], in2[m]>>
                  PROVE  duty[m] = 0
        OBVIOUS
    <2>. QED BY OneBridge
<1>. QED BY <1>1, DriverInductive, PTL DEF Spec, PinsSwitchAtRest

\* A bridge that drove one way has rested, off for the dead time, before it is
\* powered the other way, whatever failed in between.
THEOREM ReversalCorrect == Spec => RestsBeforeReversing
<1>1. IInv /\ [Next]_vars =>
        [\A m \in Motor : duty'[m] > 0 => ~DifferentNonzeroDirection(drove[m], Drive(m)')]_vars
    <2>. SUFFICES ASSUME IInv, Next, NEW m \in Motor, duty'[m] > 0
                  PROVE  ~DifferentNonzeroDirection(drove[m], Drive(m)')
        OBVIOUS
    <2>1. duty[m] > 0 => ~DifferentNonzeroDirection(drove[m], Drive(m))
        BY DEF IInv, Hardware
    <2>. QED BY <2>1, OneBridge
<1>. QED BY <1>1, DriverInductive, PTL DEF Spec, RestsBeforeReversing

=============================================================================
