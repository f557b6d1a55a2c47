------------------------------ MODULE MCDevices ------------------------------
(***************************************************************************)
(* Small instances of the parts that answer one caller or one device: the  *)
(* OTP store, the clock, the console, the command dispatcher, the package  *)
(* reader, the conversions of times, the queues and the flash driver.  One *)
(* behaviour is about one of them.                                         *)
(***************************************************************************)
EXTENDS OtpStore, Tim2Clock, Console, Command, Package, Timing, LogQueue,
        FlashDriver

VARIABLE device   \* the one that runs; constant

allVars == <<device, otVars, tmVars, cnVars, cmVars, pkVars, tgVars, quVars,
             fdVars>>

-----------------------------------------------------------------------------
\* Command: two modules, one whose name begins with the other's.

Routes == << <<"a", "b">>, <<"a">> >>
Takes(kind) == [kind |-> kind, optional |-> FALSE]
May(kind) == [kind |-> kind, optional |-> TRUE]
Handlers == << [name |-> <<"t">>, takes |-> <<May("text"), May("text")>>],
               [name |-> <<"n", "a">>, takes |-> <<Takes("signed")>>],
               [name |-> <<"n", "b">>, takes |-> <<Takes("unsigned")>>],
               [name |-> <<"c">>, takes |-> <<Takes("choice"), May("switch")>>],
               [name |-> <<"b">>, takes |-> <<Takes("boolean")>>] >>
Options == << <<"b", "a">>, <<"b">>, <<"b", "b", "a">>, <<"a">> >>
YesWords == << <<"b">>, <<"1">>, <<"a", "n">> >>
NoWords == << <<"n">>, <<"0">>, <<"a", "b">> >>
Commands == <<Handlers, Handlers>>

\* The ways to type a text: quoted, bare where it can be, and bare with the
\* backslashes that need no other one.
Spelled(text) ==
    FoldLeft(LAMBDA s, c : s \o (IF c \in {"DQ", "BS"} THEN <<"BS", c>> ELSE <<c>>),
             <<>>, text)
Quoted(text) == <<"DQ">> \o Spelled(text) \o <<"DQ">>
Bare(text) ==
    IF text = <<>> \/ " " \in ToSet(text) THEN Quoted(text) ELSE Spelled(text)
Plain(text) ==
    IF \/ text = <<>> \/ " " \in ToSet(text) \/ "DQ" \in ToSet(text)
       \/ \E i \in 1 .. Len(text) - 1 : text[i] = "BS" /\ text[i + 1] = "BS"
    THEN Quoted(text) ELSE text
Sound(args, Style(_)) ==
    [line |-> FoldLeft(LAMBDA s, a : s \o <<" ">> \o Style(a), <<>>, args),
     args |-> args, sound |-> TRUE]
Styled(args) == {Sound(args, Quoted), Sound(args, Bare), Sound(args, Plain)}
Bad(line) == [line |-> line, args |-> <<>>, sound |-> FALSE]

Texts == BoundedSeq({"a", " ", "DQ", "BS"}, 2)
Symbols == {"-", "+", "0", "1", "8", "x", "b"}
Numerals == BoundedSeq(Symbols, 3)
            \cup {<<s, "0", x, d>> : s, d \in Symbols, x \in {"x", "b"}}
Words == BoundedSeq({"a", "b", "n", "B", "0", "1"}, 2)
Modules == {<<>>, <<"a">>, <<"A">>, <<"b">>, <<"A", "b">>, <<"a", "b", "a">>, <<"h">>}
Names == {<<"t">>, <<"n">>, <<"N", "a">>, <<"n", "B">>, <<"h">>, <<>>}

FirstLines == {Sound(<< <<"a">>, <<"t">>, <<"b">> >>, Bare),
               Sound(<< <<"a">>, <<"t">>, <<"DQ">>, <<"BS", "a">> >>, Quoted),
               Sound(<<>>, Bare)}
Lines ==
    UNION {Styled(<< <<"a">>, <<"t">> >> \o more) :
             more \in {<<>>} \cup {<<t>> : t \in Texts}
                        \cup {<<t, u>> : t, u \in Texts}}
    \cup {Sound(<<m, n>>, Bare) : m \in Modules, n \in Names}
    \cup {Sound(<<m>>, Bare) : m \in Modules}
    \cup {Sound(<< <<"a">>, n, v >>, Bare) :
            n \in {<<"n", "a">>, <<"n", "b">>}, v \in Numerals}
    \cup {Sound(<< <<"a">>, <<"t">>, <<"a">>, <<"a">>, <<"a">> >>, Bare)}
    \cup {Sound(<< <<"a">>, <<"b">>, w >>, Bare) : w \in Words}
    \cup {Sound(<< <<"a">>, <<"c">>, w >>, Bare) : w \in Words}
    \cup {Sound(<< <<"a">>, <<"c">>, w, v >>, Bare) : w \in {<<"b">>, <<"n">>}, v \in Words}
    \cup {Bad(<<"a", " ", "t", " ">> \o tail) :
            tail \in {<<"DQ", "a">>, <<"DQ", "a", "DQ", "a">>, <<"a", "DQ">>,
                      <<"NUL">>, <<"DQ", "a", "BS", "DQ">>}}

-----------------------------------------------------------------------------
\* Package: images shorter than a block, and longer by a digit of no word.

Images == [1 .. 2 -> 0 .. 1] \cup {i \in [1 .. 5 -> 0 .. 1] : i[2] = 1 /\ i[5] = 0}
Pairs == Images \X Images
FixedPairs == {<< <<0, 0, 1, 1, 0>>, <<1, 0, 0>> >>, << <<1>>, <<0, 1, 1, 0, 1>> >>}

\* LogQueue: a format that fails, a message that fits and one that does not.
Lengths == {-1, 1, 3}
Subscribers == <<TRUE, FALSE, TRUE>>

-----------------------------------------------------------------------------
\* Timing: values on both sides of every limit.

Counts == -2 .. 1023
Fraction(num, den) == [num |-> num, den |-> den]
TickPeriods == {Fraction(1, 12), Fraction(1, 4), Fraction(1, 1), Fraction(5, 1),
                Fraction(1, 36), Fraction(2, 9), Fraction(600, 7)}
Act(op, tx, rx, amount) ==
    [op |-> op, tx |-> tx, rx |-> rx, txAt |-> 4, rxAt |-> 5, amount |-> amount,
     fill |-> TRUE, valid |-> TRUE]
Acts ==
    UNION {{Act("write", n, 0, 0), Act("read", 0, n, 0), Act("i2c_read", 0, n, 0),
            Act("i2c_write", n, 0, 0)} : n \in {0, 1, 60, 128}}
    \cup {Act("pause", 0, 0, n) : n \in {0, 1, 600, 1022, 1023}}
    \cup {Act("idle_clocks", 0, 0, n) : n \in {0, 8, 12, 1016}}
    \cup {[Act("exchange", n, n, 0) EXCEPT !.txAt = t, !.rxAt = 3] :
            n \in {1, 2}, t \in 0 .. 5}
    \cup {Act("poll_response", 0, n, m) : n \in {1, 3}, m \in {3, 4, 5, 6, 16}}
    \cup {Act("check_response", 1, 0, m) : m \in {3, 5}}
    \cup {Act("read_until", 0, 1, m) : m \in {7, 8}}
    \cup {Act("i2c_probe", 0, 0, 0), Act("write", 1, 1, 0),
          [Act("pause", 0, 0, 5) EXCEPT !.valid = FALSE]}
ActionLists ==
    {<<>>} \cup {<<a>> : a \in Acts}
    \cup {<<a, b>> : a \in Acts, b \in {Act("write", 1, 0, 0), Act("pause", 0, 0, 600),
                                        Act("write", 60, 0, 0)}}
Asked == {-1, 0, 5}
DogTimeouts == 0 .. 300
Chips == {[top |-> 2, early |-> TRUE], [top |-> 1, early |-> FALSE]}

-----------------------------------------------------------------------------
\* A device that does not run is in one of its initial states.

Runs(d, any, one) == IF device = d THEN any ELSE {one}

MCInit ==
    /\ device \in {"otp", "clock", "console", "command", "package", "timing",
                   "queues", "flash"}
    /\ otBackend \in Runs("otp", {"h5", "flash", "file"}, "h5")
    /\ OtInit /\ (device # "otp" => otDevice[1] = OtVirgin)
    /\ TmInit
    /\ cnKind \in Runs("console", {"uart", "usb"}, "uart") /\ CnInit
    /\ CmInit
    /\ pkFixed \in Runs("package", 0 .. 2, 1)
    /\ pkDestination \in Runs("package", 0 .. 1, 0)
    /\ pkA \in Runs("package", {p[1] : p \in Pairs \cup FixedPairs}, <<1>>)
    /\ PkInit
    /\ IF device = "timing" THEN TgInit
       ELSE /\ tgCall = [what |-> "convert", count |-> 0, period |-> Fraction(1, 1)]
            /\ tgResult = TgPending
    /\ tqMutex \in Runs("queues", BOOLEAN, FALSE) /\ QuInit
    /\ \/ device = "flash"
       \/ /\ device # "flash" /\ fdChip = "h5" /\ fdExecuting = -1
          /\ fdCells = [w \in FdAll |-> "erased"] /\ fdOtp = "virgin"
    /\ FdInit

MCNext ==
    /\ UNCHANGED device
    /\ \/ /\ device = "otp" /\ OtNext
          /\ UNCHANGED <<tmVars, cnVars, cmVars, pkVars, tgVars, quVars, fdVars>>
       \/ /\ device = "clock" /\ TmNext
          /\ UNCHANGED <<otVars, cnVars, cmVars, pkVars, tgVars, quVars, fdVars>>
       \/ /\ device = "console" /\ CnNext
          /\ UNCHANGED <<otVars, tmVars, cmVars, pkVars, tgVars, quVars, fdVars>>
       \/ /\ device = "command" /\ CmNext
          /\ UNCHANGED <<otVars, tmVars, cnVars, pkVars, tgVars, quVars, fdVars>>
       \/ /\ device = "package" /\ PkNext
          /\ UNCHANGED <<otVars, tmVars, cnVars, cmVars, tgVars, quVars, fdVars>>
       \/ /\ device = "timing" /\ TgNext
          /\ UNCHANGED <<otVars, tmVars, cnVars, cmVars, pkVars, quVars, fdVars>>
       \/ /\ device = "queues" /\ QuNext
          /\ UNCHANGED <<otVars, tmVars, cnVars, cmVars, pkVars, tgVars, fdVars>>
       \/ /\ device = "flash" /\ FdNext
          /\ UNCHANGED <<otVars, tmVars, cnVars, cmVars, pkVars, tgVars, quVars>>

MCSpec == MCInit /\ [][MCNext]_allVars
=============================================================================
