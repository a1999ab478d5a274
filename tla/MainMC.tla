-------------------------------- MODULE MainMC --------------------------------
(* Sessions on the programs of MCParams. *)
EXTENDS SessionConformance, MCParams

\* The longest file runs past the text region into the data region.
MCFiles == [
  loop  |-> [words |-> Assembled(LoopCond), wellFormed |-> TRUE],
  jumps |-> [words |-> Assembled(Jumps), wellFormed |-> TRUE],
  off   |-> [words |-> Assembled(RunsOff), wellFormed |-> TRUE],
  stack |-> [words |-> Assembled(Stack), wellFormed |-> TRUE],
  long  |-> [words |-> [k \in 1 .. 19 |-> k], wellFormed |-> TRUE],
  patch |-> [words |-> <<WordOf(hlt)>>, wellFormed |-> TRUE],
  empty |-> [words |-> <<>>, wellFormed |-> TRUE],
  bad   |-> [words |-> Assembled(RunsOff), wellFormed |-> FALSE] ]

MCOpenMax == 3
NoPrograms == {}
AllInts == -128 .. 127
AllDwords == 0 .. 65535

-----------------------------------------------------------------------------
\* What scanf makes of the words typed, by conversion.

Whole(v)      == [matches |-> TRUE, value |-> v, left |-> <<>>]
Part(v, rest) == [matches |-> TRUE, value |-> v, left |-> <<rest>>]
None(rest)    == [matches |-> FALSE, value |-> 0, left |-> <<rest>>]

Under(i_, d_, x_) == [i |-> i_, d |-> d_, x |-> x_]
Digit(v)   == Under(Whole(v), Whole(v), Whole(v))
NoNumeral(word) == Under(None(word), None(word), None(word))

MCNumeral ==
  [word \in {"go", "run", "mdump", "rdump", "input", "quit", "?", "x", "xfc", "oo"} |->
     NoNumeral(word)]
  @@ "0" :> Digit(0) @@ "1" :> Digit(1) @@ "2" :> Digit(2)
  @@ "10"   :> Under(Whole(10), Whole(10), Whole(16))
  @@ "010"  :> Under(Whole(8), Whole(10), Whole(16))
  @@ "36"   :> Under(Whole(36), Whole(36), Whole(54))
  @@ "100"  :> Under(Whole(100), Whole(100), Whole(256))
  @@ "110"  :> Under(Whole(110), Whole(110), Whole(272))
  @@ "118"  :> Under(Whole(118), Whole(118), Whole(280))
  @@ "122"  :> Under(Whole(122), Whole(122), Whole(290))
  @@ "126"  :> Under(Whole(126), Whole(126), Whole(294))
  @@ "-8"   :> Under(Whole(-8), Whole(-8), Whole(-8))
  @@ "0xfc" :> Under(Whole(252), Part(0, "xfc"), Whole(252))
  @@ "2go"  :> Under(Part(2, "go"), Part(2, "go"), Part(2, "go"))
  @@ "foo"  :> Under(None("foo"), None("foo"), Part(15, "oo"))
  @@ "-x"   :> Under(None("x"), None("x"), None("x"))

MCVocabulary == DOMAIN MCNumeral
MCKind == [word \in MCVocabulary |->
  CASE word \in {"go", "run", "mdump", "rdump", "input", "quit"} -> word
    [] word = "?" -> "help"
    [] OTHER -> "invalid"]

-----------------------------------------------------------------------------
\* Sessions.  Other lines, those typed wrong among them, mean none of the commands recorded.

Line(words, means) == [words |-> words, means |-> means]
Other(words) == Line(words, <<>>)
go    == Line(<<"go">>, <<"go">>)
rdump == Line(<<"rdump">>, <<"rdump">>)
Session(files, lines) ==
  [files |-> files,
   words |-> FlattenSeq([k \in DOMAIN lines |-> lines[k].words]),
   means |-> SelectSeq([k \in DOMAIN lines |-> lines[k].means], LAMBDA c : c # <<>>),
   at    |-> LET Before(k) == FlattenSeq([j \in 1 .. (k - 1) |-> lines[j].words])
                 Meaning == SelectSeq([k \in DOMAIN lines |-> k], LAMBDA k : lines[k].means # <<>>)
             IN  [j \in DOMAIN Meaning |-> 1 + Len(Before(Meaning[j]))]]

\* Some never reach a prompt.
Failing == {
  Session(<<>>, <<>>),
  Session(<<"patch", "missing">>, <<>>),
  Session(<<"bad", "loop">>, <<go>>),
  Session(<<"loop", "patch", "empty">>, <<go>>),
  Session(<<"patch", "patch", "patch", "patch">>, <<>>) }

\* A halted machine is dumped and commanded again.
Halts ==
  Session(<<"empty", "loop">>,
    << Line(<<"run", "010">>, <<"run", 10>>), rdump, go, Line(<<"run", "1">>, <<"run", 1>>),
       Line(<<"mdump", "0xfc", "0">>, <<"mdump", -4, 0>>), Other(<<"?">>),
       Other(<<"quit">>), go >>)

\* A short file over the beginning of a long one.
Patches ==
  Session(<<"long", "patch">>,
    << Line(<<"mdump", "100", "110">>, <<"mdump", 100, 110>>), go, rdump,
       Line(<<"mdump", "36", "10">>, <<"mdump", 36, 10>>) >>)

\* Lines cut short, numerals with something behind them, words that are no command.
Mistypes ==
  Session(<<"jumps">>,
    << Other(<<"run">>), Line(<<"input", "1", "36">>, <<"input", 1, 54>>),
       Other(<<"input", "1">>), rdump, Other(<<"mdump", "-x", "1">>),
       Line(<<"run", "2">>, <<"run", 2>>), Other(<<"foo">>), Other(<<"input", "foo">>),
       Other(<<"input", "1", "foo">>), Other(<<"run", "0xfc">>), go, Other(<<"run", "2go">>),
       Line(<<"mdump", "-8", "0">>, <<"mdump", -8, 0>>), Other(<<"mdump", "1">>) >>)

\* The last word of the ints, the first dump that wraps, and a fault.
Wraps ==
  Session(<<"empty">>, << Line(<<"mdump", "118", "122">>, <<"mdump", 118, 122>>),
                          Line(<<"mdump", "122", "126">>, <<"mdump", 122, 126>>), rdump >>)
Faults ==
  Session(<<"off">>, << Line(<<"run", "1">>, <<"run", 1>>), rdump, go, rdump >>)

MCInvocations == Failing \union {Halts, Patches, Mistypes, Wraps, Faults}

\* The top of the stack, after a program that stores there.
StackDump ==
  { Session(<<"stack">>, << go, Line(<<"mdump", "0xfc", "0xfc">>, <<"mdump", -4, -4>>) >>) }
=============================================================================
