------------------------------- MODULE MCClib -------------------------------
EXTENDS Clib

Dates ==
  {0, 1, 11, 12, 25} \X {1, 28, 29, 31, 32, 60, 366} \X {69, 70, 72, 99, 100, 138, 199}

Hours == {0, 59, 60, 32767} \X {0, 59, 32767} \X {0, 23, 24, 5000}

\* Days, months and years; seconds, minutes and hours on three days; and fields
\* below 0.
InCalls ==
  {Fields(0, 0, 0, d[2], d[1], d[3]) : d \in Dates} \cup
  {Fields(h[1], h[2], h[3], d[1], d[2], d[3]) :
     h \in Hours, d \in {<<28, 1, 100>>, <<31, 11, 99>>}} \cup
  {Fields(-1, 0, 0, 1, 0, 70), Fields(0, -5, 0, 1, 0, 70), Fields(-3600, 0, 0, 1, 0, 71),
   Fields(0, 0, -24, 0, 0, 71), Fields(0, 0, -48, 1, 0, 71), Fields(0, 0, 0, 1, 0, -1),
   Fields(0, 0, 0, 32767, 0, 70)}

\* The last second a signed long can tell is 11647 of day 24855.
InClocks ==
  [days : {0, 58, 59, 364, 365, 789, 790, 11016, 11017, 24855}, secs : {0, 59, 3600, 11647, 11648}]

InZones == {0, 3600, -3600}

InFormats ==
  {<<>>, <<"c", "letter">>, <<"A", "letter", "B">>, <<"letter", "letter", "unknown", "%">>,
   <<"D", "Y", "F", "d", "j", "w">>}

InTexts == {<<>>, <<"1", NEWLINE, "x">>}

InOffsets == {-1, 0, 1, 2}

InScans ==
  {<<Integer(10, TRUE, UINT_MAX, 2), Literal("x")>>, <<Integer(0, TRUE, UINT_MAX, 2)>>,
   <<CharSet(Inverted({"1"}), TRUE, UINT_MAX)>>}

InAlphabet == {"0", "1", "8", "x", "-", " "}

InInputs ==
  UNION {[1..n -> InAlphabet] : n \in 0..3} \cup {<<"-">> \o t : t \in [1..3 -> InAlphabet]}

InProbes ==
  {<<Integer(base, TRUE, width, IntBytes)>> :
     base \in {0, 10, 16}, width \in {1, 2, UINT_MAX}, IntBytes \in {1, 2}} \cup
  {<<Integer(8, TRUE, UINT_MAX, 4), Integer(10, TRUE, UINT_MAX, 2)>>,
   <<Integer(10, FALSE, 1, 2), Conversion("count", TRUE, UINT_MAX), Conversion("chars", TRUE, 2)>>,
   <<Conversion("string", TRUE, 2), Space, Literal("x"), Conversion("string", TRUE, UINT_MAX)>>,
   <<CharSet({"0", "1"}, TRUE, UINT_MAX), Conversion("chars", TRUE, UINT_MAX)>>,
   <<CharSet(Inverted({"0", "1"}), FALSE, 2), Integer(10, TRUE, UINT_MAX, 2)>>,
   <<Conversion("pointer", TRUE, UINT_MAX), Unsupported>>,
   <<Literal("-"), Conversion("count", FALSE, UINT_MAX), Conversion("count", TRUE, UINT_MAX),
     Integer(16, TRUE, UINT_MAX, 2)>>}
=============================================================================
