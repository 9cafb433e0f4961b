-------------------------------- MODULE MCDataLab --------------------------------
(* Bounds of the model-checked instance of DataLab: eight-bit words, what      *)
(* random_val may draw for one, two and three arguments, texts around every    *)
(* boundary, and command lines in which the options meet.                      *)
EXTENDS DataLab

SpreadWords == {Bits[7 * k] : k \in 0 .. 36}
SomeRandoms == <<Word, SpreadWords, {Zero, Unit, OddMask, Compl(OddMask)}>>

Limits     == {-2 ^ W, -2 ^ (W - 1) - 1, -2 ^ (W - 1), -1, 0, 1, 2 ^ (W - 1) - 1,
               2 ^ (W - 1), 2 ^ W - 1, 2 ^ W}
Floats     == {Zero, Tmin, Unit, FracMask, {FB}, Compl({FB, FB + 1}), ExpMask,
               Tmin \union ExpMask, ExpMask \union Unit}
IntTexts   == {IntText(n, FALSE) : n \in Limits} \union {IntText(0, TRUE), IntText(1, TRUE)}
SomeTexts  == IntTexts \union {FloatText(u, rest) : u \in Floats, rest \in BOOLEAN}

\* Zero or one value for an argument; two for the same one meet in Twice.
Fix(o)     == {<<>>} \union {<< <<o, t>> >> : t \in IntTexts \union
                                  {FloatText({FB}, FALSE), FloatText(Unit, TRUE)}}
Few(o)     == {<< <<o, IntText(n, FALSE)>> >> : n \in {0, 1, 127, 255}}
Twice      == {<< <<"f", name>> >> \o a \o b :
                 name \in {"isTmax", "float_i2f", "float_f2i"}, a \in Fix("1"), b \in Few("1")}
Pairs      == {<< <<"f", name>> >> \o a \o b : name \in {"isLessOrEqual", "bitXor"},
                                              a \in Few("1"), b \in Fix("2")}
Triples    == {<< <<"f", "conditional">> >> \o a \o b \o c :
                 a \in Few("1"), b \in Few("3"), c \in {<<>>} \union Few("2")}
Others     == {<<>>, << <<"h">> >>, << <<"g">>, <<"?">> >>, << <<"r", -1>> >>,
               << <<"r", 5>>, <<"f", "negate">>, <<"g">> >>, << <<"f", "none">> >>, << <<"f", "howManyBits">> >>,
               << <<"T", 0>>, <<"f", "tmin">> >>, << <<"T", 0>>, <<"f", "howManyBits">> >>,
               << <<"T", -1>>, <<"T", 5>>, <<"f", "tmin">> >>}
SomeCommandLines == Twice \union Pairs \union Triples \union Others
===============================================================================
