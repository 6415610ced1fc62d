-------------------------- MODULE MCLocationDrawer --------------------------
(* A small instance of the form of a location: the defaults, one other     *)
(* number, a zero, a negative number, a fraction, a text that is no        *)
(* number, one with spaces around it, a key.                               *)
EXTENDS LocationDrawer, Sequences, TLC

CONSTANT half
OneFraction == {half}

SomeNumbers == {-1, 0, 7, 60, 64, 900, 1080, 2000}
Named == {"-1", "0", "7", "60", "64", "900", "1080", "2000"}
OptionTexts ==
    {"qrcode", "tile", "none", "nvenc", "low", "medium", "high", "highest"}
(* "5000k" is the default bitrate and "k1" stands for a good key.          *)
SomeTexts == Named \cup OptionTexts \cup {"", "5000k", " 5000k", "07", "0.5", "k1"}

StringOf == [n \in SomeNumbers |-> ToString(n)]
NumberOf ==
    [t \in SomeTexts |->
        IF t = "" THEN 0 ELSE IF t = "07" THEN 7 ELSE IF t = "0.5" THEN half
        ELSE IF t \in Named THEN CHOOSE n \in SomeNumbers : StringOf[n] = t
        ELSE NoNumber]
TrimOf == [t \in SomeTexts |-> IF t = " 5000k" THEN "5000k" ELSE t]
SomeKeys == {"k1"}

(* An empty object, a good one, one of the wrong type, an unknown field.   *)
SomeJSON ==
    {EmptyObject, "fps" :> 7, "fps" :> NoNumber, "bitrate" :> " 5000k", "color" :> 7}
=============================================================================
