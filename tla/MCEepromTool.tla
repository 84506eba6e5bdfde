---------------------------- MODULE MCEepromTool ----------------------------
(* Serial numbers that are alike in some words, one with an f and one of    *)
(* thirteen characters, and devices as they may be found, for model         *)
(* checking.                                                                *)
EXTENDS EepromTool

Zeros == [k \in 1 .. 12 |-> 48]
OneTwo == [Zeros EXCEPT ![1] = 49, ![2] = 50]
Letters == [k \in 1 .. 12 |-> IF k % 2 = 0 THEN 65 ELSE 101]
WithF == [Zeros EXCEPT ![12] = 102]
SomeSerials == {Zeros, OneTwo, Letters, WithF, Append(Zeros, 48)}

\* The lengths of the strings, the first and a middle character of the serial.
SomePlaces == {0, 7, 9, 110}
SomeValues == {0, 32770, 65537}
SomeCuts == {0, 8, 110, 127}

\* A new device, one that holds zeros, and one that another tool programmed
\* without a serial number: its length byte is 0.
Bare == [Build("232h", Struct(Zeros)) EXCEPT ![19] = 0]
SomeContents == {Erased, [w \in Words |-> 0], ToWords(Bare)}
=============================================================================
