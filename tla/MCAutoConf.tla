----------------------------- MODULE MCAutoConf -----------------------------
(* A bool, and a string that has a value only while the bool is `y'.         *)
EXTENDS AutoConf

MCSym == {"NET", "ADDR"}

MCBool == {"NET"}

MCVal == {"n", "y"}

\* "y" and "n" stand for two strings when they are values of ADDR.
MCSettle(c) ==
    LET net == IF c["NET"] = Unset THEN "n" ELSE c["NET"]
    IN [NET |-> net,
        ADDR |-> IF net = "n" THEN Unset ELSE IF c["ADDR"] = Unset THEN "y" ELSE c["ADDR"]]
=============================================================================
