------------------------------ MODULE MCNaming ------------------------------
(* Naming for TLC: service processes, their names, subnets and machines.   *)
EXTENDS Naming

CONSTANTS w1, w2, b, c, none

(* w1 and w2 are two launches of the welcome service, on one machine; b    *)
(* and c are other services.                                               *)
MCServices3 == {w1, w2, b}
MCServices4 == {w1, w2, b, c}
MCName == [s \in Services |-> CASE s \in {w1, w2} -> "WS" [] s = b -> "EGS" [] OTHER -> "FS"]
MCOneNet == [s \in Services |-> {"lan"}]
MCTwoNets == [s \in Services |->
                IF s = b THEN {"lan"} ELSE IF s = c THEN {"wan"} ELSE {"lan", "wan"}]
MCBridge == [s \in Services |->
               CASE s = w1 -> {"lan"} [] s = b -> {"wan"} [] OTHER -> {"lan", "wan"}]
MCMachine == [s \in Services |-> IF s \in {w1, w2} THEN "m1" ELSE "m2"]
MCDynamic == [s \in Services |-> 0]
(* b and w1 have the same SId in their config files.                        *)
MCFixed == [s \in Services |-> IF s \in {b, w1} THEN 1 ELSE 0]
=============================================================================
