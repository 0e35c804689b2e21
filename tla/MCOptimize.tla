------------------------------ MODULE MCOptimize ------------------------------
(* Two indicators with a parameter of the same name, one of them tunable    *)
(* to two values, and a fixed parameter.                                    *)
EXTENDS Optimize

Number(alias, name, value) ==
    [alias |-> alias, name |-> name, tuned |-> FALSE,
     default |-> value, min |-> value, max |-> value, step |-> 1]
Tunable(alias, name, default, min, max, step) ==
    [alias |-> alias, name |-> name, tuned |-> TRUE,
     default |-> default, min |-> min, max |-> max, step |-> step]

MCParameters ==
    {Tunable("fast", "period", 2, 2, 5, 2), Tunable("slow", "period", 6, 6, 7, 5),
     Number("bands", "period", 5)}
MCWorst == -1
=============================================================================
