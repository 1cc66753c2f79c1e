------------------------------- MODULE MCCli -------------------------------
(* A small instance of the command line: three files with the imports that *)
(* make chains, diamonds and cycles, two packages, one of two sources.     *)
EXTENDS Cli

CONSTANTS a, b, c, u1, u2, u3

Of(imports) == [parses |-> TRUE, imports |-> imports]
MCSources ==
    [f \in Files |->
        IF f = a THEN {Of(<<b>>), Of(<<c, b>>), Broken}
        ELSE IF f = b THEN {Of(<<>>), Of(<<c>>), Of(<<a>>), Absent}
        ELSE {Of(<<Library, Foreign>>), Of(<<Unknown>>)}]
MCNameOf == [u \in Urls |-> IF u = u3 THEN 2 ELSE 1]
=============================================================================
