------------------------------ MODULE MC_Platform ------------------------------
(* Platform for TLC: the instances of its parts. *)
EXTENDS Platform

CONSTANTS b1, b2, b3, b4, e1, e2, h1, h2

\* Two callers can wait for the single slot while the fourth is refused.
MCPool == [callers |-> {b1, b2, b3, b4}, concurrent |-> 1, queue |-> 3, lost |-> 1]

\* One event has one handler, the other two.
MCPairs == {<<e1, h1>>, <<e2, h1>>, <<e2, h2>>}

\* Sessions of two bars and of the second of them only, with time zones at both ends,
\* at neither or at one.
MCRequests == {[range |-> <<1, 2>>, zones |-> <<"naive", "naive">>],
               [range |-> <<2, 2>>, zones |-> <<"aware", "naive">>]}
=============================================================================
