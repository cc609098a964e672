---------------------------- MODULE MCStdBusPort ----------------------------
(***************************************************************************)
(* StdBusPort on two tasks and two controllers: d1 answers for p and q, d2 *)
(* has no p and no second instance of q.                                   *)
(***************************************************************************)
EXTENDS StdBusPort

CONSTANTS t1, t2, d1, d2, p, q

MCTask == {t1, t2}
MCDevice == {d1, d2}
MCParam == {p, q}
MCInst == {1, 2}

MCBody ==
    [c \in Call |-> IF c.dev = d2 /\ c.param = p THEN "reject"
                    ELSE IF c.dev = d2 /\ c.inst = 2 THEN "error"
                    ELSE "ok"]

\* p has a single instance.
MCEncodable == {c \in Call : c.param = p => c.inst = 1}

Read(d, n, i) == [dev |-> d, cmd |-> "read", param |-> n, inst |-> i]
Write(d, n) == [dev |-> d, cmd |-> "write", param |-> n, inst |-> 1]

Batch(calls) == [calls |-> calls, hold |-> TRUE, skip |-> TRUE, confirm |-> FALSE]
Plain(calls, ok) == [calls |-> calls, hold |-> FALSE, skip |-> FALSE, confirm |-> ok]

\* A port batch over both devices with an instance p does not have, one
\* confirmed and one unconfirmed write, a two-step read that stops at its
\* first error.
MCJobs == {Batch(<<Read(d1, p, 1), Read(d1, p, 2), Read(d2, p, 1)>>),
           Plain(<<Write(d1, q)>>, TRUE),
           Plain(<<Write(d1, q)>>, FALSE),
           Plain(<<Read(d1, p, 1), Read(d2, q, 2)>>, FALSE)}

\* Single reads only: one the device rejects, one it answers.
MissingJobs == {Plain(<<Read(d2, p, 1)>>, FALSE), Plain(<<Read(d2, q, 1)>>, FALSE)}
=============================================================================
