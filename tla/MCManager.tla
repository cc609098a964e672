------------------------------ MODULE MCManager ------------------------------
(***************************************************************************)
(* Manager with two operating tasks, two names, one owned port and one     *)
(* lent transport that no Modbus client fits.                              *)
(***************************************************************************)
EXTENDS Manager

CONSTANTS a, b, x, y, tty, lent

MCTask == {a, b}
MCName == {x, y}
MCOwned == {tty}
MCLent == {lent}

Ask(what, name, port, kind) == [do |-> what, name |-> name, port |-> port, kind |-> kind]

\* Both names share the owned port in the common case; the rest are the mixes
\* and the misfits.
MCRequests ==
    {Ask("add", x, tty, "stdbus"), Ask("add", y, tty, "stdbus"),
     Ask("add", y, tty, "modbus_rtu"), Ask("add", x, lent, "modbus_rtu"),
     Ask("add", y, lent, "stdbus"), Ask("add", x, Solo, "auto"),
     Ask("remove", x, tty, "stdbus"), Ask("remove", y, tty, "stdbus"),
     Ask("close", x, tty, "stdbus")}
=============================================================================
