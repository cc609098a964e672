----------------------------- MODULE MCOpening -----------------------------
(***************************************************************************)
(* Opening with two ports, one of them without devices, and four devices   *)
(* of which each installation has two: EZ-ZONEs on Standard Bus, one       *)
(* without Modbus; one of each protocol; an F4P and an SD.                 *)
(***************************************************************************)
EXTENDS Opening, TLC

CONSTANTS p, q, plain, full, f4p, sd

MCPlugged == [d \in Device |-> p]
MCMake ==
    plain :> [family |-> "ez", modbus |-> FALSE, unit |-> "F", decimals |-> 0] @@
    full :> [family |-> "ez", modbus |-> TRUE, unit |-> "F", decimals |-> 0] @@
    f4p :> [family |-> "f4p", modbus |-> TRUE, unit |-> "C", decimals |-> 1] @@
    sd :> [family |-> "sd", modbus |-> TRUE, unit |-> "C", decimals |-> 0]

\* Nobody asks address 0: a device that is not there.
Std(addr) == [proto |-> "std", baud |-> 9600, parity |-> "E", std |-> addr, mod |-> 1]
Mod(addr, baud, par) ==
    [proto |-> "mod", baud |-> baud, parity |-> par, std |-> 1, mod |-> addr]
Installed(a, b, c, d) == plain :> a @@ full :> b @@ f4p :> c @@ sd :> d
Off == Mod(0, 9600, "N")
MCSettings ==
    {Installed(Std(1), Std(2), Off, Off),
     Installed(Std(1), Mod(1, 9600, "E"), Off, Off),
     Installed(Std(0), Off, Mod(1, 19200, "N"), Mod(2, 19200, "N"))}

Modbus(baud, par) == [baud |-> baud, parity |-> par]
Dev(port, profile, proto, framing, addr, identify) ==
    [kind |-> "open_device", port |-> port, profile |-> profile, proto |-> proto,
     framing |-> framing, addr |-> addr, identify |-> identify]
Change(kind, proto, framing, addr, target, confirm) ==
    [kind |-> kind, port |-> p, profile |-> "ez", proto |-> proto,
     framing |-> framing, addr |-> addr, target |-> target, confirm |-> confirm]
Entry(proto, profile) == [proto |-> proto, profile |-> profile]
Scan(ports, bauds, plan, addrs) ==
    [kind |-> "find_devices", ports |-> ports, bauds |-> bauds, plan |-> plan,
     addrs |-> addrs, prune |-> TRUE]

MCCalls ==
    {Dev(p, "ez", "std", Stdbus, 1, TRUE),
     Dev(q, "ez", "std", Stdbus, 20, TRUE),
     Dev(p, "ez", "auto", Modbus(9600, "E"), 1, FALSE),
     Dev(p, "ez", "auto", Stdbus, 20, TRUE),
     Dev(p, "f4p", "mod", Modbus(19200, "N"), 1, TRUE),
     Dev(p, "sd", "mod", Modbus(19200, "N"), 2, TRUE),
     [kind |-> "identify", port |-> p],
     Change("change_baud", "mod", Modbus(9600, "E"), 1, 19200, TRUE),
     Change("change_baud", "mod", Modbus(9600, "E"), 1, 4800, TRUE),
     Change("change_modbus_address", "mod", Modbus(9600, "E"), 1, 2, TRUE),
     Change("change_stdbus_address", "std", Stdbus, 1, 2, TRUE),
     Change("change_stdbus_address", "std", Stdbus, 1, 2, FALSE),
     Change("change_protocol_mode", "auto", Stdbus, 1, "mod", TRUE),
     Change("change_protocol_mode", "std", Stdbus, 2, "mod", TRUE),
     Scan(<<p>>, <<38400>>, <<Entry("std", "ez")>>, <<1, 20, 2>>),
     Scan(<<q>>, <<38400, 19200>>, <<Entry("std", "ez")>>, <<1>>),
     Scan(<<p>>, <<38400, 19200>>, <<Entry("mod", "f4p"), Entry("mod", "sd")>>, <<1, 2>>)}
=============================================================================
