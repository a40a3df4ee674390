----------------------------- MODULE MCCmdline -----------------------------
(***************************************************************************)
(* Three command lines.  Between them they give six console= options, so  *)
(* the cap of 4 is reached with one line parsed twice or two different    *)
(* lines.  They also give: a device longer than 16 bytes; one whose 16th  *)
(* byte is the first half of "é"; no device before the comma; baud texts  *)
(* with a suffix, with no digits, and above BaudMax before a second       *)
(* comma; root paths replaced, longer than 64 bytes, and cut inside "é";  *)
(* usb_trace; an unknown option.  BaudMax stands in for u32::MAX, which   *)
(* TLC's integers cannot hold.                                             *)
(***************************************************************************)
EXTENDS Cmdline

Str(c, n) == [i \in 1 .. n |-> c]
Opt(k, a) == [key |-> k, arg |-> a]
Console(dev, baud) == Opt("console", IF baud = "none" THEN dev ELSE dev \o <<",">> \o baud)

L1 == << Console(Str("a", 5), <<"9", "6", "0", "0", "n", "8">>),
         Opt("root", <<"/", "d", "e", "v", "/", "s", "d", "0">>),
         Opt("usb_trace", <<>>), Opt("other", <<"q">>) >>
L2 == << Console(Str("b", 17), "none"),
         Console(<<>>, <<"9", "9", "9", "9", "9", "9", ",", "1">>),
         Opt("root", Str("a", 70)) >>
L3 == << Console(Str("a", 3), <<"n", "8">>),
         Console(Str("c", 15) \o <<"é">>, <<"1", "2">>),
         Console(Str("a", 5), <<"9", "6", "0", "0", "n", "8">>),
         Opt("root", Str("d", 63) \o <<"é">>) >>

MCCmdlines == {L1, L2, L3}
=============================================================================
