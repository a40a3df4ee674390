------------------------------ MODULE Cmdline -------------------------------
(***************************************************************************)
(* The kernel command line of src/kernel/cmdline.rs.  parse_cmdline walks  *)
(* the whitespace-separated options and stores console specs and the root  *)
(* device in two spin-locked statics that are never reset, so a second     *)
(* call adds to the first.  An option is abstracted to the prefix that     *)
(* selects its handler (key) and the text after it (arg), a sequence of    *)
(* characters; "é" stands for a character of two UTF-8 bytes.  A stored    *)
(* byte is the character and its position in that character's encoding,   *)
(* so a copy that stops inside a character is visible to from_utf8.        *)
(* u32::MAX of parse_baud_rate is the constant BaudMax.                    *)
(***************************************************************************)
EXTENDS Integers, Sequences, SequencesExt, TLC

CONSTANTS
    Cmdlines,   \* command lines parse_cmdline is called with (sequences of options)
    BaudMax,    \* u32::MAX, where parse_baud_rate saturates
    MaxCalls    \* bound on parse_cmdline calls

VARIABLES
    consoles,   \* CMDLINE_CONSOLE: specs[0 .. count-1] as a sequence
    root,       \* CMDLINE_ROOT: path[0 .. path_len-1]
    usbTrace,   \* usb::enable_usb_trace has been called
    given       \* history: the command lines parsed so far

cvars == <<consoles, root, usbTrace, given>>

MaxConsoleSpecs == 4
DeviceCap == 16
PathCap == 64
Digits == {"0", "1", "2", "3", "4", "5", "6", "7", "8", "9"}
DigitVal == [c \in Digits |-> CHOOSE d \in 0 .. 9 : ToString(d) = c]
MinOf(a, b) == IF a < b THEN a ELSE b

(* str::as_bytes: each character as its UTF-8 bytes. *)
Width(c) == IF c = "é" THEN 2 ELSE 1
AsBytes(s) == FlattenSeq([i \in 1 .. Len(s) |->
                            [p \in 1 .. Width(s[i]) |-> [ch |-> s[i], at |-> p]]])

(* A copy of at most cap bytes: len = bytes.len().min(cap). *)
Cut(bs, cap) == SubSeq(bs, 1, MinOf(Len(bs), cap))

(* core::str::from_utf8: Ok(text) as <<text>>, or Err as <<>> when the    *)
(* bytes stop inside a character.                                          *)
FromUtf8(bs) ==
    IF bs # <<>> /\ Last(bs).at # Width(Last(bs).ch) THEN <<>>
    ELSE LET starts == SelectSeq(bs, LAMBDA b : b.at = 1)
         IN  <<[i \in 1 .. Len(starts) |-> starts[i].ch]>>

(* ConsoleSpec::device_name (unwrap_or("")) and matches. *)
DeviceName(spec) == LET r == FromUtf8(spec.device) IN IF r = <<>> THEN <<>> ELSE r[1]
Matches(spec, name) == DeviceName(spec) = name

(* parse_baud_rate: the digits before the first non-digit, accumulated    *)
(* with saturating_mul(10) and saturating_add.                             *)
SatAdd(a, b) == MinOf(a + b, BaudMax)
RECURSIVE BaudLoop(_, _)
BaudLoop(ds, acc) ==
    IF ds = <<>> THEN acc
    ELSE BaudLoop(Tail(ds), SatAdd(MinOf(acc * 10, BaudMax), DigitVal[Head(ds)]))
LeadingDigits(s) ==
    LET stop == SelectInSeq(s, LAMBDA c : c \notin Digits)
    IN  IF stop = 0 THEN s ELSE SubSeq(s, 1, stop - 1)
ParseBaudRate(s) == BaudLoop(LeadingDigits(s), 0)

(* parse_console_option: ignored once count reaches MAX_CONSOLE_SPECS;    *)
(* otherwise the device before the first comma, copied up to 16 bytes,    *)
(* and the baud rate after it (0 without a comma), stored at count.       *)
ParseConsoleOption(cons, arg) ==
    IF Len(cons) >= MaxConsoleSpecs THEN cons
    ELSE LET pos == SelectInSeq(arg, LAMBDA c : c = ",")
             device == IF pos = 0 THEN arg ELSE SubSeq(arg, 1, pos - 1)
             baud == IF pos = 0 THEN 0 ELSE ParseBaudRate(SubSeq(arg, pos + 1, Len(arg)))
         IN  Append(cons, [device |-> Cut(AsBytes(device), DeviceCap), baud |-> baud])

(* parse_root_option / RootDevice::set_path: the path copied up to 64     *)
(* bytes, replacing any earlier one.                                       *)
SetPath(arg) == Cut(AsBytes(arg), PathCap)

(* One iteration of parse_cmdline's loop; unknown options are ignored. *)
ApplyOption(st, opt) ==
    CASE opt.key = "usb_trace" -> [st EXCEPT !.usb = TRUE]
      [] opt.key = "console" -> [st EXCEPT !.cons = ParseConsoleOption(@, opt.arg)]
      [] opt.key = "root" -> [st EXCEPT !.root = SetPath(opt.arg)]
      [] OTHER -> st

(* RootDevice::path and get_root_device: None when path_len is 0 or the   *)
(* bytes are not UTF-8.                                                    *)
GetRootDevice == IF Len(root) > 0 THEN FromUtf8(root) ELSE <<>>

(* is_cmdline_console and primary_cmdline_console. *)
IsCmdlineConsole(name) == \E i \in 1 .. Len(consoles) : Matches(consoles[i], name)
PrimaryCmdlineConsole == IF Len(consoles) > 0 THEN <<Last(consoles)>> ELSE <<>>

Init ==
    /\ consoles = <<>> /\ root = <<>> /\ usbTrace = FALSE
    /\ given = <<>>

(* parse_cmdline: the whole loop over the line's options. *)
ParseCmdline(line) ==
    /\ Len(given) < MaxCalls
    /\ LET st == FoldLeft(ApplyOption, [cons |-> consoles, root |-> root, usb |-> usbTrace], line)
       IN  /\ consoles' = st.cons
           /\ root' = st.root
           /\ usbTrace' = st.usb
    /\ given' = Append(given, line)

Next == \E line \in Cmdlines : ParseCmdline(line)

Spec == Init /\ [][Next]_cvars

-----------------------------------------------------------------------------
(* Spec 6, boot command-line, read over every option parsed so far: the   *)
(* console specs are the first 4 console= options, each the text before   *)
(* its first comma cut to 16 bytes and the value of the longest run of    *)
(* decimal digits after the comma (at most u32::MAX); later console=      *)
(* options are dropped; the root path is the last root= option cut to 64  *)
(* bytes; usb_trace is on once given.  Checks the count cap, the comma    *)
(* split and the saturating baud loop against that reading.               *)
Options == FlattenSeq(given)
OptionArgs(k) == LET os == SelectSeq(Options, LAMBDA o : o.key = k)
                 IN  [i \in 1 .. Len(os) |-> os[i].arg]
LongestPrefix(s, Ok(_)) ==
    CHOOSE p \in Prefixes(s) :
        /\ \A i \in 1 .. Len(p) : Ok(p[i])
        /\ Len(p) = Len(s) \/ ~Ok(s[Len(p) + 1])
Decimal(ds) == FoldLeft(LAMBDA a, c : 10 * a + DigitVal[c], 0, ds)
SpecName(arg) == LongestPrefix(arg, LAMBDA c : c # ",")
SpecBaud(arg) ==
    IF Len(SpecName(arg)) = Len(arg) THEN 0
    ELSE MinOf(BaudMax, Decimal(LongestPrefix(SubSeq(arg, Len(SpecName(arg)) + 2, Len(arg)),
                                              LAMBDA c : c \in Digits)))
ParsedAsSpecified ==
    LET cs == OptionArgs("console")
        rs == OptionArgs("root")
    IN  /\ consoles = [i \in 1 .. MinOf(Len(cs), MaxConsoleSpecs) |->
                          [device |-> Cut(AsBytes(SpecName(cs[i])), DeviceCap),
                           baud |-> SpecBaud(cs[i])]]
        /\ root = IF rs = <<>> THEN <<>> ELSE Cut(AsBytes(Last(rs)), PathCap)
        /\ usbTrace = (OptionArgs("usb_trace") # <<>>)

(* The module comment of cmdline.rs: "The last one specified is the       *)
(* primary console": primary_cmdline_console holds the device of the last *)
(* console= option, cut to 16 bytes as every stored device is.           *)
PrimaryIsLast ==
    LET cs == OptionArgs("console")
    IN  cs # <<>> =>
          /\ PrimaryCmdlineConsole # <<>>
          /\ PrimaryCmdlineConsole[1].device = Cut(AsBytes(SpecName(Last(cs))), DeviceCap)

(* The module comment of cmdline.rs: "If specified, kernel will attempt   *)
(* to mount this device as root".  A root= option with a path makes       *)
(* get_root_device return Some, whatever set_path's 64-byte cut leaves.   *)
RootDeviceReported ==
    LET rs == OptionArgs("root")
    IN  rs # <<>> /\ Last(rs) # <<>> => GetRootDevice # <<>>
=============================================================================
