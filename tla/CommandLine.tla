---------------------------- MODULE CommandLine ----------------------------
(***************************************************************************)
(* main.cpp's command line: the getopt_long loop that fills the static     *)
(* ExecutionOptions, the checks made before the reader is opened, and the  *)
(* choice main makes after it has read the reader's version.              *)
(*                                                                         *)
(* An argument list is the sequence of what getopt_long returns: the      *)
(* option character and its optarg.  "?" stands for what getopt_long       *)
(* returns for an unknown option or a missing argument.  The optarg of -b  *)
(* and -m is the string itself; for -c and -t it is the value that        *)
(* strtol(optarg, nullptr, 0) returns for it (a long of 64 bits), which    *)
(* the assignment then converts to the width of the field.                *)
(***************************************************************************)
EXTENDS Integers, Sequences
LOCAL INSTANCE SequencesExt

\* enum Modulation and enum Bitrate.
Modulations == {"MODULATION_UNKNOWN", "MODULATION_MANCHESTER"}
Bitrates == {"BITRATE_UNKNOWN", "BITRATE_16", "BITRATE_32", "BITRATE_64"}

\* shortOpts "vhRrpb:m:c:t:" and the long options with the same values.
OptionChars == {"v", "h", "R", "r", "p", "b", "m", "c", "t"}

\* getopt_long's result: an option of shortOpts with its optarg, or "?";
\* value is strtol's result for the optarg of -c and -t.
Opt(c, arg) == [opt |-> c, arg |-> arg, value |-> 0]
NumOpt(c, n) == [opt |-> c, arg |-> "", value |-> n]

\* ExecutionOptions::ExecutionOptions.
DefaultOptions ==
    [showHelp |-> FALSE, resetIface |-> FALSE, read |-> FALSE, write |-> FALSE,
     customerId |-> 0, token |-> <<0, 0, 0, 0>>,
     modulation |-> "MODULATION_UNKNOWN", bitrate |-> "BITRATE_UNKNOWN"]

\* The value strtol's long takes in the uint8_t customerId and the
\* uint32_t token: the conversion to an unsigned type is modulo 2^w.  The
\* token is kept as its four bytes, most significant first, as
\* Em4100Eprom takes it.
AsUint8(n) == n % 256
AsUint32(n) == [i \in 1 .. 4 |-> (n \div 2 ^ (8 * (4 - i))) % 256]

\* Variant of BitrateOf that forgets the bitrate on a value it does not
\* know.
BitrateOfForgets(arg, bitrate) ==
    CASE arg = "16" -> "BITRATE_16"
      [] arg = "32" -> "BITRATE_32"
      [] arg = "64" -> "BITRATE_64"
      [] OTHER -> "BITRATE_UNKNOWN"

\* -b: only "16", "32" and "64" are taken; any other value leaves the
\* bitrate as it was.
BitrateOf(arg, bitrate) ==
    CASE arg = "16" -> "BITRATE_16"
      [] arg = "32" -> "BITRATE_32"
      [] arg = "64" -> "BITRATE_64"
      [] OTHER -> bitrate

\* One pass of the switch on getopt_long's result.  -v only raises the
\* log level; anything else getopt_long returns shows the help.
ParseOption(options, o) ==
    CASE o.opt = "h" -> [options EXCEPT !.showHelp = TRUE]
      [] o.opt = "r" -> [options EXCEPT !.read = TRUE]
      [] o.opt = "p" -> [options EXCEPT !.write = TRUE]
      [] o.opt = "R" -> [options EXCEPT !.resetIface = TRUE]
      [] o.opt = "b" -> [options EXCEPT !.bitrate = BitrateOf(o.arg, @)]
      [] o.opt = "m" -> IF o.arg = "manchester"
                        THEN [options EXCEPT !.modulation = "MODULATION_MANCHESTER"]
                        ELSE options
      [] o.opt = "c" -> [options EXCEPT !.customerId = AsUint8(o.value)]
      [] o.opt = "t" -> [options EXCEPT !.token = AsUint32(o.value)]
      [] o.opt = "v" -> options
      [] OTHER -> [options EXCEPT !.showHelp = TRUE]

\* The while loop over getopt_long, in argument order.
ParseOptions(argv) == FoldLeft(ParseOption, DefaultOptions, argv)

\* The checks before the reader is opened: the help, and a write without a
\* known modulation or bitrate, make main return -1 at once.
Rejected(options) ==
    \/ options.showHelp
    \/ options.write /\ options.modulation = "MODULATION_UNKNOWN"
    \/ options.write /\ options.bitrate = "BITRATE_UNKNOWN"

\* Variant of Operation that looks at a read before the reset.
OperationReadFirst(options) ==
    CASE options.read -> "read"
      [] options.resetIface -> "reset"
      [] ~options.read /\ ~options.write -> "usage"
      [] OTHER -> "write"

\* After getVersion: a reset ends the run; without a read or a write the
\* help is shown and main returns 0; a read wins over a write.
Operation(options) ==
    CASE options.resetIface -> "reset"
      [] ~options.read /\ ~options.write -> "usage"
      [] options.read -> "read"
      [] OTHER -> "write"
=============================================================================
