----------------------------- MODULE ShellClient -----------------------------
(* The client of the shell service (client/commandline.cpp): the thread that *)
(* reads the terminal, with its escape sequences, the loop that prints what  *)
(* the device sends, and "adb bugreport" (client/bugreport.cpp), which cuts  *)
(* that into lines and pulls the report they name.                           *)
EXTENDS Integers, Sequences, SequencesExt
CONSTANTS
    Bugreport,      \* "adb bugreport", otherwise "adb shell"
    ShellProtocol,  \* the device has shell_v2
    RawStdin,       \* a terminal is allocated, so that escapes are looked for
    Inputs,         \* what may be typed: sequences of "~", ".", "nl", "x"
    MaxSizes,       \* changes of the size of the window
    Text,           \* what the command prints: lines [kind, arg]
    Versions,       \* of bugreportz: 0 is none, then 10, 11, 12
    Args,           \* of adb bugreport: "none", "--stream", "dir", "file"
    MaxChunk,       \* pieces of lines that arrive at once
    WireRoom        \* chunks on their way at a time

VARIABLE sc

(* A line is sent in three pieces, of which the last is the end of the line; *)
(* a chunk ends after any of them.                                           *)
Pieces == FlattenSeq([i \in 1..Len(Text) |-> <<<<i, 1>>, <<i, 2>>, <<i, 3>>>>])
IsEol(piece) == piece[2] = 3

(* What is returned when no exit status comes.                               *)
success_at_first == "0"
disconnected == IF ShellProtocol THEN "255" ELSE "0"

Init ==
    \E in \in Inputs :
    sc = [typed |-> in, in |-> in, state |-> "StartOfLine", stdin |-> "read", sent |-> <<>>,
          sizes |-> 0, left |-> MaxSizes, wire |-> <<>>, made |-> 0, device |-> "runs",
          mode |-> IF Bugreport THEN "version" ELSE "shell", printed |-> <<>>,
          exit_code |-> disconnected, ret |-> "none",
          show_progress |-> FALSE, dest_dir |-> FALSE, line |-> <<>>, src |-> 0, name |-> 0,
          status |-> 0, invalid |-> 0, last |-> 0, shown |-> <<>>, pulled |-> 0]
Running == sc.ret = "none" /\ sc.mode # "version"

-----------------------------------------------------------------------------
(* stdin_read_thread_loop: input is sent one key at a time, or two after an  *)
(* escape; "~." leaves the client with status 0.                             *)
WindowSize ==
    /\ Running /\ ~Bugreport /\ sc.stdin = "read" /\ sc.left > 0
    /\ sc' = [sc EXCEPT !.left = @ - 1, !.sizes = IF ShellProtocol THEN @ + 1 ELSE @]
EndOfInput ==
    /\ Running /\ ~Bugreport /\ sc.stdin = "read" /\ sc.in = <<>>
    /\ sc' = [sc EXCEPT !.stdin = IF ShellProtocol THEN "closed" ELSE "left open"]

escape_every_line(s, ch) ==
    IF ch = "~" /\ s # "MidFlow" THEN [state |-> "InEscape", out |-> <<>>, exit |-> FALSE]
    ELSE [state |-> IF ch = "nl" THEN "StartOfLine" ELSE "MidFlow",
          out |-> IF s = "InEscape" THEN <<"~", ch>> ELSE <<ch>>,
          exit |-> s = "InEscape" /\ ch = "."]
Escape(s, ch) ==
    IF ch = "~" THEN
        IF s = "StartOfLine" THEN [state |-> "InEscape", out |-> <<>>, exit |-> FALSE]
        ELSE [state |-> "MidFlow", out |-> <<ch>>, exit |-> FALSE]
    ELSE [state |-> IF ch = "nl" THEN "StartOfLine" ELSE "MidFlow",
          out |-> IF s = "InEscape" THEN <<"~", ch>> ELSE <<ch>>,
          exit |-> s = "InEscape" /\ ch = "."]
ReadStdin ==
    /\ Running /\ ~Bugreport /\ sc.stdin = "read" /\ sc.in # <<>>
    /\ LET e == IF RawStdin THEN Escape(sc.state, Head(sc.in))
                ELSE [state |-> sc.state, out |-> <<Head(sc.in)>>, exit |-> FALSE]
       IN  sc' = IF e.exit THEN [sc EXCEPT !.in = Tail(@), !.ret = "left"]
                 ELSE [sc EXCEPT !.in = Tail(@), !.state = e.state, !.sent = @ \o e.out]
WriteFails ==
    /\ Running /\ ~Bugreport /\ sc.stdin = "read" /\ sc.in # <<>> /\ sc.device # "runs"
    /\ sc' = [sc EXCEPT !.stdin = "failed"]

-----------------------------------------------------------------------------
(* BugreportStandardStreamsCallback.  A line that was cut short, after the   *)
(* word it starts with, names no file that there is (-1), and a progress     *)
(* that was cut short is no number, at which std::stoi throws.               *)
SetSrcFile(c, path) == [c EXCEPT !.src = path, !.name = IF c.dest_dir THEN path ELSE @]
show_any_change(c, percentage) ==
    IF percentage = c.last THEN c
    ELSE [c EXCEPT !.last = percentage, !.shown = Append(@, percentage)]
UpdateProgress(c, percentage) ==
    IF percentage # 0 /\ percentage <= c.last THEN c
    ELSE [c EXCEPT !.last = percentage, !.shown = Append(@, percentage)]
ProcessLine(c) ==
    IF c.line = <<>> THEN c
    ELSE LET line == Text[c.line[1][1]]
             whole == c.line = <<<<c.line[1][1], 1>>, <<c.line[1][1], 2>>>>
         IN  CASE c.line[1][2] # 1 -> [c EXCEPT !.invalid = @ + 1]
               [] line.kind \in {"BEGIN", "OK"} -> SetSrcFile(c, IF whole THEN line.arg ELSE -1)
               [] line.kind = "FAIL" -> [c EXCEPT !.status = -1]
               [] line.kind = "PROGRESS" /\ c.show_progress ->
                    IF whole THEN UpdateProgress(c, line.arg) ELSE [c EXCEPT !.ret = "abort"]
               [] OTHER -> [c EXCEPT !.invalid = @ + 1]
OnPiece(c, piece) ==
    IF IsEol(piece) THEN [ProcessLine(c) EXCEPT !.line = <<>>]
    ELSE [c EXCEPT !.line = Append(@, piece)]
process_each_chunk(c, chunk) ==
    IF c.mode # "zip" THEN [c EXCEPT !.printed = @ \o chunk]
    ELSE LET d == FoldLeft(OnPiece, c, chunk) IN [ProcessLine(d) EXCEPT !.line = <<>>]
OnStdoutReceived(c, chunk) ==
    IF c.mode # "zip" THEN [c EXCEPT !.printed = @ \o chunk]
    ELSE FoldLeft(OnPiece, c, chunk)

(* Done: the last line; then the report is pulled, which may fail and does   *)
(* when there is no such file.                                               *)
Done(c) ==
    IF c.mode # "zip" THEN {[c EXCEPT !.ret = c.exit_code]}
    ELSE LET d == ProcessLine(c) IN
         IF d.ret = "abort" THEN {d}
         ELSE IF d.status # 0 \/ d.src = 0 THEN {[d EXCEPT !.ret = "-1"]}
         ELSE IF d.src = -1 THEN {[d EXCEPT !.ret = "1"]}
         ELSE {[d EXCEPT !.ret = "1"], [d EXCEPT !.ret = "0", !.pulled = d.src]}

-----------------------------------------------------------------------------
(* read_and_dump and read_and_dump_protocol.                                 *)
ReadPacket ==
    /\ Running /\ sc.wire # <<>>
    /\ LET c == [sc EXCEPT !.wire = Tail(@)] IN
       sc' = IF Head(sc.wire).exit THEN [c EXCEPT !.exit_code = "child's"]
             ELSE OnStdoutReceived(c, Head(sc.wire).data)
(* The reader of the output has gone.                                        *)
BrokenPipe ==
    /\ Running /\ sc.mode = "shell" /\ sc.wire # <<>> /\ ~Head(sc.wire).exit
    /\ sc' = [sc EXCEPT !.ret = IF ShellProtocol THEN "141" ELSE "0"]
EndOfOutput ==
    /\ Running /\ sc.wire = <<>> /\ sc.device # "runs"
    /\ sc' \in Done(sc)

(* Bugreport::DoIt: the version of bugreportz and the argument decide.       *)
DoIt ==
    /\ sc.mode = "version"
    /\ \E version \in Versions, arg \in Args :
        LET zip == [sc EXCEPT !.mode = "zip", !.show_progress = version # 10,
                              !.dest_dir = arg \in {"none", "dir"}]
        IN  sc' = CASE version = 0 /\ arg = "none" -> [sc EXCEPT !.mode = "plain"]
                    [] version = 0 /\ arg # "none" -> [sc EXCEPT !.ret = "failed"]
                    [] version >= 12 /\ arg = "--stream" -> [sc EXCEPT !.mode = "stream"]
                    [] OTHER -> zip

(* The device: output in chunks, the exit status, the end; or it is lost.    *)
Produce ==
    /\ Running /\ sc.device = "runs" /\ Len(sc.wire) < WireRoom
    /\ IF sc.made < Len(Pieces)
       THEN \E n \in 1..MaxChunk :
            /\ sc.made + n <= Len(Pieces)
            /\ sc' = [sc EXCEPT !.made = @ + n,
                                !.wire = Append(@, [exit |-> FALSE,
                                                    data |-> SubSeq(Pieces, sc.made + 1, sc.made + n)])]
       ELSE sc' = [sc EXCEPT !.device = "ended",
                             !.wire = IF ShellProtocol THEN Append(@, [exit |-> TRUE, data |-> <<>>])
                                      ELSE @]
Lose ==
    /\ Running /\ sc.device = "runs"
    /\ sc' = [sc EXCEPT !.device = "lost"]

Next ==
    \/ WindowSize \/ EndOfInput \/ ReadStdin \/ WriteFails
    \/ ReadPacket \/ BrokenPipe \/ EndOfOutput \/ DoIt
    \/ Produce \/ Lose

-----------------------------------------------------------------------------
(* Type invariant.                                                           *)
TypeOK ==
    /\ sc.state \in {"StartOfLine", "MidFlow", "InEscape"} /\ sc.made \in 0..Len(Pieces)
    /\ sc.ret \in {"none", "0", "1", "-1", "255", "141", "child's", "failed", "left", "abort"}

(* What is sent is what was typed, up to "~." at the start of a line, less   *)
(* the first of two "~" there, however the reads are interrupted by changes  *)
(* of the window's size (stdin_read_thread_loop).                            *)
Typed(s) ==
    LET line(i) == s[i] = "~" /\ (i = 1 \/ s[i - 1] = "nl")
        command(i) == line(i) /\ i < Len(s) /\ s[i + 1] = "."
        end == IF \E i \in 1..Len(s) : command(i)
               THEN (CHOOSE i \in 1..Len(s) : command(i) /\ \A j \in 1..(i - 1) : ~command(j)) - 1
               ELSE Len(s)
        kept(i) == ~line(i) \/ (i < Len(s) /\ s[i + 1] # "~")
        r[i \in 0..end] == IF i = 0 THEN <<>> ELSE IF kept(i) THEN Append(r[i - 1], s[i]) ELSE r[i - 1]
    IN  r[end]
InputAsTyped ==
    /\ IsPrefix(sc.sent, IF RawStdin THEN Typed(sc.typed) ELSE sc.typed)
    /\ sc.stdin \in {"closed", "left open"} =>
           sc.sent = IF RawStdin THEN Typed(sc.typed) ELSE sc.typed

(* The status of the command is returned only when all of its output was     *)
(* printed, and a connection that is lost is not a success                   *)
(* (read_and_dump_protocol).                                                 *)
StatusIsTrue ==
    /\ sc.ret = "child's" => sc.printed = Pieces
    /\ (sc.device = "lost" /\ sc.mode # "zip" /\ ShellProtocol) => sc.ret # "0"

(* The report that adb bugreport says it copied is the one that the device   *)
(* named last, in a line that was received whole, and the device did not say *)
(* that it failed; a report that it named is found, wherever the lines are   *)
(* cut (OnStdoutReceived, Done).                                             *)
CopiedIsNamed ==
    /\ (sc.mode = "zip" /\ sc.ret # "none" /\ sc.device = "ended") =>
        /\ \A i \in 1..Len(Text) :
            (/\ Text[i].kind \in {"BEGIN", "OK"}
             /\ \A j \in (i + 1)..Len(Text) : Text[j].kind \notin {"BEGIN", "OK"}) => sc.src = Text[i].arg
        /\ sc.status = IF \E i \in 1..Len(Text) : Text[i].kind = "FAIL" THEN -1 ELSE 0
    /\ sc.pulled # 0 =>
        /\ \E i \in 1..Len(Text) : /\ Text[i].kind \in {"BEGIN", "OK"} /\ Text[i].arg = sc.pulled
                                   /\ \A j \in (i + 1)..((sc.made + 2) \div 3) :
                                        Text[j].kind \notin {"BEGIN", "OK"}
        /\ \A i \in 1..((sc.made + 2) \div 3) : Text[i].kind # "FAIL"
        /\ sc.name = IF sc.dest_dir THEN sc.pulled ELSE 0

(* Progress is shown only when it goes forward, or starts again at 0.        *)
ProgressIsForward ==
    \A i \in 2..Len(sc.shown) : sc.shown[i] = 0 \/ sc.shown[i] > sc.shown[i - 1]
=============================================================================
