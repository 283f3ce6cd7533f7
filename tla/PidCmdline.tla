------------------------------ MODULE PidCmdline -----------------------------
(***************************************************************************)
(* The command line of a process, procfs/pid_cmdline_parser.go.  One       *)
(* parser serves all the processes of a task.  It reads at most            *)
(* MaxReadSize bytes of a file, replaces the end of a longer one by dots,  *)
(* escapes what a label may not have, and splits the result.               *)
(*                                                                         *)
(* A file is a sequence of characters of 1 to 4 bytes; "escaped" stands    *)
(* for the newline, the quote and the backslash.                           *)
(***************************************************************************)
EXTENDS Integers, SequencesExt

CONSTANTS
    Files,          \* the contents of cmdline files
    MaxReadSize,    \* of ReadFileBufPool64k
    Reused,         \* bound: the files after which any other may be parsed
    Nil

\* The bytes of a character.
Encoded(c) ==
    CASE c = "wide2" -> <<"lead", "cont">>
      [] c = "wide3" -> <<"lead", "cont", "cont">>
      [] c = "wide4" -> <<"lead", "cont", "cont", "cont">>
      [] OTHER -> <<c>>

Encode(f) == FlattenSeq([i \in 1..Len(f) |-> Encoded(f[i])])

VARIABLES
    cmdline,            \* the buffer of the parser, or Nil
    cmdPath, args, cmd, \* what GetData returns
    file,               \* history: the file that was parsed last, or Nil,
    valid               \*   and whether no parse has failed since

vars == <<cmdline, cmdPath, args, cmd, file, valid>>

Init ==
    /\ cmdline = Nil
    /\ cmdPath = <<>> /\ args = <<>> /\ cmd = <<>>
    /\ file = Nil /\ valid = FALSE

------------------------------------------------------------------------------
Dots == <<"dot", "dot", "dot">>

\* ReadFile: a read that fills the buffer is taken for a truncated one.
ReadFile(f) == LET b == Encode(f) IN SubSeq(b, 1, Min({Len(b), MaxReadSize}))
truncated(b) == Len(b) = MaxReadSize

CutFourth(b) ==
    LET l == Len(b)
    IN  SubSeq(b, 1, Max({p \in (l - 5)..(l - 3) :
                              ~(p > 0 /\ p > l - 5 /\ b[p + 1] = "cont")})) \o Dots

\* "Locate the start of the rightmost UTF-8 char, at least 3 places away from the
\* end": the position, from 0, at which the search from l - 3 down ends.
Cut(b) ==
    LET l == Len(b)
    IN  SubSeq(b, 1, Max({p \in (l - 6)..(l - 3) :
                              ~(p > 0 /\ p > l - 6 /\ b[p + 1] = "cont")})) \o Dots

\* The last NULs are discarded.
TrimNuls(b) == SubSeq(b, 1, Max({0} \cup {i \in 1..Len(b) : b[i] # "nul"}))

cmdlineByteConvert(c) ==
    CASE c = "nul" -> <<"space">>
      [] c = "escaped" -> <<"backslash", "escaped">>
      [] OTHER -> <<c>>

\* The contents of the buffer before the first write of a parse.
Kept == IF cmdline = Nil THEN <<>> ELSE cmdline
Reset == <<>>

\* Parse, of a file that can be read: the stretches that need no escape are copied,
\* the others converted; the first NUL ends the command, the last slash its path.
\* (A bytes.Buffer accepts every write.)
Parse(f) ==
    LET read == ReadFile(f)
        buf == TrimNuls(IF truncated(read) THEN Cut(read) ELSE read)
        converted == [i \in 1..Len(buf) |-> cmdlineByteConvert(buf[i])]
        nuls == {i \in 1..Len(buf) : buf[i] = "nul"}
        cmdEnd == Len(Reset \o FlattenSeq(SubSeq(converted, 1, Min(nuls) - 1)))
    IN  /\ cmdline' = Reset \o FlattenSeq(converted)
        /\ cmdPath' = IF nuls = {} THEN cmdline' ELSE SubSeq(cmdline', 1, cmdEnd)
        /\ args' = IF nuls = {} THEN <<>> ELSE SubSeq(cmdline', cmdEnd + 2, Len(cmdline'))
        /\ LET dirEnd == Max({0} \cup {i \in 1..Len(cmdPath') : cmdPath'[i] = "slash"})
           IN  cmd' = SubSeq(cmdPath', dirEnd + 1, Len(cmdPath'))
        /\ file' = f /\ valid' = TRUE

\* Parse when the process is gone: the parser keeps the data of the one before.
ParseFails ==
    /\ valid' = FALSE
    /\ UNCHANGED <<cmdline, cmdPath, args, cmd, file>>

Next ==
    \/ ParseFails
    \/ \E f \in IF file \in Reused \cup {Nil} THEN Files ELSE Reused : Parse(f)

Spec == Init /\ [][Next]_vars
------------------------------------------------------------------------------
\* The characters that are shown of file f: all, or as many as leave three bytes of
\* the limit for the dots; no NULs at the end.
Shown(f) ==
    LET fits == {n \in 0..Len(f) : Len(Encode(SubSeq(f, 1, n))) <= MaxReadSize - 3}
        whole == Len(Encode(f)) < MaxReadSize
    IN  TrimNuls(IF whole THEN f ELSE SubSeq(f, 1, Max(fits)) \o Dots)

\* A text as a label.
Label(s) ==
    FlattenSeq([i \in 1..Len(s) |->
        CASE s[i] = "nul" -> <<"space">>
          [] s[i] = "escaped" -> <<"backslash", "escaped">>
          [] OTHER -> Encoded(s[i])])

\* After a parse the labels are the arguments of the process parsed, and no other's:
\* the first one, its part after the last slash, the others separated by spaces; a
\* long command line is cut between two characters, wherever the limit is
\* (pid_cmdline_parser.go:67-80, 82-85, 89-95, 123-144).
LabelsOfFile ==
    LET s == Shown(file)
        first == SelectInSeq(s, LAMBDA c : c = "nul")
        arg0 == IF first = 0 THEN s ELSE SubSeq(s, 1, first - 1)
        slash == SelectLastInSeq(arg0, LAMBDA c : c = "slash")
    IN  valid =>
          /\ cmdPath = Label(arg0)
          /\ args = IF first = 0 THEN <<>> ELSE Label(SubSeq(s, first + 1, Len(s)))
          /\ cmd = Label(SubSeq(arg0, slash + 1, Len(arg0)))
==============================================================================
