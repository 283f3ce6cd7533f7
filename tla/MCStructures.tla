---------------------------- MODULE MCStructures -----------------------------
(***************************************************************************)
(* Data structures of the way from a file to an endpoint for TLC: the pool *)
(* of buffers that files are read into, the parser of command lines, which *)
(* keeps one of them, the list of healthy endpoints, and the body that the *)
(* attempts of a SendBuffer share (of either kind).  They have no state in *)
(* common: the variable part names the one that moves, the others stay as  *)
(* they were made.                                                         *)
(***************************************************************************)
EXTENDS ReadFileBufPool, TLC

CONSTANTS Endpoints, Nil

VARIABLES part, head, tail, prev, next, healthy, closed, pos, attempt, pc, wpc, sent,
    cmdline, cmdPath, args, cmd, file, valid

listVars == <<head, tail, prev, next, healthy>>
bodyVars == <<closed, pos, attempt, pc, wpc, sent>>
cmdlineVars == <<cmdline, cmdPath, args, cmd, file, valid>>

Healthy == INSTANCE EndpointList

\* Three attempts to send four bytes, read in chunks of all sizes that do not and
\* do end with the body.
Plain == INSTANCE RequestBody WITH
    N <- 4, MaxAttempts <- 3, Chunks <- 1..3, IsCreditReader <- FALSE, TransportWaits <- TRUE
Limited == INSTANCE RequestBody WITH
    N <- 4, MaxAttempts <- 3, Chunks <- 1..3, IsCreditReader <- TRUE, TransportWaits <- TRUE

\* The command lines up to the first character that does not fit into 7 bytes, the
\* least limit with which the cut may move by three bytes and not reach the start.
\* A plain character is to the escapes what a slash is, and to the split what an
\* escaped one is.
Width(c) == CASE c = "wide2" -> 2 [] c = "wide4" -> 4 [] OTHER -> 1

Chars == {"nul", "escaped", "slash", "wide2", "wide4"}

Sized[n \in 0..7] ==
    IF n = 0 THEN {[text |-> <<>>, size |-> 0]}
    ELSE Sized[n - 1] \cup
           {[text |-> Append(f.text, c), size |-> f.size + Width(c)] :
                f \in {g \in Sized[n - 1] : g.size < 7}, c \in Chars}

Texts == {f.text : f \in Sized[7]}

Cmdline == INSTANCE PidCmdline WITH
    Files <- Texts, MaxReadSize <- 7, Reused <- {<<"slash", "nul", "escaped">>}

MCInit ==
    /\ part \in {"pool", "cmdline", "list", "plain body", "limited body"}
    /\ Init /\ Healthy!Init /\ Plain!Init /\ Cmdline!Init

MCNext ==
    /\ \/ part = "pool" /\ Next /\ UNCHANGED <<listVars, bodyVars, cmdlineVars>>
       \/ part = "cmdline" /\ Cmdline!Next /\ UNCHANGED <<vars, listVars, bodyVars>>
       \/ part = "list" /\ Healthy!Next /\ UNCHANGED <<vars, bodyVars, cmdlineVars>>
       \/ part = "plain body" /\ Plain!Next /\ UNCHANGED <<vars, listVars, cmdlineVars>>
       \/ part = "limited body" /\ Limited!Next /\ UNCHANGED <<vars, listVars, cmdlineVars>>
    /\ UNCHANGED part

MCSpec == MCInit /\ [][MCNext]_<<part, vars, listVars, bodyVars, cmdlineVars>>

BufSymmetry == Permutations(Users) \cup Permutations(Buffers)

------------------------------------------------------------------------------
\* The links of the healthy endpoints agree in both directions and an endpoint out
\* of the list keeps none (http_endpoint_pool.go:271-300).
WellLinked == Healthy!WellLinked

\* The list behaves as a sequence: insertions at the tail, removals that keep the
\* order of the others, rotation (http_endpoint_pool.go:267-308, 644-649, 744-745).
IsSequence == Healthy!IsSequence

\* A request that was answered carried the whole buffer, once and in order, at
\* whichever attempt: the reader stays within the body, and every attempt finds it
\* open and at its start (http_endpoint_pool.go:161-162, 188-192, 813-823;
\* rate_controller.go:208-211).
BodyIntact == Plain!TypeOK /\ Plain!WholeBufferSent /\ Plain!FreshBody

\* After a parse the labels are the arguments of the process parsed, and no other's;
\* a long command line is cut between two characters, wherever the limit is
\* (pid_cmdline_parser.go:67-80, 82-85, 89-95, 123-144).
LabelsOfFile == Cmdline!LabelsOfFile
==============================================================================
