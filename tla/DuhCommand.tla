----------------------------- MODULE DuhCommand -----------------------------
(***************************************************************************)
(* The duh command (cmd/duh/main.go): the documents of a YAML file, cut at *)
(* its "---" lines, are posted one after the other; the first that fails   *)
(* ends the program.                                                       *)
(*                                                                         *)
(* A line is told apart by what it adds to its document: nothing, the api, *)
(* the resource, a resource the service refuses, or something that is not  *)
(* YAML.  A "long" line does not fit the scanner's buffer.                 *)
(***************************************************************************)
EXTENDS Integers, Sequences, SequencesExt

CONSTANTS
    YAMLs         \* the files: sequences of lines

\* What a line can be; see above.
Lines == {"---", "blank", "api", "resource", "refused", "junk", "long"}

VARIABLES
    file,         \* the lines of the file
    badTimeout,   \* -timeout is not a duration
    line,         \* how many lines were scanned
    buf,          \* the lines of the document
    cpc,          \* "start", "scan", "process", "call", "exited"
    last,         \* process was called for the last document
    exit,         \* the exit code; -1 while running
    posted,       \* history: the documents that were posted
    spans,        \* history: ... and their first and last lines in the file
    acked         \* history: how many of them were answered with OK

CmdInit ==
    /\ file \in YAMLs /\ badTimeout \in BOOLEAN
    /\ line = 0 /\ buf = << >> /\ cpc = "start" /\ last = FALSE /\ exit = -1
    /\ posted = << >> /\ spans = << >> /\ acked = 0

Blank(doc) == Range(doc) \subseteq {"blank"}
Parses(doc) == /\ "junk" \notin Range(doc)
               /\ "api" \in Range(doc)
               /\ Range(doc) \cap {"resource", "refused"} # {}

\* parseTimeout drops the error: what is no duration is a timeout of 0.
ZeroTimeout == badTimeout

Unreadable == "long" \in Range(file)
AtEnd == line = Len(file) \/ file[line + 1] = "long"

\* os.Exit(1).
CmdFail == cpc' = "exited" /\ exit' = 1 /\ UNCHANGED <<line, buf, last, posted, spans, acked>>

\* No file was named, or it cannot be opened.
Open ==
    /\ cpc = "start"
    /\ \/ cpc' = "scan" /\ UNCHANGED <<line, buf, last, exit, posted, spans, acked>>
       \/ CmdFail
    /\ UNCHANGED <<file, badTimeout>>

\* scanner.Scan: a line joins the buffer, a separator or the end of what can
\* be read calls process.
Scan ==
    /\ cpc = "scan" /\ ~last
    /\ IF AtEnd THEN cpc' = "process" /\ last' = TRUE /\ UNCHANGED <<line, buf>>
       ELSE /\ line' = line + 1
            /\ UNCHANGED last
            /\ IF file[line + 1] = "---" THEN cpc' = "process" /\ UNCHANGED buf
               ELSE buf' = Append(buf, file[line + 1]) /\ UNCHANGED cpc
    /\ UNCHANGED <<file, badTimeout, exit, posted, spans, acked>>

\* Mutant: the buffer is not reset.
ProcessedKeepsBuf == cpc' = "scan" /\ UNCHANGED <<line, buf, last, exit>>

\* process returns: the buffer is reset and the scan goes on.
Processed == cpc' = "scan" /\ buf' = << >> /\ UNCHANGED <<line, last, exit>>

\* Mutant: a blank document is reported as OK.
SkipAcks ==
    /\ cpc = "process" /\ Blank(buf)
    /\ Processed /\ acked' = acked + 1
    /\ UNCHANGED <<file, badTimeout, posted, spans>>

\* A blank document is skipped; one that does not parse or cannot be turned
\* into JSON, and any with a timeout of 0, ends the program before anything is
\* posted.
Skip ==
    /\ cpc = "process" /\ Blank(buf)
    /\ Processed
    /\ UNCHANGED <<file, badTimeout, posted, spans, acked>>

Reject ==
    /\ cpc = "process" /\ ~Blank(buf) /\ (~Parses(buf) \/ ZeroTimeout)
    /\ CmdFail
    /\ UNCHANGED <<file, badTimeout>>

\* Where the document ends: before the separator, or where reading stopped.
DocEnd == IF last THEN line ELSE line - 1

Post ==
    /\ cpc = "process" /\ ~Blank(buf) /\ Parses(buf) /\ ~ZeroTimeout
    /\ cpc' = "call"
    /\ posted' = Append(posted, buf)
    /\ spans' = Append(spans, [from |-> DocEnd - Len(buf) + 1, to |-> DocEnd])
    /\ UNCHANGED <<file, badTimeout, line, buf, last, exit, acked>>

\* sendRequest returned nil.
PostOK ==
    /\ cpc = "call"
    /\ Processed
    /\ acked' = acked + 1
    /\ UNCHANGED <<file, badTimeout, posted, spans>>

\* Mutant: the error is reported and the loop goes on.
PostFailsGoesOn ==
    cpc = "call" /\ Processed /\ UNCHANGED <<file, badTimeout, posted, spans, acked>>

\* It returned an error (refused, reset, timed out, not OK), or with -verbose
\* the body could not be copied.
PostFails == cpc = "call" /\ CmdFail /\ UNCHANGED <<file, badTimeout>>

\* Mutant: scanner.Err is not looked at.
FinishNoErr ==
    /\ cpc = "scan" /\ last
    /\ cpc' = "exited" /\ exit' = 0
    /\ UNCHANGED <<file, badTimeout, line, buf, last, posted, spans, acked>>

\* After the last document the scanner's error is looked at.
Finish ==
    /\ cpc = "scan" /\ last
    /\ cpc' = "exited" /\ exit' = (IF Unreadable THEN 1 ELSE 0)
    /\ UNCHANGED <<file, badTimeout, line, buf, last, posted, spans, acked>>
=============================================================================
