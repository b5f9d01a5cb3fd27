-------------------------------- MODULE Demo --------------------------------
(***************************************************************************)
(* The demo program at work: its server, a caller that waits for it to     *)
(* come up, the duh command posting the documents of a file to it, and     *)
(* clients that upload and download contents.                              *)
(*                                                                         *)
(* Every participant has its own module; an action of Demo is a step of    *)
(* one of them, or the two ends of one call together.  Each upload and     *)
(* each download is a call of its own: they overlap, and one whose client  *)
(* gave up may finish after calls that were made later.                    *)
(***************************************************************************)
EXTENDS Integers, Sequences, SequencesExt

CONSTANTS
    Present,       \* bound: the sets of callers that are at work together
    YAMLs,         \* the files the command may be given
    Uploads,       \* the uploads, each of a value of its own
    Downloads      \* the downloads

VARIABLES
    present,       \* which of "cmd", "wait" and "content" there are
    main, listen, code, conn, req, hpc, mu, content, ans, cut,     \* DemoServer
    wait, ctx, late,                                               \* WaitForConnect
    file, badTimeout, line, buf, cpc, last, exit, posted, spans, acked,   \* DuhCommand
    handled,       \* history: the command's documents that a handler was run for
    begun,         \* the uploads and downloads that have begun
    stored,        \* history: the uploads whose clients were answered
    before         \* history: stored, when each upload and download began

Contents == Uploads \union Downloads
Calls == Contents \union {"cmd"}
Paths == {"p"}

Srv  == INSTANCE DemoServer
Wait == INSTANCE WaitForConnect
Cmd  == INSTANCE DuhCommand

ASSUME DemoConstants ==
    /\ Uploads \intersect Downloads = {} /\ "cmd" \notin Contents
    /\ Srv!NotFound \notin Uploads
    /\ YAMLs \subseteq Seq(Cmd!Lines)

srvVars  == <<main, listen, code, conn, req, hpc, mu, content, ans, cut>>
waitVars == <<wait, ctx, late>>
cmdVars  == <<file, badTimeout, line, buf, cpc, last, exit, posted, spans, acked>>
cliVars  == <<present, begun, stored, before>>
vars == <<srvVars, waitVars, cmdVars, handled, cliVars>>

Init ==
    /\ Srv!SrvInit /\ Wait!WaitInit /\ Cmd!CmdInit
    /\ handled = << >>
    /\ present \in Present
    /\ begun = {} /\ stored = {} /\ before = [c \in Contents |-> {}]

-----------------------------------------------------------------------------
(* The server and the waiting caller on their own.                         *)

Others == UNCHANGED <<waitVars, cmdVars, cliVars>>

Program ==
    /\ \/ Srv!Listen \/ Srv!ServeFails \/ Srv!Fail \/ Srv!Signal
       \/ Srv!ShutdownDone \/ Srv!ShutdownTimeout
       \/ \E c \in Calls : Srv!Drop(c) \/ Srv!HandlerStep(c)
    /\ Others /\ UNCHANGED handled

Start(c) ==
    /\ Srv!Start(c)
    /\ handled' = IF c = "cmd" THEN Append(handled, req[c].doc) ELSE handled
    /\ Others

Waiter ==
    /\ "wait" \in present
    /\ Wait!Refuse \/ Wait!WaitStep \/ Wait!WaitCancel
    /\ UNCHANGED <<srvVars, cmdVars, handled, cliVars>>

-----------------------------------------------------------------------------
(* The command and its calls.                                              *)

\* The name in the document is refused by SayHello.
Refused(c) == "refused" \in Range(req[c].doc)

CmdLocal ==
    /\ "cmd" \in present
    /\ Cmd!Open \/ Cmd!Scan \/ Cmd!Skip \/ Cmd!Reject \/ Cmd!Finish
    /\ UNCHANGED <<srvVars, waitVars, handled, cliVars>>

CmdPost ==
    /\ Cmd!Post /\ Srv!Connect("cmd", [op |-> "hello", doc |-> buf])
    /\ UNCHANGED <<waitVars, handled, cliVars>>

CmdReturn ==
    /\ Srv!Hangup("cmd")
    /\ \/ conn["cmd"] = "answered" /\ ~Refused("cmd") /\ Cmd!PostOK
       \/ Cmd!PostFails
    /\ UNCHANGED <<waitVars, handled, cliVars>>

\* Mutant: the request has no deadline.
CmdTimeoutNever == FALSE /\ UNCHANGED vars

\* The deadline of process passes.
CmdTimeout ==
    /\ Srv!Abandon("cmd") /\ Cmd!PostFails
    /\ UNCHANGED <<waitVars, handled, cliVars>>

-----------------------------------------------------------------------------
(* The content clients.                                                    *)

\* A call begins, beside any other that is under way.
Begin(c, r) ==
    /\ "content" \in present /\ c \notin begun
    /\ begun' = begun \union {c}
    /\ before' = [before EXCEPT ![c] = stored]
    /\ Srv!Connect(c, r)
    /\ UNCHANGED <<waitVars, cmdVars, handled, present, stored>>

Upload(c) == c \in Uploads /\ Begin(c, [op |-> "upload", path |-> "p", value |-> c])
Download(c) == c \in Downloads /\ Begin(c, [op |-> "download", path |-> "p"])

Return(c) ==
    /\ c \in Contents
    /\ Srv!Hangup(c)
    /\ stored' = IF c \in Uploads /\ conn[c] = "answered" THEN stored \union {c} ELSE stored
    /\ UNCHANGED <<waitVars, cmdVars, handled, present, begun, before>>

GiveUp(c) ==
    /\ c \in Contents
    /\ Srv!Abandon(c)
    /\ Others /\ UNCHANGED handled

Done == main = "exited" /\ UNCHANGED vars

Next ==
    \/ Program \/ Waiter
    \/ CmdLocal \/ CmdPost \/ CmdReturn \/ CmdTimeout
    \/ \E c \in Calls : Start(c) \/ Upload(c) \/ Download(c) \/ Return(c) \/ GiveUp(c)
    \/ Done

Spec == Init /\ [][Next]_vars

\* Goroutines are scheduled, the shutdown's and the command's deadlines pass
\* and a dial returns.  No handler need finish: it may wait for a body that
\* never comes.
FairSpec ==
    /\ Spec
    /\ WF_vars(Srv!ProgramStep /\ Others /\ UNCHANGED handled)
    /\ WF_vars("wait" \in present /\ Wait!WaitStep
               /\ UNCHANGED <<srvVars, cmdVars, handled, cliVars>>)
    /\ WF_vars(CmdLocal) /\ WF_vars(CmdPost) /\ WF_vars(CmdReturn) /\ WF_vars(CmdTimeout)

-----------------------------------------------------------------------------
(* Properties.                                                             *)

Values == Uploads \union {Srv!NotFound}
Words == [contentType : Values, body : Values]

TypeOK ==
    /\ present \in Present
    /\ main \in {"run", "draining", "exited"}
    /\ listen \in {"no", "open", "closed", "failed"}
    /\ code \in {-1, 0, 1} /\ exit \in {-1, 0, 1}
    /\ conn \in [Calls -> {"none", "new", "active", "gone", "orphan", "answered",
                           "reset", "refused"}]
    /\ hpc \in [Calls -> {"idle", "lock", "type", "body", "unlock", "reply"}]
    /\ mu.w \subseteq Calls /\ mu.r \subseteq Calls
    /\ content \in [Paths -> Words] /\ ans \in [Calls -> Words]
    /\ wait \in {"start", "dial", "sleep", "nil", "err"}
    /\ ctx \in {"live", "cancelled"} /\ late \in 0..2
    /\ cpc \in {"start", "scan", "process", "call", "exited"}
    /\ line \in 0..Len(file) /\ acked \in 0..Len(posted)

\* A value that a download begun after the uploads "done" were answered may
\* find: "not found" only if there were none, else the value of an upload that
\* had not been answered already when one of them began.
Current(v, done) ==
    IF v = Srv!NotFound THEN done = {}
    ELSE v \in begun /\ \A u \in done : v \notin before[u]

\* A download answers with what one upload stored, both words of it, and never
\* with what an upload that was answered before the download began had
\* replaced: with reads beside writes and the server draining.  Uploads that
\* overlap may land in either order, and one whose client gave up at any later
\* time, also over a newer one that was answered (demo/service.go:92).
DownloadsAreUploads ==
    \A d \in Downloads : conn[d] = "answered" =>
      /\ ans[d].contentType = ans[d].body
      /\ Current(ans[d].body, before[d])

\* The program exits with 0 only when no request was cut while it was handled
\* (cmd/demo/main.go:89).
ExitZeroDrains == code = 0 => ~cut

\* The documents of a file, by their first and last lines: what lies between two
\* separators, unless it is blank.
DocsOf(lines) ==
    {s \in [from : DOMAIN lines, to : DOMAIN lines] :
        /\ \A i \in s.from..s.to : lines[i] # "---"
        /\ \E i \in s.from..s.to : lines[i] # "blank"
        /\ s.from = 1 \/ lines[s.from - 1] = "---"
        /\ s.to = Len(lines) \/ lines[s.to + 1] = "---"}

\* The command exits with 0 only when every document of the file was posted,
\* handled once, in order, and answered OK (cmd/duh/main.go).
CommandHonest ==
    exit = 0 => /\ DocsOf(file) \subseteq Range(spans) /\ handled = posted
                /\ acked = Len(posted)

\* Whatever times out, is reset or refused, no document is handled twice or out
\* of order, and nothing is posted after a failure.
PostedInOrder ==
    /\ IsPrefix(handled, posted)
    /\ acked <= Len(handled) /\ Len(posted) <= acked + 1
    /\ exit # -1 /\ acked < Len(posted) => exit = 1

\* The documents are posted line for line and in the order of the file, none is
\* left out and only whole ones are posted, but for one: the document in which
\* reading the file failed is posted up to there (cmd/duh/main.go:95), and then
\* the command does not exit with 0.
WholeDocuments ==
    /\ Len(spans) = Len(posted)
    /\ \A i \in DOMAIN spans :
          /\ posted[i] = SubSeq(file, spans[i].from, spans[i].to)
          /\ \A j \in 1..(i - 1) : spans[j].to < spans[i].from
          /\ \A s \in DocsOf(file) : s.from < spans[i].from => s \in Range(spans)
          /\ \/ spans[i] \in DocsOf(file)
             \/ i = Len(spans) /\ file[spans[i].to + 1] = "long" /\ exit # 0

\* The command posts the documents of its file and tells the truth about it.
CommandExact == TypeOK /\ CommandHonest /\ PostedInOrder /\ WholeDocuments

\* A signal always ends the program, also when a handler hangs.
SignalEnds == main = "draining" ~> main = "exited"

\* The command always ends, also when the server is stopped under it or never
\* answers.
CommandEnds == "cmd" \in present ~> cpc = "exited"

\* The caller that waits is let go when it cancels, with at most one more dial
\* begun after that (wait.go:35, 39), and when the server stays up.
WaitReturns ==
    <>(ctx = "cancelled") \/ ("wait" \in present /\ <>[](listen = "open"))
        => <>(wait \in {"nil", "err"} /\ late <= 1)

\* Both programs end.
ProgramsEnd == SignalEnds /\ CommandEnds
=============================================================================
