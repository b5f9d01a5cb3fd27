----------------------------- MODULE DemoServer -----------------------------
(***************************************************************************)
(* The demo program (cmd/demo/main.go) and the service it serves           *)
(* (demo/service.go): the goroutine that listens, the main goroutine that  *)
(* shuts the server down on a signal, and the handlers, which share a map  *)
(* of contents under a lock.                                               *)
(*                                                                         *)
(* Of net/http: a connection is accepted while the server listens; every   *)
(* request has a goroutine; Shutdown closes the listener, waits for the    *)
(* requests being handled and drops connections it has read nothing from;  *)
(* a process that exits resets its connections.                            *)
(***************************************************************************)
EXTENDS Integers, FiniteSets

CONSTANTS
    Calls,        \* the calls of the service's clients; a call may be made
                  \*   again only when nothing is left of it
    Paths         \* what contents are stored under

VARIABLES
    main,         \* the main goroutine: "run", "draining", "exited"
    listen,       \* ListenAndServe: "no", "open", "closed", "failed"
    code,         \* the exit code; -1 while running
    conn,         \* per call: "none", "new" and "active" for its client,
                  \*   "gone" and "orphan" when the client has left,
                  \*   "answered", "reset", "refused"
    req,          \* per call: the request
    hpc,          \* per call: where its handler is
    mu,           \* Service.mu: who holds it for writing, and for reading
    content,      \* Service.content
    ans,          \* per call: what its handler found, then its answer
    cut           \* history: some request was cut while it was handled

\* An entry has two words, the content type and the body.
NotFound == "notFound"
Entry(v) == [contentType |-> v, body |-> v]
NoReq == [op |-> "none"]

SrvInit ==
    /\ main = "run" /\ listen = "no" /\ code = -1
    /\ conn = [c \in Calls |-> "none"]
    /\ req = [c \in Calls |-> NoReq]
    /\ hpc = [c \in Calls |-> "idle"]
    /\ mu = [w |-> {}, r |-> {}]
    /\ content = [p \in Paths |-> Entry(NotFound)]
    /\ ans = [c \in Calls |-> Entry(NotFound)]
    /\ cut = FALSE

\* The server has read nothing of the call yet; a handler is at work for it.
Unread(c) == conn[c] \in {"new", "gone"}
Handling(c) == conn[c] \in {"active", "orphan"}

-----------------------------------------------------------------------------
(* The program.                                                            *)

\* ListenAndServe: the address may be taken, and a server that was shut down
\* before does not listen.
Listen ==
    /\ main # "exited" /\ listen = "no"
    /\ \/ main = "run" /\ listen' = "open"
       \/ main = "run" /\ listen' = "failed"
       \/ main = "draining" /\ listen' = "closed"
    /\ UNCHANGED <<main, code, conn, req, hpc, mu, content, ans, cut>>

\* Accept fails for good.
ServeFails ==
    /\ listen = "open" /\ main = "run"
    /\ listen' = "failed"
    /\ UNCHANGED <<main, code, conn, req, hpc, mu, content, ans, cut>>

\* os.Exit, or main returns: every connection is reset.
Exit(status) ==
    /\ main' = "exited" /\ code' = status
    /\ listen' = IF listen = "open" THEN "closed" ELSE listen
    /\ cut' = (cut \/ \E c \in Calls : Handling(c))
    /\ conn' = [c \in Calls |-> IF conn[c] \in {"new", "active"} THEN "reset" ELSE conn[c]]
    /\ hpc' = [c \in Calls |-> "idle"]
    /\ UNCHANGED <<req, mu, content, ans>>

\* ListenAndServe returned another error than ErrServerClosed.
Fail == main # "exited" /\ listen = "failed" /\ Exit(1)

\* SIGINT or SIGTERM: Shutdown closes the listener.
Signal ==
    /\ main = "run"
    /\ main' = "draining"
    /\ listen' = IF listen = "open" THEN "closed" ELSE listen
    /\ UNCHANGED <<code, conn, req, hpc, mu, content, ans, cut>>

\* Shutdown gives up on a connection it has read no request from.
Drop(c) ==
    /\ main = "draining" /\ Unread(c)
    /\ conn' = [conn EXCEPT ![c] = IF @ = "new" THEN "reset" ELSE "none"]
    /\ UNCHANGED <<main, listen, code, req, hpc, mu, content, ans, cut>>

\* Mutants: main does not wait for the requests being handled; nor does it
\* give up on them.
ShutdownNoWait  == main = "draining" /\ Exit(0)
ShutdownNoLimit == FALSE /\ Exit(1)

\* Shutdown returns nil once nothing is being handled ...
ShutdownDone ==
    /\ main = "draining"
    /\ \A c \in Calls : ~Handling(c) /\ ~Unread(c)
    /\ Exit(0)

\* ... or an error after five seconds.
ShutdownTimeout ==
    /\ main = "draining"
    /\ \E c \in Calls : Handling(c) \/ Unread(c)
    /\ Exit(1)

-----------------------------------------------------------------------------
(* A call, as its client sees it.                                          *)

\* The connection is refused when nobody listens.
Connect(c, r) ==
    /\ conn[c] = "none"
    /\ conn' = [conn EXCEPT ![c] = IF listen = "open" THEN "new" ELSE "refused"]
    /\ req' = [req EXCEPT ![c] = r]
    /\ UNCHANGED <<main, listen, code, hpc, mu, content, ans, cut>>

\* The client has the answer, or the error.
Hangup(c) ==
    /\ conn[c] \in {"answered", "reset", "refused"}
    /\ conn' = [conn EXCEPT ![c] = "none"]
    /\ UNCHANGED <<main, listen, code, req, hpc, mu, content, ans, cut>>

\* The client stops waiting, and may make another call at once.  A handler that
\* has started does not notice: it goes on, beside those of later calls.  A
\* request that was sent and not read is lost with its connection, or is read
\* all the same.
Abandon(c) ==
    /\ \/ conn[c] = "new" /\ \E to \in {"none", "gone"} : conn' = [conn EXCEPT ![c] = to]
       \/ conn[c] = "active" /\ conn' = [conn EXCEPT ![c] = "orphan"]
    /\ UNCHANGED <<main, listen, code, req, hpc, mu, content, ans, cut>>

-----------------------------------------------------------------------------
(* The handlers.                                                           *)

Start(c) ==
    /\ main # "exited" /\ Unread(c)
    /\ conn' = [conn EXCEPT ![c] = IF @ = "new" THEN "active" ELSE "orphan"]
    /\ hpc' = [hpc EXCEPT ![c] = IF req[c].op = "hello" THEN "reply" ELSE "lock"]
    /\ ans' = [ans EXCEPT ![c] = Entry(NotFound)]
    /\ UNCHANGED <<main, listen, code, req, mu, content, cut>>

\* Mutant: GetContent does not take the lock.
LockWritesOnly(c) ==
    /\ hpc[c] = "lock"
    /\ \/ req[c].op = "upload" /\ mu.w = {} /\ mu' = [mu EXCEPT !.w = {c}]
       \/ req[c].op = "download" /\ UNCHANGED mu
    /\ hpc' = [hpc EXCEPT ![c] = "type"]
    /\ UNCHANGED <<main, listen, code, conn, req, content, ans, cut>>

\* StoreContent and GetContent take the lock, for writing or for reading ...
Lock(c) ==
    /\ hpc[c] = "lock" /\ mu.w = {}
    /\ \/ req[c].op = "upload" /\ mu.r = {} /\ mu' = [mu EXCEPT !.w = {c}]
       \/ req[c].op = "download" /\ mu' = [mu EXCEPT !.r = @ \union {c}]
    /\ hpc' = [hpc EXCEPT ![c] = "type"]
    /\ UNCHANGED <<main, listen, code, conn, req, content, ans, cut>>

\* Mutant: StoreContent keeps an entry that is there.
CopyIfAbsent(c, from, word, to) ==
    /\ hpc[c] = from
    /\ \/ /\ req[c].op = "upload"
          /\ content' = IF content[req[c].path][word] = NotFound
                        THEN [content EXCEPT ![req[c].path][word] = req[c].value] ELSE content
          /\ UNCHANGED ans
       \/ /\ req[c].op = "download"
          /\ ans' = [ans EXCEPT ![c][word] = content[req[c].path][word]]
          /\ UNCHANGED content
    /\ hpc' = [hpc EXCEPT ![c] = to]
    /\ UNCHANGED <<main, listen, code, conn, req, mu, cut>>

\* ... and copy the two words of an entry, one after the other.
Copy(c, from, word, to) ==
    /\ hpc[c] = from
    /\ \/ /\ req[c].op = "upload"
          /\ content' = [content EXCEPT ![req[c].path][word] = req[c].value]
          /\ UNCHANGED ans
       \/ /\ req[c].op = "download"
          /\ ans' = [ans EXCEPT ![c][word] = content[req[c].path][word]]
          /\ UNCHANGED content
    /\ hpc' = [hpc EXCEPT ![c] = to]
    /\ UNCHANGED <<main, listen, code, conn, req, mu, cut>>

CopyType(c) == Copy(c, "type", "contentType", "body")
CopyBody(c) == Copy(c, "body", "body", "unlock")

Unlock(c) ==
    /\ hpc[c] = "unlock"
    /\ mu' = [w |-> mu.w \ {c}, r |-> mu.r \ {c}]
    /\ hpc' = [hpc EXCEPT ![c] = "reply"]
    /\ UNCHANGED <<main, listen, code, conn, req, content, ans, cut>>

\* The answer is written; nobody reads it if the client has gone.
Reply(c) ==
    /\ hpc[c] = "reply"
    /\ hpc' = [hpc EXCEPT ![c] = "idle"]
    /\ conn' = [conn EXCEPT ![c] = IF @ = "active" THEN "answered" ELSE "none"]
    /\ UNCHANGED <<main, listen, code, req, mu, content, ans, cut>>

HandlerStep(c) == Lock(c) \/ CopyType(c) \/ CopyBody(c) \/ Unlock(c) \/ Reply(c)

ProgramStep == Listen \/ Fail \/ ShutdownDone \/ ShutdownTimeout
ServerStep(c) == Start(c) \/ HandlerStep(c)
=============================================================================
