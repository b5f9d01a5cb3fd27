----------------------------- MODULE DemoProofs -----------------------------
(***************************************************************************)
(* Machine-checked proofs about Demo, for every file the command is given, *)
(* every set of callers and any sets of uploads and downloads.             *)
(***************************************************************************)
EXTENDS Demo, TLAPS

-----------------------------------------------------------------------------
(* The inductive invariant.                                                *)

ConnStates == {"none", "new", "active", "gone", "orphan", "answered", "reset", "refused"}

\* Where a handler is when it holds the lock.
Critical == {"type", "body", "unlock"}
Writers == {u \in Uploads : hpc[u] \in Critical}
Readers == {d \in Downloads : hpc[d] \in Critical}

SrvTypes ==
    /\ main \in {"run", "draining", "exited"}
    /\ cut \in BOOLEAN
    /\ conn \in [Calls -> ConnStates]
    /\ hpc \in [Calls -> {"idle", "lock", "type", "body", "unlock", "reply"}]
    /\ content \in [Paths -> Words] /\ ans \in [Calls -> Words]
    /\ req = [c \in Calls |-> req[c]]
    /\ before = [c \in Contents |-> before[c]]

\* Every call has the request that was sent, and a handler only while its
\* client waits or has given up waiting.
CallsOK ==
    /\ \A u \in Uploads : conn[u] # "none" =>
          req[u] = [op |-> "upload", path |-> "p", value |-> u]
    /\ \A d \in Downloads : conn[d] # "none" => req[d] = [op |-> "download", path |-> "p"]
    /\ conn["cmd"] # "none" => req["cmd"].op = "hello"
    /\ \A c \in Calls : hpc[c] # "idle" => Srv!Handling(c)
    /\ hpc["cmd"] \in {"idle", "reply"}
    /\ main = "exited" => \A c \in Calls : hpc[c] = "idle"

\* What the clients have seen: an upload that was answered is over, and so it is
\* in "before" of the calls that began after that, and in no other.
HistoryOK ==
    /\ begun \subseteq Contents /\ stored \subseteq Uploads /\ stored \subseteq begun
    /\ \A c \in Contents : conn[c] # "none" => c \in begun
    /\ \A u \in stored : conn[u] = "none"
    /\ \A c \in Contents : before[c] \subseteq stored

\* Until the program exits, the lock is held by whoever is between Lock and
\* Unlock, and a writer is alone.
LockOK ==
    main # "exited" =>
      /\ mu = [w |-> Writers, r |-> Readers]
      /\ \A u, v \in Writers : u = v
      /\ Writers # {} => Readers = {}

\* The upload has stored its entry: what is there now was not there, and
\* answered, before it began.
Written(u) == hpc[u] \in {"unlock", "reply"} \/ conn[u] = "answered" \/ u \in stored

\* The entry is whole unless an upload is between its two words; it is what an
\* upload that has begun brought, and none that was replaced for good.
ContentOK ==
    /\ (main # "exited" /\ \A u \in Uploads : hpc[u] # "body") =>
          content["p"].contentType = content["p"].body
    /\ \A u \in Uploads : hpc[u] = "body" => content["p"].contentType = u
    /\ content["p"].body \in begun \union {Srv!NotFound}
    /\ \A u \in Uploads : Written(u) =>
          content["p"].body \in Uploads /\ content["p"].body \notin before[u]

\* What a download has read so far.
Answer(d) ==
    /\ hpc[d] = "body" => ans[d].contentType = content["p"].contentType
    /\ hpc[d] \in {"unlock", "reply"} \/ conn[d] = "answered" =>
          ans[d].contentType = ans[d].body /\ Current(ans[d].body, before[d])
AnswerOK == \A d \in Downloads : Answer(d)

\* Nothing is cut, and there is no exit code, before the program exits.
ExitOK == (main # "exited" => ~cut /\ code = -1) /\ (code = 0 => ~cut)

DemoInv ==
    SrvTypes /\ CallsOK /\ HistoryOK /\ LockOK /\ ContentOK /\ AnswerOK /\ ExitOK
-----------------------------------------------------------------------------
(* The invariant, action by action.                                        *)

\* Uploads, downloads and the command are different calls.
LEMMA CallFacts ==
    /\ \A c \in Uploads : c \in Calls /\ c \in Contents /\ c \notin Downloads /\ c # "cmd"
    /\ \A c \in Downloads : c \in Calls /\ c \in Contents /\ c \notin Uploads /\ c # "cmd"
    /\ "cmd" \in Calls /\ "cmd" \notin Contents
    /\ \A c \in Calls : c \in Uploads \/ c \in Downloads \/ c = "cmd"
    /\ \A c \in Contents : c \in Calls
    /\ "p" \in Paths
  BY DemoConstants DEF Calls, Contents, Paths

\* A program that has not listened yet, an empty map.
LEMMA DemoInit == Init => DemoInv
  <1> SUFFICES ASSUME Init PROVE DemoInv
    OBVIOUS
  <1> USE CallFacts DEF Init, Srv!SrvInit, Srv!Entry
  <1>0. /\ \A c \in Calls : conn[c] = "none" /\ hpc[c] = "idle"
        /\ \A c \in Contents : before[c] = {}
        /\ content["p"] = [contentType |-> Srv!NotFound, body |-> Srv!NotFound]
    OBVIOUS
  <1>1. SrvTypes
    BY DEF SrvTypes, ConnStates, Words, Values
  <1>2. CallsOK /\ HistoryOK /\ ExitOK
    BY <1>0 DEF CallsOK, HistoryOK, ExitOK
  <1>3. ContentOK /\ AnswerOK
    BY <1>0 DEF ContentOK, AnswerOK, Answer, Written
  <1>4. LockOK
    <2>1. Writers = {} /\ Readers = {}
      BY <1>0 DEF Writers, Readers, Critical
    <2> QED BY <2>1 DEF LockOK
  <1> QED BY <1>1, <1>2, <1>3, <1>4 DEF DemoInv

\* Steps of the waiting caller and of the command alone, the listener and the
\* signal.
LEMMA OtherStep ==
    ASSUME DemoInv, UNCHANGED <<code, conn, req, hpc, mu, content, ans, cut>>,
           UNCHANGED <<begun, stored, before>>,
           main' \in {"run", "draining", "exited"}, main' = "exited" <=> main = "exited"
    PROVE  DemoInv'
  <1> USE DEF DemoInv
  <1>1. SrvTypes' /\ CallsOK' /\ HistoryOK' /\ ExitOK'
    BY DEF SrvTypes, CallsOK, HistoryOK, ExitOK, Srv!Handling
  <1>2. LockOK'
    BY DEF LockOK, Writers, Readers
  <1>3. ContentOK' /\ AnswerOK'
    BY DEF ContentOK, AnswerOK, Answer, Current, Written
  <1> QED BY <1>1, <1>2, <1>3

\* os.Exit resets the connections and stops the handlers where they are.
LEMMA ExitStep ==
    ASSUME DemoInv, NEW status, Srv!Exit(status), main # "exited",
           status = 0 => \A c \in Calls : ~Srv!Handling(c),
           UNCHANGED <<begun, stored, before>>
    PROVE  DemoInv'
  <1> USE CallFacts DEF DemoInv
  <1>1. /\ main' = "exited" /\ code' = status /\ cut' \in BOOLEAN
        /\ UNCHANGED <<req, mu, content, ans>>
        /\ hpc' = [c \in Calls |-> "idle"]
        /\ conn' = [c \in Calls |-> IF conn[c] \in {"new", "active"} THEN "reset" ELSE conn[c]]
    BY DEF Srv!Exit, SrvTypes
  <1>2. SrvTypes'
    BY <1>1 DEF SrvTypes, ConnStates
  <1>3. \A c \in Calls : /\ hpc'[c] = "idle"
                         /\ conn'[c] = "answered" => conn[c] = "answered"
                         /\ conn'[c] = "none" <=> conn[c] = "none"
    BY <1>1
  <1>4. CallsOK' /\ HistoryOK' /\ LockOK'
    BY <1>1, <1>3 DEF CallsOK, HistoryOK, LockOK
  <1>5. ContentOK' /\ AnswerOK'
    BY <1>1, <1>3 DEF ContentOK, AnswerOK, Answer, Current, Written
  <1>6. ExitOK'
    <2>1. ~cut
      BY DEF ExitOK
    <2> QED BY <1>1, <2>1 DEF ExitOK, Srv!Exit
  <1> QED BY <1>2, <1>4, <1>5, <1>6

\* The client's side of a call, beside a handler or before and after one: an
\* upload may be told that it was stored.
LEMMA ConnStep ==
    ASSUME DemoInv, NEW c \in Calls, NEW to,
           conn[c] # "none", conn' = [conn EXCEPT ![c] = to],
           \/ to \in {"none", "reset", "gone"} /\ hpc[c] = "idle"
           \/ conn[c] = "active" /\ to = "orphan",
           UNCHANGED <<main, code, req, hpc, mu, content, ans, cut, begun, before>>,
           \/ stored' = stored
           \/ /\ c \in Uploads /\ conn[c] = "answered" /\ to = "none"
              /\ stored' = stored \union {c}
    PROVE  DemoInv'
  <1> USE CallFacts DEF DemoInv
  <1>1. SrvTypes'
    BY DEF SrvTypes, ConnStates
  <1>2. /\ \A d \in Calls : d # c => conn'[d] = conn[d]
        /\ conn'[c] = to
    BY DEF SrvTypes
  <1>3. CallsOK'
    <2>1. \A d \in Calls : conn'[d] # "none" => conn[d] # "none"
      BY <1>2
    <2>2. \A d \in Calls : hpc[d] # "idle" => Srv!Handling(d)'
      BY <1>2 DEF CallsOK, Srv!Handling
    <2> QED BY <2>1, <2>2 DEF CallsOK
  <1>4. HistoryOK'
    <2>1. c \in Contents => c \in begun
      BY DEF HistoryOK
    <2> QED BY <1>2, <2>1 DEF HistoryOK
  <1>5. LockOK'
    BY DEF LockOK, Writers, Readers
  <1>6. ContentOK'
    <2>1. \A u \in Uploads : Written(u)' => Written(u)
      BY <1>2 DEF Written
    <2> QED BY <2>1 DEF ContentOK
  <1>7. AnswerOK'
    BY <1>2 DEF AnswerOK, Answer, Current
  <1>8. ExitOK'
    BY DEF ExitOK
  <1> QED BY <1>1, <1>3, <1>4, <1>5, <1>6, <1>7, <1>8

\* A call begins: the clients remember what has been stored.
LEMMA ConnectStep ==
    ASSUME DemoInv, NEW c \in Calls, NEW r, Srv!Connect(c, r), stored' = stored,
           \/ /\ c \in Contents /\ c \notin begun
              /\ begun' = begun \union {c} /\ before' = [before EXCEPT ![c] = stored]
              /\ \/ c \in Uploads /\ r = [op |-> "upload", path |-> "p", value |-> c]
                 \/ c \in Downloads /\ r = [op |-> "download", path |-> "p"]
           \/ c = "cmd" /\ r.op = "hello" /\ UNCHANGED <<begun, before>>
    PROVE  DemoInv'
  <1> USE CallFacts DEF DemoInv
  <1>1. /\ conn[c] = "none" /\ hpc[c] = "idle"
        /\ conn' = [conn EXCEPT ![c] = IF listen = "open" THEN "new" ELSE "refused"]
        /\ req' = [req EXCEPT ![c] = r]
        /\ UNCHANGED <<main, code, hpc, mu, content, ans, cut>>
    BY DEF Srv!Connect, CallsOK, Srv!Handling
  <1>2. /\ \A d \in Calls : d # c => conn'[d] = conn[d] /\ req'[d] = req[d]
        /\ conn'[c] \in {"new", "refused"} /\ req'[c] = r
    BY <1>1 DEF SrvTypes
  <1>3. /\ \A d \in Contents : d # c => before'[d] = before[d]
        /\ \A d \in Contents : before'[d] = before[d] \/ (d = c /\ before'[d] = stored)
    <2>1. CASE c = "cmd"
      BY <2>1
    <2>2. CASE c # "cmd"
      <3>1. c \in Contents /\ before' = [before EXCEPT ![c] = stored]
        BY <2>2
      <3> QED BY ONLY <3>1, SrvTypes DEF SrvTypes
    <2> QED BY <2>1, <2>2
  <1>4. SrvTypes'
    <2>1. conn' \in [Calls -> ConnStates] /\ req' = [d \in Calls |-> req'[d]]
      BY <1>1 DEF SrvTypes, ConnStates
    <2>2. before' = [d \in Contents |-> before'[d]]
      BY DEF SrvTypes
    <2> QED BY <1>1, <2>1, <2>2 DEF SrvTypes
  <1>5. CallsOK'
    <2>1. \A d \in Calls : hpc'[d] # "idle" => Srv!Handling(d)'
      BY <1>1, <1>2 DEF CallsOK, Srv!Handling
    <2>2. /\ hpc["cmd"] \in {"idle", "reply"}
          /\ main = "exited" => \A d \in Calls : hpc[d] = "idle"
      BY DEF CallsOK
    <2>3. \A u \in Uploads : conn'[u] # "none" =>
             req'[u] = [op |-> "upload", path |-> "p", value |-> u]
      BY <1>2 DEF CallsOK
    <2>4. \A d \in Downloads : conn'[d] # "none" => req'[d] = [op |-> "download", path |-> "p"]
      BY <1>2 DEF CallsOK
    <2>5. conn'["cmd"] # "none" => req'["cmd"].op = "hello"
      BY <1>2 DEF CallsOK
    <2> QED BY <1>1, <2>1, <2>2, <2>3, <2>4, <2>5 DEF CallsOK
  <1>6. HistoryOK'
    <2>1. c \in Contents => c \in begun' /\ c \notin stored
      BY DEF HistoryOK
    <2>2. \A u \in stored : conn'[u] = "none"
      BY <1>2, <2>1 DEF HistoryOK
    <2> QED BY <1>2, <1>3, <2>1, <2>2 DEF HistoryOK
  <1>7. LockOK'
    BY <1>1 DEF LockOK, Writers, Readers
  <1>8. ContentOK'
    <2>1. \A u \in Uploads : Written(u)' => Written(u) /\ u # c
      BY <1>1, <1>2 DEF Written, HistoryOK
    <2>2. \A u \in Uploads : Written(u)' => before'[u] = before[u] /\ Written(u)
      BY <1>3, <2>1
    <2>3. begun \subseteq begun'
      OBVIOUS
    <2> QED BY <1>1, <2>2, <2>3 DEF ContentOK
  <1>9. AnswerOK'
    <2> SUFFICES ASSUME NEW d \in Downloads PROVE Answer(d)'
      BY DEF AnswerOK
    <2>1. CASE d = c
      BY <1>1, <1>2, <2>1 DEF Answer
    <2>2. CASE d # c
      <3>1. /\ before'[d] = before[d] /\ conn'[d] = conn[d] /\ hpc'[d] = hpc[d]
            /\ ans'[d] = ans[d]
        BY <1>1, <1>2, <1>3, <2>2
      <3>2. \A u \in before[d] : before'[u] = before[u]
        BY <1>3 DEF HistoryOK
      <3>3. Current(ans[d].body, before[d]) => Current(ans[d].body, before[d])'
        BY <1>1, <3>1, <3>2 DEF Current
      <3> QED BY <1>1, <3>1, <3>3 DEF AnswerOK, Answer
    <2> QED BY <2>1, <2>2
  <1>10. ExitOK'
    BY <1>1 DEF ExitOK
  <1> QED BY <1>4, <1>5, <1>6, <1>7, <1>8, <1>9, <1>10

\* A handler starts, also for a client that has left.
LEMMA StartStep ==
    ASSUME DemoInv, NEW c \in Calls, Srv!Start(c), UNCHANGED <<begun, stored, before>>
    PROVE  DemoInv'
  <1> USE CallFacts DEF DemoInv
  <1>1. /\ main # "exited" /\ conn[c] \in {"new", "gone"} /\ hpc[c] = "idle"
        /\ conn' = [conn EXCEPT ![c] = IF conn[c] = "new" THEN "active" ELSE "orphan"]
        /\ hpc' = [hpc EXCEPT ![c] = IF req[c].op = "hello" THEN "reply" ELSE "lock"]
        /\ ans' = [ans EXCEPT ![c] = Srv!Entry(Srv!NotFound)]
        /\ UNCHANGED <<main, code, req, mu, content, cut>>
    BY DEF CallsOK, Srv!Handling, Srv!Start, Srv!Unread
  <1>2. /\ \A d \in Calls : d # c => /\ conn'[d] = conn[d] /\ hpc'[d] = hpc[d]
                                     /\ ans'[d] = ans[d]
        /\ conn'[c] \in {"active", "orphan"}
        /\ hpc'[c] = IF c = "cmd" THEN "reply" ELSE "lock"
    <2>1. req[c].op = "hello" <=> c = "cmd"
      <3>1. conn[c] # "none"
        BY <1>1
      <3>2. c \in Uploads => req[c] = [op |-> "upload", path |-> "p", value |-> c]
        BY <3>1 DEF CallsOK
      <3>3. c \in Downloads => req[c] = [op |-> "download", path |-> "p"]
        BY <3>1 DEF CallsOK
      <3>4. c = "cmd" => req[c].op = "hello"
        BY <3>1 DEF CallsOK
      <3> QED BY <3>2, <3>3, <3>4
    <2> QED BY <1>1, <2>1 DEF SrvTypes
  <1>3. SrvTypes'
    <2>1. Srv!Entry(Srv!NotFound) \in Words
      BY DEF Srv!Entry, Words, Values
    <2> QED BY <1>1, <2>1 DEF SrvTypes, ConnStates
  <1>4. CallsOK'
    <2>1. \A d \in Calls : hpc'[d] # "idle" => Srv!Handling(d)'
      BY <1>1, <1>2 DEF CallsOK, Srv!Handling
    <2>2. \A d \in Calls : conn'[d] # "none" => conn[d] # "none"
      BY <1>1, <1>2
    <2> QED BY <1>1, <1>2, <2>1, <2>2 DEF CallsOK
  <1>5. HistoryOK'
    BY <1>1, <1>2 DEF HistoryOK
  <1>6. LockOK'
    <2>1. Writers' = Writers /\ Readers' = Readers
      BY <1>1, <1>2 DEF Writers, Readers, Critical
    <2> QED BY <1>1, <2>1 DEF LockOK
  <1>7. ContentOK' /\ AnswerOK' /\ ExitOK'
    BY <1>1, <1>2 DEF ContentOK, AnswerOK, Answer, Current, Written, ExitOK
  <1> QED BY <1>3, <1>4, <1>5, <1>6, <1>7

\* What a step of a handler that is not the last leaves alone.
LEMMA HandlerTypes ==
    ASSUME DemoInv, NEW c \in Calls, NEW to \in {"type", "body", "unlock", "reply"},
           hpc[c] \notin {"idle", "reply"}, hpc' = [hpc EXCEPT ![c] = to],
           content' \in [Paths -> Words], ans' \in [Calls -> Words],
           UNCHANGED <<main, code, conn, req, cut, begun, stored, before>>
    PROVE  /\ SrvTypes' /\ CallsOK' /\ HistoryOK' /\ ExitOK'
           /\ hpc'[c] = to /\ \A d \in Calls : d # c => hpc'[d] = hpc[d]
           /\ c \in Contents /\ main # "exited" /\ conn[c] \in {"active", "orphan"}
           /\ c \in Uploads => req[c] = [op |-> "upload", path |-> "p", value |-> c]
           /\ c \in Downloads => req[c] = [op |-> "download", path |-> "p"]
           /\ c \in begun /\ c \notin stored
  <1> USE CallFacts DEF DemoInv
  <1>1. /\ hpc'[c] = to /\ \A d \in Calls : d # c => hpc'[d] = hpc[d]
        /\ c \in Contents /\ main # "exited"
    BY DEF SrvTypes, CallsOK, Contents
  <1>2. conn[c] \in {"active", "orphan"}
    BY DEF CallsOK, Srv!Handling
  <1>3. SrvTypes' /\ ExitOK' /\ HistoryOK' /\ c \in begun /\ c \notin stored
    BY <1>1, <1>2 DEF SrvTypes, ExitOK, HistoryOK
  <1>4. \A d \in Calls : hpc'[d] # "idle" => Srv!Handling(d)'
    BY <1>1, <1>2 DEF CallsOK, Srv!Handling
  <1>5. CallsOK'
    BY <1>1, <1>4 DEF CallsOK
  <1> QED BY <1>1, <1>2, <1>3, <1>5 DEF CallsOK

\* Who holds the lock when a handler has moved.
LEMMA LockMoves ==
    ASSUME DemoInv, NEW c \in Contents,
           \A d \in Calls : d # c => hpc'[d] = hpc[d]
    PROVE  /\ hpc'[c] \in Critical =>
                /\ c \in Uploads => Writers' = Writers \union {c} /\ Readers' = Readers
                /\ c \in Downloads => Readers' = Readers \union {c} /\ Writers' = Writers
           /\ hpc'[c] \notin Critical =>
                Writers' = Writers \ {c} /\ Readers' = Readers \ {c}
  BY CallFacts DEF Writers, Readers

\* StoreContent waits for everyone, GetContent for the writer.
LEMMA LockStep ==
    ASSUME DemoInv, NEW c \in Calls, Srv!Lock(c), UNCHANGED <<begun, stored, before>>
    PROVE  DemoInv'
  <1> USE CallFacts DEF DemoInv
  <1>1. /\ hpc[c] = "lock" /\ hpc' = [hpc EXCEPT ![c] = "type"] /\ mu.w = {}
        /\ UNCHANGED <<main, code, conn, req, content, ans, cut>>
    BY DEF Srv!Lock
  <1>2. /\ SrvTypes' /\ CallsOK' /\ HistoryOK' /\ ExitOK'
        /\ hpc'[c] = "type" /\ \A d \in Calls : d # c => hpc'[d] = hpc[d]
        /\ c \in Contents /\ main # "exited"
        /\ c \in Uploads => req[c] = [op |-> "upload", path |-> "p", value |-> c]
        /\ c \in Downloads => req[c] = [op |-> "download", path |-> "p"]
    <2>1. content' \in [Paths -> Words] /\ ans' \in [Calls -> Words]
      BY <1>1 DEF SrvTypes
    <2>2. hpc[c] \notin {"idle", "reply"} /\ "type" \in {"type", "body", "unlock", "reply"}
      BY <1>1
    <2>3. UNCHANGED <<main, code, conn, req, cut, begun, stored, before>>
      BY <1>1
    <2> QED BY <1>1, <2>1, <2>2, <2>3, HandlerTypes
  <1>3. /\ mu = [w |-> Writers, r |-> Readers] /\ Writers = {}
        /\ \A u \in Uploads : hpc[u] # "body"
    <2>1. mu = [w |-> Writers, r |-> Readers]
      BY <1>2 DEF LockOK
    <2>2. Writers = {}
      BY <1>1, <2>1
    <2> QED BY <2>1, <2>2 DEF Writers, Critical
  <1>4. hpc'[c] \in Critical
    BY <1>2 DEF Critical
  <1>5. LockOK'
    <2>1. CASE c \in Uploads
      <3>1. mu.r = {} /\ mu' = [mu EXCEPT !.w = {c}]
        BY <1>2, <2>1 DEF Srv!Lock
      <3>2. Writers' = {c} /\ Readers' = {}
        BY <1>2, <1>3, <1>4, <2>1, <3>1, LockMoves
      <3>3. mu' = [w |-> {c}, r |-> {}]
        BY <1>3, <3>1
      <3> QED BY <3>2, <3>3 DEF LockOK
    <2>2. CASE c \in Downloads
      <3>1. mu' = [mu EXCEPT !.r = mu.r \union {c}]
        BY <1>2, <2>2 DEF Srv!Lock
      <3>2. Writers' = {} /\ Readers' = Readers \union {c}
        BY <1>2, <1>3, <1>4, <2>2, LockMoves
      <3>3. mu' = [w |-> {}, r |-> Readers \union {c}]
        BY <1>3, <3>1
      <3> QED BY <3>2, <3>3 DEF LockOK
    <2> QED BY <1>2, <2>1, <2>2
  <1>6. ContentOK'
    <2>1. \A u \in Uploads : hpc'[u] # "body" /\ (Written(u)' => Written(u))
      BY <1>1, <1>2, <1>3 DEF Written
    <2> QED BY <1>1, <1>3, <2>1 DEF ContentOK
  <1>7. AnswerOK'
    <2>1. \A d \in Downloads : /\ hpc'[d] = "body" => hpc[d] = "body"
                               /\ hpc'[d] \in {"unlock", "reply"} => hpc[d] = hpc'[d]
      BY <1>1, <1>2
    <2> QED BY <1>1, <2>1 DEF AnswerOK, Answer, Current
  <1> QED BY <1>2, <1>5, <1>6, <1>7

\* A handler that copies an entry, under the lock: an upload is alone, a
\* download is beside no upload.
LEMMA CopyAlone ==
    ASSUME DemoInv, NEW c \in Calls, hpc[c] \in {"type", "body"}
    PROVE  /\ c \in Contents /\ main # "exited"
           /\ c \in Uploads => /\ \A u \in Uploads : hpc[u] \in Critical => u = c
                               /\ \A d \in Downloads : hpc[d] \notin Critical
           /\ c \in Downloads => \A u \in Uploads : hpc[u] \notin Critical
  <1> USE CallFacts DEF DemoInv
  <1>1. c \in Contents /\ main # "exited"
    BY DEF CallsOK, Contents
  <1>2. c \in Uploads => c \in Writers
    BY DEF Writers, Critical
  <1>3. c \in Downloads => c \in Readers
    BY DEF Readers, Critical
  <1> QED BY <1>1, <1>2, <1>3 DEF LockOK, Writers, Readers

\* Such a step leaves the lock with who had it.
LEMMA CopyLock ==
    ASSUME DemoInv, NEW c \in Contents, hpc[c] \in Critical, hpc'[c] \in Critical,
           \A d \in Calls : d # c => hpc'[d] = hpc[d],
           UNCHANGED <<main, mu>>
    PROVE  LockOK'
  <1>1. c \in Uploads => c \in Writers
    BY DEF Writers
  <1>2. c \in Downloads => c \in Readers
    BY DEF Readers
  <1>3. Writers' = Writers /\ Readers' = Readers
    BY <1>1, <1>2, LockMoves DEF Contents
  <1> QED BY <1>3 DEF DemoInv, LockOK

\* The first word of an entry is copied, under the lock.
LEMMA CopyTypeStep ==
    ASSUME DemoInv, NEW c \in Calls, Srv!CopyType(c), UNCHANGED <<begun, stored, before>>
    PROVE  DemoInv'
  <1> USE CallFacts DEF DemoInv
  <1>1. /\ hpc[c] = "type" /\ hpc' = [hpc EXCEPT ![c] = "body"]
        /\ UNCHANGED <<main, code, conn, req, mu, cut>>
    BY DEF Srv!CopyType, Srv!Copy
  <1>2. /\ c \in Contents /\ main # "exited" /\ conn[c] # "none"
        /\ c \in Uploads => req[c] = [op |-> "upload", path |-> "p", value |-> c]
        /\ c \in Downloads => req[c] = [op |-> "download", path |-> "p"]
    BY <1>1, CopyAlone DEF CallsOK, Srv!Handling
  <1>3. hpc[c] \notin {"idle", "reply"} /\ "body" \in {"type", "body", "unlock", "reply"}
    BY <1>1
  <1>4. hpc[c] \in Critical /\ "body" \in Critical
    BY <1>1 DEF Critical
  <1>5. CASE c \in Uploads
    <2>1. content' = [content EXCEPT !["p"]["contentType"] = c] /\ ans' = ans
      BY <1>2, <1>5 DEF Srv!CopyType, Srv!Copy
    <2>2. /\ content'["p"].contentType = c /\ content'["p"].body = content["p"].body
          /\ content' \in [Paths -> Words] /\ ans' \in [Calls -> Words]
      <3>1. /\ content \in [Paths -> Words] /\ content["p"] \in Words
            /\ ans' \in [Calls -> Words]
        BY <2>1 DEF SrvTypes
      <3>2. [content["p"] EXCEPT !["contentType"] = c] \in Words
        BY <1>5, <3>1 DEF Words, Values
      <3>3. /\ content' = [content EXCEPT !["p"] = [content["p"] EXCEPT !["contentType"] = c]]
            /\ content'["p"] = [content["p"] EXCEPT !["contentType"] = c]
        BY <2>1, <3>1
      <3> QED BY <3>1, <3>2, <3>3 DEF Words
    <2>3. /\ SrvTypes' /\ CallsOK' /\ HistoryOK' /\ ExitOK'
          /\ hpc'[c] = "body" /\ \A d \in Calls : d # c => hpc'[d] = hpc[d]
      BY <1>1, <1>3, <2>2, HandlerTypes
    <2>4. LockOK'
      BY <1>1, <1>2, <1>4, <2>3, CopyLock
    <2>5. /\ \A u \in Uploads : hpc[u] \in Critical => u = c
          /\ \A d \in Downloads : hpc[d] \notin Critical /\ hpc'[d] = hpc[d]
      BY <1>1, <1>5, <2>3, CopyAlone
    <2>6. ContentOK'
      <3>1. \A u \in Uploads : /\ hpc'[u] = "body" <=> u = c
                               /\ Written(u)' => Written(u)
        BY <1>1, <2>3, <2>5 DEF Written, Critical
      <3> QED BY <1>5, <2>2, <3>1 DEF ContentOK
    <2>7. AnswerOK'
      BY <1>1, <2>1, <2>5 DEF AnswerOK, Answer, Current, Critical
    <2> QED BY <2>3, <2>4, <2>6, <2>7
  <1>6. CASE c \in Downloads
    <2>1. ans' = [ans EXCEPT ![c]["contentType"] = content["p"]["contentType"]]
          /\ content' = content
      BY <1>2, <1>6 DEF Srv!CopyType, Srv!Copy
    <2>2. /\ ans'[c].contentType = content["p"].contentType
          /\ \A d \in Calls : d # c => ans'[d] = ans[d]
          /\ content' \in [Paths -> Words] /\ ans' \in [Calls -> Words]
      <3>1. content["p"]["contentType"] \in Values /\ ans[c] \in Words
        BY DEF SrvTypes, Words
      <3> QED BY <2>1, <3>1 DEF SrvTypes, Words
    <2>3. /\ SrvTypes' /\ CallsOK' /\ HistoryOK' /\ ExitOK'
          /\ hpc'[c] = "body" /\ \A d \in Calls : d # c => hpc'[d] = hpc[d]
          /\ conn[c] \in {"active", "orphan"}
      BY <1>1, <1>3, <2>2, HandlerTypes
    <2>4. LockOK'
      BY <1>1, <1>2, <1>4, <2>3, CopyLock
    <2>5. \A u \in Uploads : hpc'[u] = hpc[u]
      BY <1>6, <2>3
    <2>6. ContentOK'
      BY <1>1, <2>1, <2>5 DEF ContentOK, Written
    <2>7. AnswerOK'
      BY <1>1, <2>1, <2>2, <2>3 DEF AnswerOK, Answer, Current
    <2> QED BY <2>3, <2>4, <2>6, <2>7
  <1> QED BY <1>2, <1>5, <1>6

\* ... and the second: an upload replaces what was there, a download has what
\* no upload answered before it began had replaced.
LEMMA CopyBodyStep ==
    ASSUME DemoInv, NEW c \in Calls, Srv!CopyBody(c), UNCHANGED <<begun, stored, before>>
    PROVE  DemoInv'
  <1> USE CallFacts DEF DemoInv
  <1>1. /\ hpc[c] = "body" /\ hpc' = [hpc EXCEPT ![c] = "unlock"]
        /\ UNCHANGED <<main, code, conn, req, mu, cut>>
    BY DEF Srv!CopyBody, Srv!Copy
  <1>2. /\ c \in Contents /\ main # "exited" /\ conn[c] # "none"
        /\ c \in Uploads => req[c] = [op |-> "upload", path |-> "p", value |-> c]
        /\ c \in Downloads => req[c] = [op |-> "download", path |-> "p"]
    BY <1>1, CopyAlone DEF CallsOK, Srv!Handling
  <1>3. hpc[c] \notin {"idle", "reply"} /\ "unlock" \in {"type", "body", "unlock", "reply"}
    BY <1>1
  <1>4. hpc[c] \in Critical /\ "unlock" \in Critical
    BY <1>1 DEF Critical
  <1>5. CASE c \in Uploads
    <2>1. content' = [content EXCEPT !["p"]["body"] = c] /\ ans' = ans
      BY <1>2, <1>5 DEF Srv!CopyBody, Srv!Copy
    <2>2. /\ content'["p"].body = c
          /\ content'["p"].contentType = content["p"].contentType
          /\ content' \in [Paths -> Words] /\ ans' \in [Calls -> Words]
      <3>1. /\ content \in [Paths -> Words] /\ content["p"] \in Words
            /\ ans' \in [Calls -> Words]
        BY <2>1 DEF SrvTypes
      <3>2. [content["p"] EXCEPT !["body"] = c] \in Words
        BY <1>5, <3>1 DEF Words, Values
      <3>3. /\ content' = [content EXCEPT !["p"] = [content["p"] EXCEPT !["body"] = c]]
            /\ content'["p"] = [content["p"] EXCEPT !["body"] = c]
        BY <2>1, <3>1
      <3> QED BY <3>1, <3>2, <3>3 DEF Words
    <2>3. /\ SrvTypes' /\ CallsOK' /\ HistoryOK' /\ ExitOK'
          /\ hpc'[c] = "unlock" /\ \A d \in Calls : d # c => hpc'[d] = hpc[d]
          /\ c \in begun /\ c \notin stored
      BY <1>1, <1>3, <2>2, HandlerTypes
    <2>4. LockOK'
      BY <1>1, <1>2, <1>4, <2>3, CopyLock
    <2>5. /\ \A u \in Uploads : hpc[u] \in Critical => u = c
          /\ \A d \in Downloads : hpc[d] \notin Critical /\ hpc'[d] = hpc[d]
      BY <1>1, <1>5, <2>3, CopyAlone
    <2>6. ContentOK'
      <3>1. content["p"].contentType = c
        BY <1>1, <1>5 DEF ContentOK
      <3>2. \A u \in Uploads : hpc'[u] # "body"
        BY <2>3, <2>5 DEF Critical
      <3>3. \A u \in Uploads : c \notin before'[u]
        BY <2>3 DEF HistoryOK
      <3> QED BY <1>5, <2>2, <2>3, <3>1, <3>2, <3>3 DEF ContentOK
    <2>7. AnswerOK'
      BY <1>1, <2>1, <2>5 DEF AnswerOK, Answer, Current, Critical
    <2> QED BY <2>3, <2>4, <2>6, <2>7
  <1>6. CASE c \in Downloads
    <2>1. ans' = [ans EXCEPT ![c]["body"] = content["p"]["body"]]
          /\ content' = content
      BY <1>2, <1>6 DEF Srv!CopyBody, Srv!Copy
    <2>2. /\ ans'[c].body = content["p"].body
          /\ ans'[c].contentType = ans[c].contentType
          /\ \A d \in Calls : d # c => ans'[d] = ans[d]
          /\ content' \in [Paths -> Words] /\ ans' \in [Calls -> Words]
      <3>1. content["p"]["body"] \in Values /\ ans[c] \in Words
        BY DEF SrvTypes, Words
      <3> QED BY <2>1, <3>1 DEF SrvTypes, Words
    <2>3. /\ SrvTypes' /\ CallsOK' /\ HistoryOK' /\ ExitOK'
          /\ hpc'[c] = "unlock" /\ \A d \in Calls : d # c => hpc'[d] = hpc[d]
      BY <1>1, <1>3, <2>2, HandlerTypes
    <2>4. LockOK'
      BY <1>1, <1>2, <1>4, <2>3, CopyLock
    <2>5. \A u \in Uploads : hpc'[u] = hpc[u] /\ hpc[u] \notin Critical
      BY <1>1, <1>6, <2>3, CopyAlone
    <2>6. ContentOK'
      BY <1>1, <2>1, <2>5 DEF ContentOK, Written
    <2>7. AnswerOK'
      <3>1. ans[c].contentType = content["p"].contentType
        BY <1>1, <1>6 DEF AnswerOK, Answer
      <3>2. content["p"].contentType = content["p"].body
        BY <1>2, <2>5 DEF ContentOK, Critical
      <3>3. \A u \in before[c] : content["p"].body \in Uploads /\ content["p"].body \notin before[u]
        BY <1>2 DEF HistoryOK, ContentOK, Written
      <3>4. Current(content["p"].body, before[c])
        BY <3>3, DemoConstants DEF Current, ContentOK
      <3>5. Answer(c)'
        BY <1>1, <2>1, <2>2, <2>3, <3>1, <3>2, <3>4 DEF Answer, Current
      <3>6. \A d \in Downloads : d # c => Answer(d)'
        BY <1>1, <2>1, <2>2, <2>3 DEF AnswerOK, Answer, Current
      <3> QED BY <3>5, <3>6 DEF AnswerOK
    <2> QED BY <2>3, <2>4, <2>6, <2>7
  <1> QED BY <1>2, <1>5, <1>6

\* The lock is given back.
LEMMA UnlockStep ==
    ASSUME DemoInv, NEW c \in Calls, Srv!Unlock(c), UNCHANGED <<begun, stored, before>>
    PROVE  DemoInv'
  <1> USE CallFacts DEF DemoInv
  <1>1. /\ hpc[c] = "unlock" /\ hpc' = [hpc EXCEPT ![c] = "reply"]
        /\ mu' = [w |-> mu.w \ {c}, r |-> mu.r \ {c}]
        /\ UNCHANGED <<main, code, conn, req, content, ans, cut>>
    BY DEF Srv!Unlock
  <1>2. /\ SrvTypes' /\ CallsOK' /\ HistoryOK' /\ ExitOK'
        /\ hpc'[c] = "reply" /\ \A d \in Calls : d # c => hpc'[d] = hpc[d]
        /\ c \in Contents /\ main # "exited"
    <2>1. content' \in [Paths -> Words] /\ ans' \in [Calls -> Words]
      BY <1>1 DEF SrvTypes
    <2>2. hpc[c] \notin {"idle", "reply"} /\ "reply" \in {"type", "body", "unlock", "reply"}
      BY <1>1
    <2> QED BY <1>1, <2>1, <2>2, HandlerTypes
  <1>3. Writers' = Writers \ {c} /\ Readers' = Readers \ {c}
    BY <1>2, LockMoves DEF Critical
  <1>4. LockOK'
    BY <1>1, <1>2, <1>3 DEF LockOK
  <1>5. ContentOK' /\ AnswerOK'
    <2>1. /\ \A u \in Uploads : hpc'[u] = "body" <=> hpc[u] = "body"
          /\ \A u \in Uploads : Written(u)' => Written(u)
      BY <1>1, <1>2 DEF Written
    <2> QED BY <1>1, <1>2, <2>1 DEF ContentOK, AnswerOK, Answer, Current
  <1> QED BY <1>2, <1>4, <1>5

\* The answer is written, to a client that may have gone.
LEMMA ReplyStep ==
    ASSUME DemoInv, NEW c \in Calls, Srv!Reply(c), UNCHANGED <<begun, stored, before>>
    PROVE  DemoInv'
  <1> USE CallFacts DEF DemoInv
  <1>1. /\ hpc[c] = "reply" /\ hpc' = [hpc EXCEPT ![c] = "idle"]
        /\ conn' = [conn EXCEPT ![c] = IF conn[c] = "active" THEN "answered" ELSE "none"]
        /\ UNCHANGED <<main, code, req, mu, content, ans, cut>>
    BY DEF Srv!Reply
  <1>2. /\ \A d \in Calls : d # c => conn'[d] = conn[d] /\ hpc'[d] = hpc[d]
        /\ conn'[c] \in {"answered", "none"} /\ hpc'[c] = "idle"
        /\ conn[c] # "none"
    BY <1>1 DEF SrvTypes, CallsOK, Srv!Handling
  <1>3. SrvTypes'
    BY <1>1 DEF SrvTypes, ConnStates
  <1>4. CallsOK'
    <2>1. \A d \in Calls : hpc'[d] # "idle" => Srv!Handling(d)'
      BY <1>1, <1>2 DEF CallsOK, Srv!Handling
    <2>2. \A d \in Calls : conn'[d] # "none" => conn[d] # "none"
      BY <1>2
    <2> QED BY <1>1, <1>2, <2>1, <2>2 DEF CallsOK
  <1>5. HistoryOK'
    BY <1>1, <1>2 DEF HistoryOK
  <1>6. LockOK'
    <2>1. Writers' = Writers /\ Readers' = Readers
      BY <1>1, <1>2 DEF Writers, Readers, Critical
    <2> QED BY <1>1, <2>1 DEF LockOK
  <1>7. ContentOK' /\ AnswerOK' /\ ExitOK'
    <2>1. \A u \in Uploads : Written(u)' => Written(u)
      BY <1>1, <1>2 DEF Written
    <2>2. /\ \A u \in Uploads : hpc'[u] = "body" <=> hpc[u] = "body"
          /\ \A d \in Downloads : hpc'[d] = "body" => hpc[d] = "body"
      BY <1>1, <1>2
    <2>3. ContentOK' /\ ExitOK'
      BY <1>1, <2>1, <2>2 DEF ContentOK, ExitOK
    <2>4. AnswerOK'
      BY <1>1, <1>2, <2>2 DEF AnswerOK, Answer, Current
    <2> QED BY <2>3, <2>4
  <1> QED BY <1>3, <1>4, <1>5, <1>6, <1>7

\* A client hangs up, gives up, or is dropped by Shutdown.
LEMMA HangupStep ==
    ASSUME DemoInv, NEW c \in Calls,
           Srv!Hangup(c) \/ Srv!Abandon(c) \/ Srv!Drop(c),
           UNCHANGED <<begun, before>>,
           \/ stored' = stored
           \/ /\ Srv!Hangup(c) /\ c \in Uploads /\ conn[c] = "answered"
              /\ stored' = stored \union {c}
    PROVE  DemoInv'
  <1>1. PICK to : /\ conn[c] # "none" /\ conn' = [conn EXCEPT ![c] = to]
                  /\ conn[c] = "active" => to = "orphan"
                  /\ conn[c] # "active" => conn[c] # "orphan" /\ to \in {"none", "reset", "gone"}
                  /\ conn[c] = "answered" => to = "none"
    <2>1. CASE Srv!Hangup(c)
      BY <2>1 DEF Srv!Hangup
    <2>2. CASE Srv!Abandon(c)
      BY <2>2 DEF Srv!Abandon
    <2>3. CASE Srv!Drop(c)
      BY <2>3 DEF Srv!Drop, Srv!Unread
    <2> QED BY <2>1, <2>2, <2>3
  <1>2. UNCHANGED <<main, code, req, hpc, mu, content, ans, cut>>
    BY DEF Srv!Hangup, Srv!Abandon, Srv!Drop
  <1>3. conn[c] # "active" => hpc[c] = "idle"
    BY <1>1 DEF DemoInv, CallsOK, Srv!Handling
  <1> QED BY <1>1, <1>2, <1>3, ConnStep

\* Every step of the program, its handlers and its callers keeps DemoInv.
LEMMA DemoStep == DemoInv /\ [Next]_vars => DemoInv'
  <1> SUFFICES ASSUME DemoInv, [Next]_vars PROVE DemoInv'
    OBVIOUS
  <1> USE DEF Others, cliVars
  <1>1. CASE Program
    <2>1. UNCHANGED <<begun, stored, before>>
      BY <1>1 DEF Program
    <2>2. CASE Srv!Listen \/ Srv!ServeFails \/ Srv!Signal
      <3>1. /\ UNCHANGED <<code, conn, req, hpc, mu, content, ans, cut>>
            /\ main' \in {"run", "draining", "exited"} /\ (main' = "exited" <=> main = "exited")
        BY <2>2 DEF Srv!Listen, Srv!ServeFails, Srv!Signal, DemoInv, SrvTypes
      <3> QED BY <2>1, <3>1, OtherStep
    <2>3. CASE Srv!Fail \/ Srv!ShutdownTimeout
      <3>1. main # "exited" /\ Srv!Exit(1)
        BY <2>3 DEF Srv!Fail, Srv!ShutdownTimeout
      <3> QED BY <2>1, <3>1, ExitStep
    <2>4. CASE Srv!ShutdownDone
      <3>1. main # "exited" /\ Srv!Exit(0) /\ \A c \in Calls : ~Srv!Handling(c)
        BY <2>4 DEF Srv!ShutdownDone
      <3> QED BY <2>1, <3>1, ExitStep
    <2>5. CASE \E c \in Calls : Srv!Drop(c)
      BY <2>1, <2>5, HangupStep
    <2>6. CASE \E c \in Calls : Srv!HandlerStep(c)
      BY <2>1, <2>6, LockStep, CopyTypeStep, CopyBodyStep, UnlockStep, ReplyStep
      DEF Srv!HandlerStep
    <2> QED BY <1>1, <2>2, <2>3, <2>4, <2>5, <2>6 DEF Program
  <1>2. CASE Waiter \/ CmdLocal \/ Done \/ UNCHANGED vars
    <2>1. UNCHANGED <<srvVars, begun, stored, before>>
      BY <1>2 DEF Waiter, CmdLocal, Done, vars
    <2>2. UNCHANGED <<main, code, conn, req, hpc, mu, content, ans, cut>>
      BY <2>1 DEF srvVars
    <2> QED BY <2>1, <2>2, OtherStep DEF DemoInv, SrvTypes
  <1>3. CASE CmdPost
    <2>1. Srv!Connect("cmd", [op |-> "hello", doc |-> buf]) /\ UNCHANGED <<begun, stored, before>>
      BY <1>3 DEF CmdPost
    <2>2. [op |-> "hello", doc |-> buf].op = "hello"
      OBVIOUS
    <2> QED BY <2>1, <2>2, ConnectStep, CallFacts
  <1>4. CASE CmdReturn \/ CmdTimeout
    <2>1. (Srv!Hangup("cmd") \/ Srv!Abandon("cmd")) /\ UNCHANGED <<begun, stored, before>>
      BY <1>4 DEF CmdReturn, CmdTimeout
    <2> QED BY <2>1, HangupStep, CallFacts
  <1>5. ASSUME NEW c \in Calls, Upload(c) \/ Download(c) PROVE DemoInv'
    <2>1. PICK r : /\ Srv!Connect(c, r) /\ stored' = stored /\ c \in Contents /\ c \notin begun
                   /\ begun' = begun \union {c} /\ before' = [before EXCEPT ![c] = stored]
                   /\ \/ c \in Uploads /\ r = [op |-> "upload", path |-> "p", value |-> c]
                      \/ c \in Downloads /\ r = [op |-> "download", path |-> "p"]
      BY <1>5 DEF Upload, Download, Begin, Contents
    <2> QED BY <2>1, ConnectStep
  <1>6. ASSUME NEW c \in Calls, Start(c) PROVE DemoInv'
    BY <1>6, StartStep DEF Start
  <1>7. ASSUME NEW c \in Calls, Return(c) \/ GiveUp(c) PROVE DemoInv'
    BY <1>7, HangupStep DEF Return, GiveUp
  <1> QED BY <1>1, <1>2, <1>3, <1>4, <1>5, <1>6, <1>7 DEF Next

\* DemoInv is an invariant of the program and its callers.
THEOREM DemoInvariance == Spec => []DemoInv
  BY DemoInit, DemoStep, PTL DEF Spec

\* Readers and writers of an entry, calls abandoned at any step with newer calls
\* beside them, and a server that drains: a download is one upload's entry, and
\* never one that an upload answered before it began had replaced.
THEOREM DownloadsExact == Spec => []DownloadsAreUploads
  <1>1. DemoInv => DownloadsAreUploads
    BY DEF DemoInv, AnswerOK, Answer, DownloadsAreUploads
  <1> QED BY <1>1, DemoInvariance, PTL

\* The program exits with 0 only when no request was cut.
THEOREM ExitZeroIsClean == Spec => []ExitZeroDrains
  <1>1. DemoInv => ExitZeroDrains
    BY DEF DemoInv, ExitOK, ExitZeroDrains
  <1> QED BY <1>1, DemoInvariance, PTL
-----------------------------------------------------------------------------
(* The command: what it posts, what is handled, what it is told.           *)

Documents == Seq(Cmd!Lines)

CmdTypes ==
    /\ cpc \in {"start", "scan", "process", "call", "exited"}
    /\ exit \in {-1, 0, 1}
    /\ file \in Documents /\ line \in 0..Len(file) /\ buf \in Documents
    /\ posted \in Seq(Documents) /\ handled \in Seq(Documents) /\ acked \in Nat
    /\ conn \in [Calls -> ConnStates]
    /\ req = [c \in Calls |-> req[c]]

\* Handlers are run for the first documents posted, in their order; one may be
\* under way, and was not handled before unless it is answered or was cut.
PostingOK ==
    /\ Len(handled) <= Len(posted) /\ acked <= Len(handled) /\ Len(posted) <= acked + 1
    /\ \A i \in 1..Len(handled) : handled[i] = posted[i]
    /\ exit # -1 <=> cpc = "exited"
    /\ cpc = "exited" /\ acked < Len(posted) => exit = 1
    /\ cpc \notin {"call", "exited"} => conn["cmd"] = "none" /\ Len(posted) = acked
    /\ cpc = "call" => conn["cmd"] \notin {"none", "gone", "orphan"} /\ Len(posted) = acked + 1
    /\ cpc = "exited" => conn["cmd"] \in {"none", "gone", "orphan"}
    /\ conn["cmd"] \in {"new", "gone"} =>
         /\ Len(handled) = acked /\ Len(posted) = acked + 1
         /\ req["cmd"].doc = posted[Len(posted)]
    /\ conn["cmd"] = "answered" \/ conn["cmd"] = "active" => Len(handled) = acked + 1

CmdInv == CmdTypes /\ PostingOK
\* The command has posted nothing.
LEMMA CmdInitially == Init => CmdInv
  <1> SUFFICES ASSUME Init PROVE CmdInv
    OBVIOUS
  <1> USE DemoConstants DEF Init, Srv!SrvInit, Cmd!CmdInit
  <1>1. CmdTypes
    BY DEF CmdTypes, Documents, ConnStates
  <1>2. PostingOK
    BY CallFacts DEF PostingOK
  <1> QED BY <1>1, <1>2 DEF CmdInv

\* Steps of the program and of the other callers: the command's call may be
\* answered, or reset, or end after the command has given up.
LEMMA CallMoves ==
    ASSUME CmdInv, UNCHANGED <<cmdVars, handled>>, req'["cmd"] = req["cmd"],
           conn' \in [Calls -> ConnStates],
           req' = [c \in Calls |-> req'[c]],
           \/ conn'["cmd"] = conn["cmd"]
           \/ conn["cmd"] \in {"new", "active"} /\ conn'["cmd"] = "reset"
           \/ conn["cmd"] = "active" /\ conn'["cmd"] = "answered"
           \/ conn["cmd"] \in {"gone", "orphan"} /\ conn'["cmd"] = "none"
    PROVE  CmdInv'
  <1>1. UNCHANGED <<cpc, exit, file, line, buf, posted, handled, acked>>
    BY DEF cmdVars
  <1>2. CmdTypes'
    BY <1>1 DEF CmdInv, CmdTypes
  <1>3. PostingOK'
    BY <1>1 DEF CmdInv, PostingOK
  <1> QED BY <1>2, <1>3 DEF CmdInv

\* A handler is run for the document that was posted last, once.
LEMMA CmdStart ==
    ASSUME CmdInv, Srv!Start("cmd"), handled' = Append(handled, req["cmd"].doc),
           UNCHANGED cmdVars
    PROVE  CmdInv'
  <1> USE DEF CmdInv
  <1>1. UNCHANGED <<cpc, exit, file, line, buf, posted, acked, req>>
    BY DEF cmdVars, Srv!Start
  <1>2. /\ conn["cmd"] \in {"new", "gone"}
        /\ conn' = [conn EXCEPT !["cmd"] = IF conn["cmd"] = "new" THEN "active" ELSE "orphan"]
    BY DEF Srv!Start, Srv!Unread
  <1>3. conn'["cmd"] = IF conn["cmd"] = "new" THEN "active" ELSE "orphan"
    BY <1>2, CallFacts DEF CmdTypes
  <1>4. /\ cpc = IF conn["cmd"] = "new" THEN "call" ELSE "exited"
        /\ Len(posted) = acked + 1 /\ Len(handled) = acked
        /\ req["cmd"].doc = posted[Len(posted)] /\ acked \in Nat
    BY <1>2 DEF PostingOK, CmdTypes
  <1>5. posted[Len(posted)] \in Documents
    BY <1>4 DEF CmdTypes
  <1>6. /\ handled' \in Seq(Documents) /\ Len(handled') = Len(posted)
        /\ \A i \in 1..Len(handled') : handled'[i] = posted[i]
    <2>1. /\ handled' \in Seq(Documents) /\ Len(handled') = Len(handled) + 1
          /\ \A i \in 1..Len(handled) : handled'[i] = handled[i]
          /\ handled'[Len(handled) + 1] = posted[Len(posted)]
      BY <1>4, <1>5 DEF CmdTypes
    <2>2. ASSUME NEW i \in 1..Len(handled') PROVE handled'[i] = posted[i]
      <3>1. CASE i \in 1..Len(handled)
        BY <2>1, <3>1 DEF PostingOK
      <3>2. CASE i = Len(handled) + 1
        BY <1>4, <2>1, <3>2
      <3> QED BY <1>4, <2>1, <3>1, <3>2
    <2> QED BY <1>4, <2>1, <2>2
  <1>7. CmdTypes'
    BY <1>1, <1>2, <1>6 DEF CmdTypes, ConnStates
  <1>8. PostingOK'
    BY <1>1, <1>2, <1>3, <1>4, <1>6 DEF PostingOK
  <1> QED BY <1>7, <1>8

\* Scanning, skipping and refusing to post.
LEMMA CmdLocalStep ==
    ASSUME CmdInv, CmdLocal
    PROVE  CmdInv'
  <1> USE DEF CmdInv
  <1>1. UNCHANGED <<conn, req, handled, posted, acked, file>> /\ cpc \notin {"call", "exited"}
    BY DEF CmdLocal, srvVars, Cmd!Open, Cmd!Scan, Cmd!Skip, Cmd!Reject, Cmd!Finish,
           Cmd!CmdFail, Cmd!Processed
  <1>2. \/ cpc' \in {"scan", "process"} /\ exit' = exit
        \/ cpc' = "exited" /\ exit' \in {0, 1}
    BY DEF CmdLocal, Cmd!Open, Cmd!Scan, Cmd!Skip, Cmd!Reject, Cmd!Finish,
           Cmd!CmdFail, Cmd!Processed
  <1>3. line' \in 0..Len(file) /\ buf' \in Documents
    <2> USE DEF CmdTypes
    <2>1. CASE Cmd!Scan
      <3>1. CASE Cmd!AtEnd
        BY <2>1, <3>1 DEF Cmd!Scan
      <3>2. CASE ~Cmd!AtEnd
        <4>1. line + 1 \in 1..Len(file)
          BY <3>2 DEF Cmd!AtEnd, Documents
        <4>2. file[line + 1] \in Cmd!Lines
          BY <4>1 DEF Documents
        <4>3. line' = line + 1 /\ (buf' = buf \/ buf' = Append(buf, file[line + 1]))
          BY <2>1, <3>2 DEF Cmd!Scan
        <4>4. Append(buf, file[line + 1]) \in Documents
          <5>1. buf \in Seq(Cmd!Lines)
            BY DEF Documents
          <5> QED BY ONLY <4>2, <5>1 DEF Documents
        <4>5. Len(file) \in Nat
          BY DEF Documents
        <4>6. line + 1 \in 0..Len(file)
          BY <4>1, <4>5
        <4>7. buf \in Documents
          OBVIOUS
        <4> QED BY ONLY <4>3, <4>4, <4>6, <4>7
      <3> QED BY <3>1, <3>2
    <2>2. CASE Cmd!Open \/ Cmd!Skip \/ Cmd!Reject \/ Cmd!Finish
      <3>1. line' = line /\ (buf' = buf \/ buf' = << >>)
        BY <2>2 DEF Cmd!Open, Cmd!Skip, Cmd!Reject, Cmd!Finish, Cmd!CmdFail, Cmd!Processed
      <3>2. << >> \in Documents
        BY ONLY DEF Documents
      <3> QED BY <3>1, <3>2
    <2> QED BY <2>1, <2>2 DEF CmdLocal
  <1>4. CmdTypes'
    BY <1>1, <1>2, <1>3 DEF CmdTypes
  <1>5. PostingOK'
    BY <1>1, <1>2 DEF PostingOK, CmdTypes
  <1> QED BY <1>4, <1>5

\* A document is posted.
LEMMA CmdPostStep ==
    ASSUME CmdInv, CmdPost
    PROVE  CmdInv'
  <1> USE DEF CmdInv
  <1>1. /\ cpc = "process" /\ cpc' = "call" /\ posted' = Append(posted, buf)
        /\ UNCHANGED <<file, line, buf, exit, acked, handled>>
        /\ conn' = [conn EXCEPT !["cmd"] = IF listen = "open" THEN "new" ELSE "refused"]
        /\ req' = [req EXCEPT !["cmd"] = [op |-> "hello", doc |-> buf]]
    BY DEF CmdPost, Cmd!Post, Srv!Connect
  <1>2. /\ posted' \in Seq(Documents) /\ Len(posted') = Len(posted) + 1
        /\ \A i \in 1..Len(posted) : posted'[i] = posted[i]
        /\ posted'[Len(posted) + 1] = buf
    BY <1>1 DEF CmdTypes
  <1>3. conn'["cmd"] \in {"new", "refused"} /\ req'["cmd"].doc = buf
    BY <1>1, CallFacts DEF CmdTypes
  <1>4. Len(posted) = acked /\ acked \in Nat /\ Len(handled) = acked
    BY <1>1 DEF PostingOK, CmdTypes
  <1>5. CmdTypes'
    BY <1>1, <1>2 DEF CmdTypes, ConnStates
  <1>6. PostingOK'
    BY <1>1, <1>2, <1>3, <1>4 DEF PostingOK
  <1> QED BY <1>5, <1>6

\* ... and the command is told that it was answered, or has failed, or takes it
\* for failed.
LEMMA CmdReturnStep ==
    ASSUME CmdInv, CmdReturn \/ CmdTimeout
    PROVE  CmdInv'
  <1> USE DEF CmdInv
  <1>1. cpc = "call" /\ UNCHANGED <<file, line, posted, handled, req>>
    BY DEF CmdReturn, CmdTimeout, Srv!Hangup, Srv!Abandon, Cmd!PostOK, Cmd!PostFails,
           Cmd!Processed, Cmd!CmdFail
  <1>2. /\ conn' \in [Calls -> ConnStates]
        /\ \/ conn'["cmd"] \in {"none", "orphan"}
           \/ conn["cmd"] = "new" /\ conn'["cmd"] = "gone"
    <2>1. CASE Srv!Hangup("cmd")
      BY <2>1, CallFacts DEF Srv!Hangup, CmdTypes, ConnStates
    <2>2. CASE Srv!Abandon("cmd")
      BY <2>2, CallFacts DEF Srv!Abandon, CmdTypes, ConnStates
    <2> QED BY <2>1, <2>2 DEF CmdReturn, CmdTimeout
  <1>3. CASE Cmd!PostOK /\ conn["cmd"] = "answered" /\ CmdReturn
    <2>1. cpc' = "scan" /\ buf' = << >> /\ acked' = acked + 1 /\ UNCHANGED exit
          /\ conn'["cmd"] = "none"
      BY <1>3, CallFacts DEF Cmd!PostOK, Cmd!Processed, CmdReturn, Srv!Hangup, CmdTypes
    <2>2. Len(handled) = acked + 1 /\ Len(posted) = acked + 1
      BY <1>1, <1>3 DEF PostingOK
    <2>3. CmdTypes'
      BY <1>1, <1>2, <2>1 DEF CmdTypes, Documents
    <2>4. PostingOK'
      BY <1>1, <2>1, <2>2 DEF PostingOK, CmdTypes
    <2> QED BY <2>3, <2>4
  <1>4. CASE Cmd!PostFails
    <2>1. cpc' = "exited" /\ exit' = 1 /\ UNCHANGED <<buf, acked>>
      BY <1>4 DEF Cmd!PostFails, Cmd!CmdFail
    <2>2. CmdTypes'
      BY <1>1, <1>2, <2>1 DEF CmdTypes
    <2>3. PostingOK'
      BY <1>1, <1>2, <2>1 DEF PostingOK
    <2> QED BY <2>2, <2>3
  <1> QED BY <1>3, <1>4 DEF CmdReturn, CmdTimeout
\* What the server does to the command's call.
LEMMA ServerMoves ==
    ASSUME CmdInv, DemoInv, Program
    PROVE  CmdInv'
  <1> USE DEF CmdInv
  <1>1. UNCHANGED <<cmdVars, handled>>
    BY DEF Program, Others
  <1>2. req' = req
    BY DEF Program, Srv!Listen, Srv!ServeFails, Srv!Fail, Srv!Signal, Srv!ShutdownDone,
           Srv!ShutdownTimeout, Srv!Exit, Srv!Drop, Srv!HandlerStep, Srv!Lock, Srv!CopyType,
           Srv!CopyBody, Srv!Copy, Srv!Unlock, Srv!Reply
  <1>3. req' = [c \in Calls |-> req'[c]] /\ req'["cmd"] = req["cmd"]
    BY <1>2 DEF CmdTypes
  <1>4. CASE conn' = conn
    BY <1>1, <1>3, <1>4, CallMoves DEF CmdTypes
  <1>5. CASE Srv!Fail \/ Srv!ShutdownDone \/ Srv!ShutdownTimeout
    <2>1. conn' = [c \in Calls |-> IF conn[c] \in {"new", "active"} THEN "reset" ELSE conn[c]]
      BY <1>5 DEF Srv!Fail, Srv!ShutdownDone, Srv!ShutdownTimeout, Srv!Exit
    <2>2. conn' \in [Calls -> ConnStates]
      BY <2>1 DEF CmdTypes, ConnStates
    <2>3. \/ conn'["cmd"] = conn["cmd"]
          \/ conn["cmd"] \in {"new", "active"} /\ conn'["cmd"] = "reset"
      BY <2>1, CallFacts
    <2> QED BY <1>1, <1>3, <2>2, <2>3, CallMoves
  <1>6. CASE \E c \in Calls : Srv!Drop(c)
    <2>1. PICK c \in Calls :
             /\ conn[c] \in {"new", "gone"}
             /\ conn' = [conn EXCEPT ![c] = IF conn[c] = "new" THEN "reset" ELSE "none"]
      BY <1>6 DEF Srv!Drop, Srv!Unread
    <2>2. conn' \in [Calls -> ConnStates]
      BY <2>1 DEF CmdTypes, ConnStates
    <2>3. \/ conn'["cmd"] = conn["cmd"]
          \/ conn["cmd"] \in {"new", "active"} /\ conn'["cmd"] = "reset"
          \/ conn["cmd"] \in {"gone", "orphan"} /\ conn'["cmd"] = "none"
      BY <2>1, CallFacts DEF CmdTypes
    <2> QED BY <1>1, <1>3, <2>2, <2>3, CallMoves
  <1>7. CASE \E c \in Calls : Srv!Reply(c)
    <2>1. PICK c \in Calls :
             /\ hpc[c] = "reply"
             /\ conn' = [conn EXCEPT ![c] = IF conn[c] = "active" THEN "answered" ELSE "none"]
      BY <1>7 DEF Srv!Reply
    <2>2. conn[c] \in {"active", "orphan"}
      BY <1>7, <2>1 DEF DemoInv, CallsOK, Srv!Handling
    <2>3. conn' \in [Calls -> ConnStates]
      BY <2>1 DEF CmdTypes, ConnStates
    <2>4. \/ conn'["cmd"] = conn["cmd"]
          \/ conn["cmd"] = "active" /\ conn'["cmd"] = "answered"
          \/ conn["cmd"] \in {"gone", "orphan"} /\ conn'["cmd"] = "none"
      BY <2>1, <2>2, CallFacts DEF CmdTypes
    <2> QED BY <1>1, <1>3, <2>3, <2>4, CallMoves
  <1> QED BY <1>4, <1>5, <1>6, <1>7
      DEF Program, Srv!Listen, Srv!ServeFails, Srv!Signal, Srv!HandlerStep, Srv!Lock,
          Srv!CopyType, Srv!CopyBody, Srv!Copy, Srv!Unlock

\* The content clients leave the command's call alone.
LEMMA ContentClients ==
    ASSUME CmdInv, NEW c \in Calls, c # "cmd",
           Upload(c) \/ Download(c) \/ Start(c) \/ Return(c) \/ GiveUp(c)
    PROVE  CmdInv'
  <1> USE DEF CmdInv
  <1>1. UNCHANGED <<cmdVars, handled>>
    BY DEF Upload, Download, Begin, Start, Return, GiveUp, Others
  <1>2. \/ \E r : Srv!Connect(c, r)
        \/ Srv!Start(c) \/ Srv!Hangup(c) \/ Srv!Abandon(c)
    BY DEF Upload, Download, Begin, Start, Return, GiveUp
  <1>3. \E to \in {"new", "refused", "active", "none", "gone", "orphan"} :
           conn' = [conn EXCEPT ![c] = to]
    BY <1>2 DEF Srv!Connect, Srv!Start, Srv!Hangup, Srv!Abandon
  <1>4. req' = req \/ \E r : req' = [req EXCEPT ![c] = r]
    BY <1>2 DEF Srv!Connect, Srv!Start, Srv!Hangup, Srv!Abandon
  <1>5. conn' \in [Calls -> ConnStates] /\ conn'["cmd"] = conn["cmd"]
    BY <1>3, CallFacts DEF CmdTypes, ConnStates
  <1>6. req' = [d \in Calls |-> req'[d]] /\ req'["cmd"] = req["cmd"]
    BY <1>4, CallFacts DEF CmdTypes
  <1> QED BY <1>1, <1>5, <1>6, CallMoves

\* Every step keeps CmdInv.
LEMMA CmdStep == DemoInv /\ CmdInv /\ [Next]_vars => CmdInv'
  <1> SUFFICES ASSUME DemoInv, CmdInv, [Next]_vars PROVE CmdInv'
    OBVIOUS
  <1>1. CASE Program
    BY <1>1, ServerMoves
  <1>2. CASE Waiter \/ Done \/ UNCHANGED vars
    <2>1. UNCHANGED <<srvVars, cmdVars, handled>>
      BY <1>2 DEF Waiter, Done, vars
    <2>2. conn' = conn /\ req' = req
      BY <2>1 DEF srvVars
    <2> QED BY <2>1, <2>2, CallMoves DEF CmdInv, CmdTypes
  <1>3. CASE CmdLocal
    BY <1>3, CmdLocalStep
  <1>4. CASE CmdPost
    BY <1>4, CmdPostStep
  <1>5. CASE CmdReturn \/ CmdTimeout
    BY <1>5, CmdReturnStep
  <1>6. ASSUME NEW c \in Calls,
               Upload(c) \/ Download(c) \/ Start(c) \/ Return(c) \/ GiveUp(c)
        PROVE  CmdInv'
    <2>1. CASE c = "cmd"
      <3>1. /\ Srv!Start("cmd") /\ handled' = Append(handled, req["cmd"].doc)
            /\ UNCHANGED cmdVars
        BY <1>6, <2>1, CallFacts DEF Upload, Download, Start, Return, GiveUp, Others
      <3> QED BY <3>1, CmdStart
    <2>2. CASE c # "cmd"
      BY <1>6, <2>2, ContentClients
    <2> QED BY <2>1, <2>2
  <1> QED BY <1>1, <1>2, <1>3, <1>4, <1>5, <1>6 DEF Next

\* Whatever is refused, reset, timed out or abandoned, no document of the file
\* is handled twice or out of order, nothing is posted after a failure, and the
\* command does not exit with 0 after one.
THEOREM PostedOnce == Spec => []PostedInOrder
  <1>1. CmdInv => PostedInOrder
    <2> SUFFICES ASSUME CmdInv PROVE PostedInOrder
      OBVIOUS
    <2>1. /\ Len(handled) \in Nat /\ Len(posted) \in Nat /\ acked \in Nat
          /\ handled \in Seq(Documents) /\ posted \in Seq(Documents)
      BY DEF CmdInv, CmdTypes
    <2>2. SubSeq(handled, 1, Len(handled)) = SubSeq(posted, 1, Len(handled))
      <3>1. Len(handled) <= Len(posted) /\ \A i \in 1..Len(handled) : handled[i] = posted[i]
        BY DEF CmdInv, PostingOK
      <3> QED BY <2>1, <3>1
    <2> QED BY <2>1, <2>2 DEF CmdInv, PostingOK, PostedInOrder, IsPrefix
  <1>2. Spec => []CmdInv
    BY CmdInitially, CmdStep, DemoInvariance, PTL DEF Spec
  <1> QED BY <1>1, <1>2, PTL
-----------------------------------------------------------------------------
(* The command: the documents of its file.                                 *)

\* The lines of the document that the scanner is in, or has just ended.
DocTo   == IF cpc \in {"process", "call"} /\ ~last THEN line - 1 ELSE line
DocFrom == DocTo - Len(buf) + 1

\* There is no document any more once the last one was processed.
InDoc == cpc # "exited" /\ ~(cpc = "scan" /\ last)

\* Every document that begins before a line was posted.
Covered(k) == \A s \in DocsOf(file) : s.from < k => s \in Range(spans)

\* The buffer holds the document that begins after the last separator.
BufferOK ==
    /\ last \in BOOLEAN
    /\ InDoc =>
         /\ DocTo \in 0..Len(file) /\ DocFrom \in 1..(DocTo + 1)
         /\ \A k \in 1..Len(buf) : buf[k] = file[DocFrom - 1 + k]
         /\ \A k \in DocFrom..DocTo : file[k] # "---"
         /\ DocFrom = 1 \/ file[DocFrom - 1] = "---"
    /\ InDoc /\ cpc \in {"process", "call"} /\ ~last => line > 0 /\ file[line] = "---"
    /\ last => Cmd!AtEnd
    /\ cpc = "start" => ~last

\* A document that was posted whole, or up to the line that could not be read.
PostedSpan(s) ==
    \/ s \in DocsOf(file)
    \/ /\ s.to + 1 \in 1..Len(file) /\ file[s.to + 1] = "long"
       /\ last /\ cpc # "process" /\ s = spans[Len(spans)]

SpansOK ==
    /\ spans \in Seq([from : Nat, to : Nat]) /\ Len(spans) = Len(posted)
    /\ \A i \in 1..Len(spans) :
         /\ posted[i] = SubSeq(file, spans[i].from, spans[i].to)
         /\ PostedSpan(spans[i])
         /\ Covered(spans[i].from)
         /\ spans[i].from <= spans[i].to
         /\ InDoc /\ cpc # "call" => spans[i].to < DocFrom
         /\ InDoc => spans[i].to <= DocTo
    /\ \A i, j \in 1..Len(spans) : j < i => spans[j].to < spans[i].from
    /\ cpc = "call" => Len(spans) > 0 /\ spans[Len(spans)] = [from |-> DocFrom, to |-> DocTo]

\* No document was left out so far, and in the end none at all.
CoverOK ==
    /\ InDoc => Covered(DocFrom)
    /\ cpc = "scan" /\ last => Cmd!Unreadable \/ Covered(Len(file) + 1)
    /\ exit = 0 => ~Cmd!Unreadable /\ Covered(Len(file) + 1)

ScanInv == BufferOK /\ SpansOK /\ CoverOK

\* An element of a sequence over S is in S.
LEMMA ElementFacts ==
    ASSUME NEW S, NEW s \in Seq(S), NEW i \in 1..Len(s)
    PROVE  s[i] \in S
  OBVIOUS

\* Two sequences with the same elements are equal.
LEMMA SameSeq ==
    ASSUME NEW S, NEW s \in Seq(S), NEW t \in Seq(S), Len(s) = Len(t),
           \A i \in 1..Len(t) : s[i] = t[i]
    PROVE  t = s
  OBVIOUS

\* A document is what DocsOf says of it.
LEMMA DocParts ==
    ASSUME NEW f \in Documents, NEW s \in DocsOf(f)
    PROVE  /\ s.from \in 1..Len(f) /\ s.to \in 1..Len(f) /\ s.from <= s.to
           /\ s = [from |-> s.from, to |-> s.to]
           /\ \A i \in s.from..s.to : f[i] # "---"
           /\ \E i \in s.from..s.to : f[i] # "blank"
           /\ s.from = 1 \/ f[s.from - 1] = "---"
           /\ s.to = Len(f) \/ f[s.to + 1] = "---"
  <1>1. DOMAIN f = 1..Len(f) /\ Len(f) \in Nat
    BY DEF Documents
  <1>2. s \in [from : 1..Len(f), to : 1..Len(f)]
    BY <1>1 DEF DocsOf
  <1>3. s.from \in 1..Len(f) /\ s.to \in 1..Len(f) /\ s = [from |-> s.from, to |-> s.to]
    BY <1>2
  <1>4. /\ \A i \in s.from..s.to : f[i] # "---"
        /\ \E i \in s.from..s.to : f[i] # "blank"
        /\ s.from = 1 \/ f[s.from - 1] = "---"
        /\ s.to = Len(f) \/ f[s.to + 1] = "---"
    BY DEF DocsOf
  <1>5. s.from <= s.to
    BY <1>3, <1>4
  <1> QED BY <1>3, <1>4, <1>5

\* Between two separators there is one document, or none if the lines are blank.
LEMMA DocHere ==
    ASSUME NEW f \in Documents, NEW a \in Nat, NEW b \in Nat,
           1 <= a, a <= b + 1, b <= Len(f),
           \A k \in a..b : f[k] # "---",
           b = Len(f) \/ f[b + 1] = "---",
           NEW s \in DocsOf(f), a <= s.from, s.from <= b + 1
    PROVE  s = [from |-> a, to |-> b] /\ \E k \in a..b : f[k] # "blank"
  <1>0. Len(f) \in Nat
    BY DEF Documents
  <1>1. /\ s.from \in 1..Len(f) /\ s.to \in 1..Len(f) /\ s.from <= s.to
        /\ s = [from |-> s.from, to |-> s.to]
    BY DocParts
  <1>2. \A i \in s.from..s.to : f[i] # "---"
    BY DocParts
  <1>3. s.from = 1 \/ f[s.from - 1] = "---"
    BY DocParts
  <1>4. s.to = Len(f) \/ f[s.to + 1] = "---"
    BY DocParts
  <1>5. s.from # b + 1
    <2>1. CASE b = Len(f)
      BY <1>0, <1>1, <2>1
    <2>2. CASE f[b + 1] = "---" /\ s.from = b + 1
      <3>1. b + 1 \in s.from..s.to
        BY <1>0, <1>1, <2>2
      <3> QED BY <1>2, <2>2, <3>1
    <2> QED BY <2>1, <2>2
  <1>6. s.from = a
    <2>1. CASE a < s.from
      <3>1. s.from - 1 \in a..b /\ s.from # 1
        BY <1>0, <1>1, <1>5, <2>1
      <3> QED BY <1>3, <3>1
    <2> QED BY <1>0, <1>1, <2>1
  <1>7. s.to = b
    <2>1. CASE s.to < b
      <3>1. s.to + 1 \in a..b /\ s.to # Len(f)
        BY <1>0, <1>1, <1>6, <2>1
      <3> QED BY <1>4, <3>1
    <2>2. CASE b < s.to
      <3>1. b + 1 \in s.from..s.to /\ b # Len(f)
        BY <1>0, <1>1, <1>6, <1>5, <2>2
      <3> QED BY <1>2, <3>1
    <2> QED BY <1>0, <1>1, <2>1, <2>2
  <1>8. \E i \in s.from..s.to : f[i] # "blank"
    BY DocParts
  <1> QED BY <1>1, <1>6, <1>7, <1>8

\* ... and that is one.
LEMMA DocIs ==
    ASSUME NEW f \in Documents, NEW a \in Nat, NEW b \in Nat,
           1 <= a, a <= b, b <= Len(f),
           \A k \in a..b : f[k] # "---",
           \E k \in a..b : f[k] # "blank",
           a = 1 \/ f[a - 1] = "---",
           b = Len(f) \/ f[b + 1] = "---"
    PROVE  [from |-> a, to |-> b] \in DocsOf(f)
  <1> DEFINE r == [from |-> a, to |-> b]
  <1>1. DOMAIN f = 1..Len(f) /\ Len(f) \in Nat
    BY DEF Documents
  <1>2. r \in [from : DOMAIN f, to : DOMAIN f]
    <2>1. a \in Nat /\ b \in Nat /\ 1 <= a /\ a <= b /\ b <= Len(f)
      OBVIOUS
    <2>2. a \in 1..Len(f) /\ b \in 1..Len(f)
      BY ONLY <1>1, <2>1
    <2> QED BY ONLY <1>1, <2>2
  <1>3. r.from = a /\ r.to = b
    OBVIOUS
  <1> HIDE DEF r
  <1>4. r \in DocsOf(f)
    BY <1>2, <1>3 DEF DocsOf
  <1> QED BY <1>4 DEF r

\* What is in the file is a line.
LEMMA LineFacts ==
    ASSUME CmdInv
    PROVE  /\ file \in Documents /\ Len(file) \in Nat /\ line \in 0..Len(file)
           /\ buf \in Documents /\ Len(buf) \in Nat
           /\ Len(posted) \in Nat /\ posted \in Seq(Documents)
    BY DEF CmdInv, CmdTypes, Documents

\* The command has read nothing.
LEMMA ScanInitially == Init => ScanInv
  <1> SUFFICES ASSUME Init PROVE ScanInv
    OBVIOUS
  <1> USE DEF Init, Cmd!CmdInit
  <1>1. CmdInv
    BY CmdInitially
  <1>2. DocTo = 0 /\ DocFrom = 1 /\ InDoc /\ Len(buf) = 0 /\ Len(spans) = 0
    BY DEF DocTo, DocFrom, InDoc
  <1>3. BufferOK
    <2>1. last = FALSE /\ cpc = "start" /\ Len(file) \in Nat
      BY <1>1, LineFacts
    <2>2. DocTo \in 0..Len(file) /\ DocFrom \in 1..(DocTo + 1)
      BY <1>2, <2>1
    <2>3. (\A k \in 1..Len(buf) : FALSE) /\ (\A k \in DocFrom..DocTo : FALSE)
      BY <1>2
    <2> QED BY ONLY <1>2, <2>1, <2>2, <2>3 DEF BufferOK
  <1>4. SpansOK
    BY <1>1, <1>2, LineFacts DEF SpansOK
  <1>5. CoverOK
    <2>1. Covered(1)
      <3> SUFFICES ASSUME NEW s \in DocsOf(file), s.from < 1 PROVE FALSE
        BY DEF Covered
      <3> QED BY <1>1, LineFacts, DocParts
    <2> QED BY <1>2, <2>1 DEF CoverOK
  <1> QED BY <1>3, <1>4, <1>5 DEF ScanInv

\* As long as nothing is posted the documents posted before stay what they are.
LEMMA SpansKept ==
    ASSUME CmdInv, ScanInv, UNCHANGED <<file, posted, spans>>,
           cpc' # "process" \/ ~last, last => last', cpc' # "call",
           InDoc' => /\ DocFrom' \in Nat /\ DocTo' \in Nat /\ DocFrom' <= DocTo' + 1
                     /\ \A i \in 1..Len(spans) : spans[i].to < DocFrom'
    PROVE  SpansOK'
  <1> USE DEF ScanInv, SpansOK
  <1>1. ASSUME NEW i \in 1..Len(spans) PROVE PostedSpan(spans[i])'
    <2>1. PostedSpan(spans[i]) /\ spans' = spans /\ file' = file
      OBVIOUS
    <2>2. CASE spans[i] \in DocsOf(file)
      BY <2>1, <2>2 DEF PostedSpan
    <2>3. CASE spans[i] \notin DocsOf(file)
      <3>1. /\ spans[i].to + 1 \in 1..Len(file) /\ file[spans[i].to + 1] = "long"
            /\ last /\ spans[i] = spans[Len(spans)]
        BY <2>1, <2>3 DEF PostedSpan
      <3> QED BY <2>1, <3>1 DEF PostedSpan
    <2> QED BY <2>2, <2>3
  <1>2. ASSUME NEW i \in 1..Len(spans) PROVE Covered(spans[i].from)'
    BY <1>2 DEF Covered
  <1>3. ASSUME NEW i \in 1..Len(spans), InDoc'
        PROVE  spans[i].to < DocFrom' /\ spans[i].to <= DocTo'
    <2>1. spans[i].to < DocFrom' /\ DocFrom' <= DocTo' + 1
      BY <1>3
    <2>2. DocFrom' \in Nat /\ DocTo' \in Nat
      BY <1>3
    <2>3. spans \in Seq([from : Nat, to : Nat])
      OBVIOUS
    <2>4. spans[i] \in [from : Nat, to : Nat]
      BY ONLY <2>3, i \in 1..Len(spans), ElementFacts
    <2>5. spans[i].to \in Nat
      BY ONLY <2>4
    <2>6. ASSUME NEW x \in Nat, NEW y \in Nat, NEW z \in Nat, x < y, y <= z + 1
          PROVE  x < y /\ x <= z
      BY <2>6
    <2> QED BY ONLY <2>1, <2>2, <2>5, <2>6
  <1>4. /\ spans' \in Seq([from : Nat, to : Nat]) /\ Len(spans') = Len(posted')
        /\ \A i, j \in 1..Len(spans') : j < i => spans'[j].to < spans'[i].from
        /\ \A i \in 1..Len(spans') :
             /\ posted'[i] = SubSeq(file', spans'[i].from, spans'[i].to)
             /\ spans'[i].from <= spans'[i].to
    OBVIOUS
  <1> QED BY <1>1, <1>2, <1>3, <1>4

\* A document has been dealt with: it was blank, or it was posted.  The scanner is
\* behind it and no document was left out.
LEMMA DocDone ==
    ASSUME CmdInv, ScanInv, cpc \in {"process", "call"},
           Cmd!Blank(buf) \/ cpc = "call"
    PROVE  /\ ~last => Covered(line + 1)
           /\ last => Cmd!Unreadable \/ Covered(Len(file) + 1)
  <1> USE DEF ScanInv
  <1> DEFINE a == DocFrom
             b == DocTo
  <1>1. /\ file \in Documents /\ Len(file) \in Nat /\ line \in 0..Len(file)
        /\ buf \in Documents /\ Len(buf) \in Nat
    BY LineFacts
  <1>2. /\ InDoc /\ b \in 0..Len(file) /\ a \in 1..(b + 1)
        /\ \A k \in 1..Len(buf) : buf[k] = file[a - 1 + k]
        /\ \A k \in a..b : file[k] # "---"
    BY DEF BufferOK, InDoc
  <1>3. b = (IF last THEN line ELSE line - 1) /\ Len(buf) = b - a + 1
    BY <1>1, <1>2 DEF DocTo, DocFrom
  <1>4. Covered(a)
    BY <1>2 DEF CoverOK
  <1> HIDE DEF a, b
  <1>5. ASSUME b = Len(file) \/ file[b + 1] = "---",
               NEW s \in DocsOf(file), s.from <= b + 1
        PROVE  s \in Range(spans)
    <2>1. CASE s.from < a
      BY <1>4, <2>1 DEF Covered
    <2>2. CASE ~(s.from < a)
      <3>1. s.from \in Nat
        BY <1>1, DocParts
      <3>2. a \in Nat /\ b \in Nat /\ 1 <= a /\ a <= b + 1 /\ b <= Len(file) /\ a <= s.from
        BY <1>1, <1>2, <2>2, <3>1
      <3>3. s = [from |-> a, to |-> b] /\ \E k \in a..b : file[k] # "blank"
        BY <1>1, <1>2, <1>5, <3>2, DocHere
      <3>4. PICK k \in a..b : file[k] # "blank"
        BY <3>3
      <3>5. k - a + 1 \in 1..Len(buf) /\ a - 1 + (k - a + 1) = k
        BY <1>3, <3>2
      <3>6. buf[k - a + 1] # "blank"
        BY <1>2, <3>4, <3>5
      <3>7. ~Cmd!Blank(buf)
        <4>1. k - a + 1 \in DOMAIN buf
          BY <1>1, <3>5 DEF Documents
        <4> QED BY <3>6, <4>1 DEF Cmd!Blank, Cmd!Range
      <3>8. Len(spans) > 0 /\ spans[Len(spans)] = s /\ spans \in Seq([from : Nat, to : Nat])
        BY <3>3, <3>7 DEF SpansOK, a, b
      <3>9. Len(spans) \in DOMAIN spans
        BY ONLY <3>8
      <3> QED BY <3>8, <3>9 DEF Range
    <2> QED BY <2>1, <2>2
  <1>6. CASE ~last
    <2>1. line > 0 /\ file[line] = "---"
      BY <1>2, <1>6 DEF BufferOK
    <2>2. b + 1 = line /\ file[b + 1] = "---"
      BY <1>1, <1>3, <1>6, <2>1
    <2>3. ASSUME NEW s \in DocsOf(file), s.from < line + 1 PROVE s \in Range(spans)
      <3>1. s.from \in Nat
        BY <1>1, DocParts
      <3>2. s.from <= b + 1
        BY <1>1, <2>2, <2>3, <3>1
      <3> QED BY <1>5, <2>2, <3>2
    <2> QED BY <1>6, <2>3 DEF Covered
  <1>7. CASE last
    <2>1. CASE Cmd!Unreadable
      BY <1>7, <2>1
    <2>2. CASE ~Cmd!Unreadable
      <3>1. line = Len(file)
        <4>1. line = Len(file) \/ file[line + 1] = "long"
          BY <1>7 DEF BufferOK, Cmd!AtEnd
        <4>2. line # Len(file) => line + 1 \in DOMAIN file
          BY <1>1 DEF Documents
        <4> QED BY <2>2, <4>1, <4>2 DEF Cmd!Unreadable, Cmd!Range
      <3>2. b = Len(file)
        BY <1>3, <1>7, <3>1
      <3>3. ASSUME NEW s \in DocsOf(file), s.from < Len(file) + 1 PROVE s \in Range(spans)
        <4>1. s.from \in Nat
          BY <1>1, DocParts
        <4>2. s.from <= b + 1
          BY <1>1, <3>2, <3>3, <4>1
        <4> QED BY <1>5, <3>2, <4>2
      <3> QED BY <1>7, <3>3 DEF Covered
    <2> QED BY <2>1, <2>2
  <1> QED BY <1>6, <1>7

\* The command gives up: there is no document any more.
LEMMA ScanFails ==
    ASSUME CmdInv, ScanInv, Cmd!CmdFail, file' = file
    PROVE  ScanInv'
  <1>1. cpc' = "exited" /\ exit' = 1 /\ UNCHANGED <<line, last, posted, spans>> /\ ~InDoc'
    BY DEF Cmd!CmdFail, InDoc
  <1>2. BufferOK'
    BY <1>1 DEF ScanInv, BufferOK, Cmd!AtEnd
  <1>3. SpansOK'
    BY <1>1, SpansKept
  <1>4. CoverOK'
    BY <1>1 DEF CoverOK
  <1> QED BY <1>2, <1>3, <1>4 DEF ScanInv

\* The scan goes on behind a document that was dealt with.
LEMMA ScanGoesOn ==
    ASSUME CmdInv, ScanInv, cpc \in {"process", "call"}, Cmd!Blank(buf) \/ cpc = "call",
           Cmd!Processed, UNCHANGED <<file, posted, spans>>
    PROVE  ScanInv'
  <1>0. /\ file \in Documents /\ Len(file) \in Nat /\ line \in 0..Len(file)
    BY LineFacts
  <1>1. cpc' = "scan" /\ buf' = << >> /\ UNCHANGED <<line, last, exit>> /\ exit # 0
    BY DEF Cmd!Processed, CmdInv, PostingOK
  <1>2. /\ ~last => Covered(line + 1)
        /\ last => Cmd!Unreadable \/ Covered(Len(file) + 1)
    BY DocDone
  <1>3. CASE ~last
    <2>1. InDoc' /\ DocTo' = line /\ DocFrom' = line + 1 /\ Len(buf') = 0
      BY <1>0, <1>1, <1>3 DEF InDoc, DocTo, DocFrom
    <2>2. line > 0 /\ file[line] = "---"
      BY <1>3 DEF ScanInv, BufferOK, InDoc
    <2>3. BufferOK'
      <3>1. /\ DocTo' \in 0..Len(file) /\ DocFrom' \in 1..(DocTo' + 1)
            /\ DocFrom' - 1 = line
        BY <1>0, <2>1
      <3>2. (\A k \in 1..Len(buf') : FALSE) /\ (\A k \in DocFrom'..DocTo' : FALSE)
        BY <1>0, <2>1
      <3>3. file'[DocFrom' - 1] = "---" /\ last' = FALSE
        BY <1>1, <1>3, <2>2, <3>1 DEF ScanInv, BufferOK
      <3> QED BY <1>1, <3>1, <3>2, <3>3 DEF BufferOK
    <2>4. SpansOK'
      <3>1. ASSUME NEW i \in 1..Len(spans) PROVE spans[i].to < DocFrom'
        <4>1. spans[i].to <= DocTo /\ spans \in Seq([from : Nat, to : Nat])
          BY DEF ScanInv, SpansOK, InDoc
        <4>2. spans[i] \in [from : Nat, to : Nat]
          BY <4>1, ElementFacts
        <4>3. spans[i].to \in Nat
          BY ONLY <4>2
        <4>4. DocTo = line - 1
          BY <1>3 DEF DocTo
        <4> QED BY <1>0, <2>1, <4>1, <4>3, <4>4
      <3>2. DocFrom' \in Nat /\ DocTo' \in Nat /\ DocFrom' <= DocTo' + 1
        BY <1>0, <2>1
      <3> QED BY <1>1, <1>3, <3>1, <3>2, SpansKept
    <2>5. CoverOK'
      <3>1. Covered(line + 1)'
        BY <1>1, <1>2, <1>3 DEF Covered
      <3>2. Covered(DocFrom)'
        BY <1>1, <2>1, <3>1 DEF Covered
      <3> QED BY <1>1, <1>3, <3>2 DEF CoverOK
    <2> QED BY <2>3, <2>4, <2>5 DEF ScanInv
  <1>4. CASE last
    <2>1. ~InDoc'
      BY <1>1, <1>4 DEF InDoc
    <2>2. BufferOK'
      BY <1>1, <1>4, <2>1 DEF ScanInv, BufferOK, Cmd!AtEnd
    <2>3. SpansOK'
      BY <1>1, <2>1, SpansKept
    <2>4. CoverOK'
      <3>1. (Cmd!Unreadable \/ Covered(Len(file) + 1))'
        BY <1>2, <1>4 DEF Covered, Cmd!Unreadable
      <3> QED BY <1>1, <2>1, <3>1 DEF CoverOK
    <2> QED BY <2>2, <2>3, <2>4 DEF ScanInv
  <1> QED BY <1>3, <1>4

\* A line is scanned.
LEMMA ScanLine ==
    ASSUME CmdInv, ScanInv, Cmd!Scan
    PROVE  ScanInv'
  <1> USE DEF ScanInv
  <1>0. /\ file \in Documents /\ Len(file) \in Nat /\ line \in 0..Len(file)
        /\ buf \in Documents /\ Len(buf) \in Nat
    BY LineFacts
  <1>1. /\ cpc = "scan" /\ ~last /\ UNCHANGED <<file, exit, posted, spans>> /\ exit # 0
        /\ InDoc /\ cpc' \in {"scan", "process"}
    BY DEF Cmd!Scan, CmdInv, PostingOK, InDoc
  <1>2. DocTo = line /\ DocFrom = line - Len(buf) + 1
    BY <1>1 DEF DocTo, DocFrom
  <1>3. /\ DocTo \in 0..Len(file) /\ DocFrom \in 1..(DocTo + 1)
        /\ \A k \in 1..Len(buf) : buf[k] = file[DocFrom - 1 + k]
        /\ \A k \in DocFrom..DocTo : file[k] # "---"
        /\ DocFrom = 1 \/ file[DocFrom - 1] = "---"
    BY <1>1 DEF BufferOK
  <1>4. \/ line' = line /\ buf' = buf /\ last' = TRUE /\ cpc' = "process" /\ Cmd!AtEnd
        \/ /\ line' = line + 1 /\ buf' = buf /\ last' = last /\ cpc' = "process"
           /\ file[line + 1] = "---" /\ ~Cmd!AtEnd
        \/ /\ line' = line + 1 /\ buf' = Append(buf, file[line + 1]) /\ last' = last
           /\ cpc' = "scan" /\ file[line + 1] # "---" /\ ~Cmd!AtEnd
    BY DEF Cmd!Scan
  <1>5. InDoc' /\ DocFrom' = DocFrom /\ DocTo' \in Nat /\ DocTo <= DocTo'
    <2>1. CASE buf' = buf
      BY <1>0, <1>1, <1>2, <1>4, <2>1 DEF InDoc, DocTo, DocFrom
    <2>2. CASE buf' = Append(buf, file[line + 1])
      <3>1. Len(buf') = Len(buf) + 1
        BY <1>0, <2>2 DEF Documents
      <3> QED BY <1>0, <1>1, <1>2, <1>4, <3>1 DEF InDoc, DocTo, DocFrom
    <2> QED BY <1>4, <2>1, <2>2
  <1>6. SpansOK'
    <2>1. ASSUME NEW i \in 1..Len(spans) PROVE spans[i].to < DocFrom'
      BY <1>1, <1>5 DEF SpansOK
    <2>2. DocFrom' \in Nat /\ DocTo' \in Nat /\ DocFrom' <= DocTo' + 1
      BY <1>0, <1>2, <1>3, <1>5
    <2> QED BY <1>1, <1>4, <2>1, <2>2, SpansKept
  <1>7. CoverOK'
    <2>1. Covered(DocFrom)
      BY <1>1 DEF CoverOK
    <2>2. Covered(DocFrom)'
      BY <1>1, <1>5, <2>1 DEF Covered
    <2> QED BY <1>1, <1>4, <1>5, <2>2 DEF CoverOK
  <1>8. BufferOK'
    <2>1. CASE buf' = buf
      <3>0. /\ cpc' = "process" /\ last \in BOOLEAN
            /\ \/ line' = line /\ last' = TRUE /\ Cmd!AtEnd
               \/ line' = line + 1 /\ last' = FALSE /\ file[line + 1] = "---"
        <4>1. Len(Append(buf, file[line + 1])) # Len(buf)
          BY <1>0 DEF Documents
        <4>2. last \in BOOLEAN
          BY DEF BufferOK
        <4> QED BY <1>1, <1>4, <2>1, <4>1, <4>2
      <3>1. DocTo' = DocTo
        BY <1>0, <1>2, <3>0 DEF DocTo
      <3>2. ~last' => line' > 0 /\ file'[line'] = "---"
        BY <1>0, <1>1, <3>0
      <3>3. last' \in BOOLEAN /\ (last' => Cmd!AtEnd') /\ cpc' # "start"
        BY <1>1, <3>0 DEF Cmd!AtEnd
      <3> QED BY <1>1, <1>3, <1>5, <2>1, <3>1, <3>2, <3>3 DEF BufferOK
    <2>2. CASE buf' = Append(buf, file[line + 1]) /\ buf' # buf
      <3>1. /\ line' = line + 1 /\ last' = FALSE /\ cpc' = "scan"
            /\ file[line + 1] # "---" /\ ~Cmd!AtEnd
        BY <1>1, <1>4, <2>2
      <3>2. line + 1 \in 1..Len(file) /\ DocTo' = line + 1
        BY <1>0, <3>1 DEF Cmd!AtEnd, DocTo
      <3>3. /\ Len(buf') = Len(buf) + 1 /\ buf'[Len(buf) + 1] = file[line + 1]
            /\ \A k \in 1..Len(buf) : buf'[k] = buf[k]
        BY <1>0, <2>2 DEF Documents
      <3>4. ASSUME NEW k \in 1..Len(buf') PROVE buf'[k] = file[DocFrom - 1 + k]
        <4>1. CASE k \in 1..Len(buf)
          BY <1>3, <3>3, <4>1
        <4>2. CASE k = Len(buf) + 1
          <5>1. DocFrom - 1 + k = line + 1
            BY <1>0, <1>2, <4>2
          <5> QED BY <3>3, <4>2, <5>1
        <4> QED BY <1>0, <3>3, <4>1, <4>2
      <3>5. ASSUME NEW k \in DocFrom..(line + 1) PROVE file[k] # "---"
        <4>1. k \in DocFrom..DocTo \/ k = line + 1
          BY <1>0, <1>2, <1>3
        <4> QED BY <1>3, <3>1, <4>1
      <3>6. DocTo' \in 0..Len(file) /\ DocFrom \in 1..(DocTo' + 1)
        BY <1>0, <1>2, <1>3, <3>2
      <3> QED BY <1>1, <1>3, <1>5, <3>1, <3>2, <3>4, <3>5, <3>6 DEF BufferOK
    <2> QED BY <1>4, <2>1, <2>2
  <1> QED BY <1>6, <1>7, <1>8

\* A document is posted, whole unless reading the file failed in it.
LEMMA ScanPost ==
    ASSUME CmdInv, ScanInv, Cmd!Post
    PROVE  ScanInv'
  <1> USE DEF ScanInv
  <1>0. /\ file \in Documents /\ Len(file) \in Nat /\ line \in 0..Len(file)
        /\ buf \in Documents /\ Len(buf) \in Nat
        /\ Len(posted) \in Nat /\ posted \in Seq(Documents)
    BY LineFacts
  <1> DEFINE new == [from |-> DocFrom, to |-> DocTo]
  <1>1. /\ cpc = "process" /\ cpc' = "call" /\ UNCHANGED <<file, line, buf, last, exit>>
        /\ posted' = Append(posted, buf) /\ spans' = Append(spans, new)
        /\ ~Cmd!Blank(buf) /\ exit # 0
    BY DEF Cmd!Post, Cmd!DocEnd, DocTo, DocFrom, CmdInv, PostingOK
  <1>2. InDoc /\ InDoc' /\ DocTo' = DocTo /\ DocFrom' = DocFrom
    BY <1>1 DEF InDoc, DocTo, DocFrom
  <1>3. /\ DocTo \in 0..Len(file) /\ DocFrom \in 1..(DocTo + 1)
        /\ \A k \in 1..Len(buf) : buf[k] = file[DocFrom - 1 + k]
        /\ \A k \in DocFrom..DocTo : file[k] # "---"
        /\ DocFrom = 1 \/ file[DocFrom - 1] = "---"
        /\ Len(buf) = DocTo - DocFrom + 1
    <2>1. DocTo \in 0..Len(file) /\ DocFrom \in 1..(DocTo + 1)
      BY <1>2 DEF BufferOK
    <2>2. Len(buf) = DocTo - DocFrom + 1
      <3>1. DocFrom = DocTo - Len(buf) + 1
        BY DEF DocFrom
      <3> QED BY <1>0, <2>1, <3>1
    <2> QED BY <1>2, <2>1, <2>2 DEF BufferOK
  <1>4. DocFrom \in Nat /\ DocTo \in Nat /\ Len(file) \in Nat
    BY <1>0, <1>3
  <1>5. PICK k \in 1..Len(buf) : buf[k] # "blank"
    BY <1>0, <1>1 DEF Cmd!Blank, Cmd!Range, Documents
  <1>6. DocFrom - 1 + k \in DocFrom..DocTo /\ file[DocFrom - 1 + k] # "blank" /\ DocFrom <= DocTo
    BY <1>0, <1>3, <1>4, <1>5
  <1>7. BufferOK'
    <2>1. Cmd!AtEnd' = Cmd!AtEnd
      BY <1>1 DEF Cmd!AtEnd
    <2> QED BY <1>1, <1>2, <2>1 DEF BufferOK
  <1>8. new \in [from : Nat, to : Nat] /\ new.from = DocFrom /\ new.to = DocTo
    BY <1>4
  <1>9. spans \in Seq([from : Nat, to : Nat]) /\ Len(spans) \in Nat /\ Len(spans) = Len(posted)
    BY DEF SpansOK
  <1> HIDE DEF new
  <1>10. /\ spans' \in Seq([from : Nat, to : Nat]) /\ Len(spans') = Len(spans) + 1
         /\ \A i \in 1..Len(spans) : spans'[i] = spans[i]
         /\ spans'[Len(spans) + 1] = new
    BY <1>1, <1>8, <1>9
  <1>11. /\ Len(posted') = Len(posted) + 1
         /\ \A i \in 1..Len(posted) : posted'[i] = posted[i]
         /\ posted'[Len(posted) + 1] = buf
    BY <1>0, <1>1
  <1>12. Range(spans) \subseteq Range(spans')
    <2>1. DOMAIN spans = 1..Len(spans) /\ DOMAIN spans' = 1..(Len(spans) + 1)
      BY <1>9, <1>10
    <2> QED BY <1>9, <1>10, <2>1 DEF Range
  <1>13. ASSUME NEW n, Covered(n) PROVE \A s \in DocsOf(file) : s.from < n => s \in Range(spans')
    BY <1>12, <1>13 DEF Covered
  <1>14. Covered(DocFrom) /\ Covered(DocFrom)'
    BY <1>1, <1>2, <1>13 DEF CoverOK, Covered
  <1>15. CoverOK'
    BY <1>1, <1>2, <1>14 DEF CoverOK
  <1>16. \/ new \in DocsOf(file)
         \/ last /\ DocTo + 1 \in 1..Len(file) /\ file[DocTo + 1] = "long"
    <2>1. CASE DocTo = Len(file) \/ file[DocTo + 1] = "---"
      <3>1. 1 <= DocFrom /\ DocFrom <= DocTo /\ DocTo <= Len(file)
        BY <1>0, <1>3, <1>4, <1>6
      <3>2. \E m \in DocFrom..DocTo : file[m] # "blank"
        BY <1>6
      <3>3. [from |-> DocFrom, to |-> DocTo] \in DocsOf(file)
        BY <1>0, <1>3, <1>4, <2>1, <3>1, <3>2, DocIs
      <3> QED BY <3>3 DEF new
    <2>2. CASE ~last
      <3>1. line > 0 /\ file[line] = "---" /\ DocTo = line - 1
        BY <1>1, <1>2, <2>2 DEF BufferOK, DocTo
      <3>2. DocTo + 1 = line
        BY <1>0, <3>1
      <3> QED BY <2>1, <3>1, <3>2
    <2>3. CASE last /\ DocTo # Len(file)
      <3>1. DocTo = line
        BY <2>3 DEF DocTo
      <3>2. file[line + 1] = "long"
        BY <2>3, <3>1 DEF BufferOK, Cmd!AtEnd
      <3>3. line + 1 \in 1..Len(file)
        BY <1>0, <2>3, <3>1
      <3> QED BY <2>3, <3>1, <3>2, <3>3
    <2> QED BY <2>1, <2>2, <2>3 DEF BufferOK
  <1>17. ASSUME NEW i \in 1..Len(spans)
         PROVE  /\ spans[i] \in DocsOf(file) /\ Covered(spans[i].from)
                /\ posted[i] = SubSeq(file, spans[i].from, spans[i].to)
                /\ spans[i].from <= spans[i].to /\ spans[i].to < DocFrom
                /\ spans[i].from \in Nat /\ spans[i].to \in Nat
    <2>1. PostedSpan(spans[i]) /\ cpc = "process" /\ InDoc
      BY <1>1, <1>2 DEF SpansOK
    <2>2. spans[i] \in [from : Nat, to : Nat]
      BY <1>9, ElementFacts
    <2>3. spans[i].from \in Nat /\ spans[i].to \in Nat
      BY <2>2
    <2> QED BY <2>1, <2>3 DEF SpansOK, PostedSpan
  <1>18. buf = SubSeq(file, DocFrom, DocTo)
    <2>1. SubSeq(file, DocFrom, DocTo) \in Seq(Cmd!Lines) /\ buf \in Seq(Cmd!Lines)
          /\ file \in Seq(Cmd!Lines)
      BY <1>0, <1>3, <1>4, <1>6 DEF Documents
    <2>2. Len(SubSeq(file, DocFrom, DocTo)) = Len(buf)
      BY <1>3, <1>4, <1>6, <2>1
    <2>3. ASSUME NEW m \in 1..Len(buf) PROVE SubSeq(file, DocFrom, DocTo)[m] = buf[m]
      <3>1. m \in 1..(DocTo - DocFrom + 1) /\ DocFrom - 1 + m = DocFrom + m - 1
        BY <1>3, <1>4
      <3>2. SubSeq(file, DocFrom, DocTo)[m] = file[DocFrom + m - 1]
        BY <1>4, <2>1, <3>1
      <3> QED BY <1>3, <3>1, <3>2
    <2> QED BY ONLY <2>1, <2>2, <2>3, SameSeq
  <1>19. ASSUME NEW i \in 1..Len(spans')
         PROVE  /\ posted'[i] = SubSeq(file', spans'[i].from, spans'[i].to)
                /\ PostedSpan(spans[i])'
                /\ Covered(spans[i].from)'
                /\ spans'[i].from <= spans'[i].to
                /\ spans'[i].to <= DocTo'
                /\ \A j \in 1..Len(spans') : j < i => spans'[j].to < spans'[i].from
    <2>1. CASE i \in 1..Len(spans)
      <3>1. spans'[i] = spans[i] /\ posted'[i] = posted[i] /\ file' = file
        BY <1>1, <1>9, <1>10, <1>11, <2>1
      <3>2. PostedSpan(spans[i])'
        BY <1>17, <2>1, <3>1 DEF PostedSpan
      <3>3. Covered(spans[i].from)'
        BY <1>13, <1>17, <2>1, <3>1 DEF Covered
      <3>4. spans[i].to <= DocTo'
        BY <1>2, <1>3, <1>4, <1>17, <2>1
      <3>5. ASSUME NEW j \in 1..Len(spans'), j < i PROVE spans'[j].to < spans'[i].from
        <4>1. j \in 1..Len(spans)
          BY <1>9, <1>10, <2>1, <3>5
        <4>2. spans[j].to < spans[i].from /\ spans'[j] = spans[j]
          BY <1>10, <2>1, <3>5, <4>1 DEF SpansOK
        <4> QED BY <3>1, <4>2
      <3> QED BY <1>17, <2>1, <3>1, <3>2, <3>3, <3>4, <3>5
    <2>2. CASE i = Len(spans) + 1
      <3>1. spans'[i] = new /\ posted'[i] = buf /\ file' = file /\ i = Len(spans')
        BY <1>1, <1>9, <1>10, <1>11, <2>2
      <3>2. PostedSpan(spans[i])'
        BY <1>1, <1>8, <1>16, <3>1 DEF PostedSpan
      <3>3. Covered(spans[i].from)'
        BY <1>1, <1>2, <1>8, <1>13, <1>14, <3>1 DEF Covered
      <3>4. ASSUME NEW j \in 1..Len(spans'), j < i PROVE spans'[j].to < spans'[i].from
        <4>1. j \in 1..Len(spans)
          BY <1>9, <1>10, <2>2, <3>4
        <4>2. spans[j].to < DocFrom /\ spans'[j] = spans[j]
          BY <1>10, <1>17, <4>1
        <4> QED BY <1>8, <3>1, <4>2
      <3> QED BY <1>2, <1>4, <1>6, <1>8, <1>18, <3>1, <3>2, <3>3, <3>4
    <2>3. i \in 1..Len(spans) \/ i = Len(spans) + 1
      <3>1. Len(spans) \in Nat /\ i \in 1..(Len(spans) + 1)
        BY <1>9, <1>10
      <3> QED BY ONLY <3>1
    <2> QED BY ONLY <2>1, <2>2, <2>3
  <1>20. Len(spans') > 0 /\ spans'[Len(spans')] = [from |-> DocFrom', to |-> DocTo']
    BY <1>2, <1>9, <1>10 DEF new
  <1>21. SpansOK'
    BY <1>1, <1>9, <1>10, <1>11, <1>19, <1>20 DEF SpansOK
  <1> QED BY <1>7, <1>15, <1>21

\* Only the command's own steps touch what it has read and posted.
LEMMA ScanStep == CmdInv /\ ScanInv /\ [Next]_vars => ScanInv'
  <1> SUFFICES ASSUME CmdInv, ScanInv, [Next]_vars PROVE ScanInv'
    OBVIOUS
  <1>1. CASE UNCHANGED cmdVars
    <2>1. UNCHANGED <<file, line, buf, cpc, last, exit, posted, spans>>
      BY <1>1 DEF cmdVars
    <2>2. DocTo' = DocTo /\ DocFrom' = DocFrom /\ InDoc' = InDoc
          /\ Cmd!AtEnd' = Cmd!AtEnd /\ Cmd!Unreadable' = Cmd!Unreadable
      BY <2>1 DEF DocTo, DocFrom, InDoc, Cmd!AtEnd, Cmd!Unreadable
    <2>3. ASSUME NEW k PROVE (\A s \in DocsOf(file) : s.from < k => s \in Range(spans))'
                              <=> Covered(k)
      BY <2>1 DEF Covered
    <2>4. BufferOK'
      BY <2>1, <2>2 DEF ScanInv, BufferOK
    <2>5. SpansOK'
      BY <2>1, <2>2, <2>3 DEF ScanInv, SpansOK, PostedSpan, Covered
    <2>6. CoverOK'
      BY <2>1, <2>2, <2>3 DEF ScanInv, CoverOK, Covered
    <2> QED BY <2>4, <2>5, <2>6 DEF ScanInv
  <1>2. CASE CmdLocal
    <2>1. CASE Cmd!Open
      <3>1. CASE Cmd!CmdFail
        BY <2>1, <3>1, ScanFails DEF Cmd!Open
      <3>2. CASE cpc' = "scan" /\ UNCHANGED <<line, buf, last, exit, posted, spans, acked>>
        <4>1. cpc = "start" /\ ~last /\ UNCHANGED file
          BY <2>1 DEF Cmd!Open, ScanInv, BufferOK
        <4>2. DocTo' = DocTo /\ DocFrom' = DocFrom /\ InDoc /\ InDoc'
              /\ Cmd!AtEnd' = Cmd!AtEnd
          BY <3>2, <4>1 DEF DocTo, DocFrom, InDoc, Cmd!AtEnd
        <4>3. BufferOK'
          BY <3>2, <4>1, <4>2 DEF ScanInv, BufferOK
        <4>4. SpansOK'
          <5>1. DocFrom' \in Nat /\ DocTo' \in Nat /\ DocFrom' <= DocTo' + 1
            <6>1. DocTo \in 0..Len(file) /\ DocFrom \in 1..(DocTo + 1) /\ Len(file) \in Nat
              BY <4>2, LineFacts DEF ScanInv, BufferOK
            <6> QED BY <4>2, <6>1
          <5>2. \A i \in 1..Len(spans) : spans[i].to < DocFrom'
            BY <4>1, <4>2 DEF ScanInv, SpansOK
          <5> QED BY <3>2, <4>1, <5>1, <5>2, SpansKept
        <4>5. CoverOK'
          <5>1. Covered(DocFrom)' /\ exit' # 0 /\ ~last'
            BY <3>2, <4>1, <4>2 DEF ScanInv, CoverOK, Covered, CmdInv, PostingOK
          <5> QED BY <5>1 DEF CoverOK
        <4> QED BY <4>3, <4>4, <4>5 DEF ScanInv
      <3> QED BY <2>1, <3>1, <3>2 DEF Cmd!Open
    <2>2. CASE Cmd!Scan
      BY <2>2, ScanLine
    <2>3. CASE Cmd!Skip
      BY <2>3, ScanGoesOn DEF Cmd!Skip
    <2>4. CASE Cmd!Reject
      BY <2>4, ScanFails DEF Cmd!Reject
    <2>5. CASE Cmd!Finish
      <3>1. /\ cpc = "scan" /\ last /\ cpc' = "exited" /\ exit' = (IF Cmd!Unreadable THEN 1 ELSE 0)
            /\ UNCHANGED <<file, line, buf, last, posted, spans>> /\ ~InDoc'
        BY <2>5 DEF Cmd!Finish, InDoc
      <3>2. BufferOK'
        BY <3>1 DEF ScanInv, BufferOK, Cmd!AtEnd
      <3>3. SpansOK'
        BY <3>1, SpansKept
      <3>4. CoverOK'
        <4>1. Cmd!Unreadable \/ Covered(Len(file) + 1)
          BY <3>1 DEF ScanInv, CoverOK
        <4>2. Cmd!Unreadable' = Cmd!Unreadable
          BY <3>1 DEF Cmd!Unreadable
        <4> QED BY <3>1, <4>1, <4>2 DEF CoverOK, Covered
      <3> QED BY <3>2, <3>3, <3>4 DEF ScanInv
    <2> QED BY <1>2, <2>1, <2>2, <2>3, <2>4, <2>5 DEF CmdLocal
  <1>3. CASE CmdPost
    BY <1>3, ScanPost DEF CmdPost
  <1>4. CASE CmdReturn \/ CmdTimeout
    <2>1. CASE Cmd!PostOK
      BY <2>1, ScanGoesOn DEF Cmd!PostOK
    <2>2. CASE Cmd!PostFails
      BY <2>2, ScanFails DEF Cmd!PostFails
    <2> QED BY <1>4, <2>1, <2>2 DEF CmdReturn, CmdTimeout
  <1> QED BY <1>1, <1>2, <1>3, <1>4
      DEF Next, vars, Program, Waiter, Upload, Download, Begin, Start, Return, GiveUp, Done, Others

-----------------------------------------------------------------------------
(* The types of the program and of the caller that waits.                  *)

Places ==
    /\ present \in Present
    /\ listen \in {"no", "open", "closed", "failed"} /\ code \in {-1, 0, 1}
    /\ mu \in [w : SUBSET Calls, r : SUBSET Calls]
    /\ wait \in {"start", "dial", "sleep", "nil", "err"}
    /\ ctx \in {"live", "cancelled"} /\ late \in 0..2

\* Nobody has called yet.
LEMMA PlacesInit == Init => Places
  BY DEF Init, Srv!SrvInit, Wait!WaitInit, Places

\* Every step keeps the types.
LEMMA PlacesStep == DemoInv /\ Places /\ [Next]_vars => Places'
  <1> SUFFICES ASSUME DemoInv, Places, [Next]_vars PROVE Places'
    OBVIOUS
  <1> USE DEF Places
  <1>1. present' = present
    BY DEF Next, vars, cliVars, Program, Waiter, CmdLocal, CmdPost, CmdReturn, CmdTimeout,
           Upload, Download, Begin, Start, Return, GiveUp, Done, Others
  <1>2. /\ wait' \in {"start", "dial", "sleep", "nil", "err"}
        /\ ctx' \in {"live", "cancelled"} /\ late' \in 0..2
    <2>1. CASE Waiter
      <3>1. CASE Wait!Refuse \/ Wait!WaitCancel \/ Wait!Connected \/ Wait!DialFails
        BY <3>1 DEF Wait!Refuse, Wait!WaitCancel, Wait!Connected, Wait!DialFails
      <3>2. CASE Wait!Dial
        BY <3>2 DEF Wait!Dial
      <3> QED BY <2>1, <3>1, <3>2 DEF Waiter, Wait!WaitStep
    <2>2. CASE ~Waiter
      <3>1. UNCHANGED waitVars
        BY <2>2 DEF Next, vars, Program, CmdLocal, CmdPost, CmdReturn, CmdTimeout,
                    Upload, Download, Begin, Start, Return, GiveUp, Done, Others
      <3> QED BY <3>1 DEF waitVars
    <2> QED BY <2>1, <2>2
  <1>3. /\ listen' \in {"no", "open", "closed", "failed"} /\ code' \in {-1, 0, 1}
        /\ mu' \in [w : SUBSET Calls, r : SUBSET Calls]
    <2>1. CASE UNCHANGED srvVars
      BY <2>1 DEF srvVars
    <2>2. CASE Program
      <3>1. CASE Srv!Listen \/ Srv!ServeFails \/ Srv!Fail \/ Srv!Signal
                 \/ Srv!ShutdownDone \/ Srv!ShutdownTimeout
        BY <3>1 DEF Srv!Listen, Srv!ServeFails, Srv!Fail, Srv!Signal, Srv!ShutdownDone,
                    Srv!ShutdownTimeout, Srv!Exit
      <3>2. ASSUME NEW c \in Calls, Srv!Drop(c) \/ Srv!CopyType(c) \/ Srv!CopyBody(c) \/ Srv!Reply(c)
            PROVE  UNCHANGED <<listen, code, mu>>
        BY <3>2 DEF Srv!Drop, Srv!CopyType, Srv!CopyBody, Srv!Copy, Srv!Reply
      <3>3. ASSUME NEW c \in Calls, Srv!Lock(c) \/ Srv!Unlock(c)
            PROVE  UNCHANGED <<listen, code>> /\ mu' \in [w : SUBSET Calls, r : SUBSET Calls]
        <4>1. mu.w \subseteq Calls /\ mu.r \subseteq Calls
          OBVIOUS
        <4> QED BY <3>3, <4>1 DEF Srv!Lock, Srv!Unlock
      <3> QED BY <2>2, <3>1, <3>2, <3>3 DEF Program, Srv!HandlerStep
    <2>3. ASSUME NEW c \in Calls, NEW r,
                 Srv!Connect(c, r) \/ Srv!Start(c) \/ Srv!Hangup(c) \/ Srv!Abandon(c)
          PROVE  UNCHANGED <<listen, code, mu>>
      BY <2>3 DEF Srv!Connect, Srv!Start, Srv!Hangup, Srv!Abandon
    <2>4. CASE CmdPost \/ CmdReturn \/ CmdTimeout
      BY <2>3, <2>4, CallFacts DEF CmdPost, CmdReturn, CmdTimeout
    <2>5. ASSUME NEW c \in Calls,
                 Upload(c) \/ Download(c) \/ Start(c) \/ Return(c) \/ GiveUp(c)
          PROVE  UNCHANGED <<listen, code, mu>>
      BY <2>3, <2>5 DEF Upload, Download, Begin, Start, Return, GiveUp
    <2> QED BY <2>1, <2>2, <2>4, <2>5 DEF Next, vars, Waiter, CmdLocal, Done
  <1> QED BY <1>1, <1>2, <1>3

\* Whatever the file holds and whatever becomes of the calls, the command posts
\* the documents of its file, line for line and in their order, leaves none out,
\* and exits with 0 only when every one of them was handled once and answered.
THEOREM CommandIsExact == Spec => []CommandExact
  <1>1. Spec => [](DemoInv /\ CmdInv /\ ScanInv /\ Places)
    BY DemoInit, DemoStep, CmdInitially, CmdStep, ScanInitially, ScanStep, PlacesInit,
       PlacesStep, PTL DEF Spec
  <1>2. DemoInv /\ CmdInv /\ ScanInv /\ Places => TypeOK /\ CommandHonest /\ WholeDocuments
    <2> SUFFICES ASSUME DemoInv, CmdInv, ScanInv, Places
                 PROVE  TypeOK /\ CommandHonest /\ WholeDocuments
      OBVIOUS
    <2>0. /\ file \in Documents /\ Len(file) \in Nat /\ line \in 0..Len(file)
          /\ Len(posted) \in Nat /\ posted \in Seq(Documents) /\ handled \in Seq(Documents)
      BY LineFacts DEF CmdInv, CmdTypes
    <2>1. TypeOK
      <3>1. acked \in 0..Len(posted)
        BY <2>0 DEF CmdInv, CmdTypes, PostingOK
      <3> QED BY <2>0, <3>1 DEF TypeOK, DemoInv, SrvTypes, ConnStates, CmdInv, CmdTypes, Places
    <2>2. CommandHonest
      <3> SUFFICES ASSUME exit = 0
                   PROVE  /\ DocsOf(file) \subseteq Range(spans) /\ handled = posted
                          /\ acked = Len(posted)
        BY DEF CommandHonest
      <3>1. DocsOf(file) \subseteq Range(spans)
        <4>1. Covered(Len(file) + 1)
          BY DEF ScanInv, CoverOK
        <4>2. ASSUME NEW s \in DocsOf(file) PROVE s.from < Len(file) + 1
          BY <2>0, DocParts
        <4> QED BY <4>1, <4>2 DEF Covered
      <3>2. acked = Len(posted) /\ Len(handled) = Len(posted)
        BY <2>0 DEF CmdInv, CmdTypes, PostingOK
      <3>3. \A i \in 1..Len(posted) : handled[i] = posted[i]
        BY <3>2 DEF CmdInv, PostingOK
      <3>4. handled = posted
        BY ONLY <2>0, <3>2, <3>3, SameSeq
      <3> QED BY <3>1, <3>2, <3>4
    <2>3. WholeDocuments
      <3>1. DOMAIN spans = 1..Len(spans) /\ Len(spans) \in Nat /\ Len(spans) = Len(posted)
        BY DEF ScanInv, SpansOK
      <3>2. ASSUME NEW i \in 1..Len(spans)
            PROVE  /\ posted[i] = SubSeq(file, spans[i].from, spans[i].to)
                   /\ \A j \in 1..(i - 1) : spans[j].to < spans[i].from
                   /\ \A s \in DocsOf(file) : s.from < spans[i].from => s \in Range(spans)
                   /\ \/ spans[i] \in DocsOf(file)
                      \/ i = Len(spans) /\ file[spans[i].to + 1] = "long" /\ exit # 0
        <4>1. posted[i] = SubSeq(file, spans[i].from, spans[i].to) /\ Covered(spans[i].from)
              /\ PostedSpan(spans[i])
          BY DEF ScanInv, SpansOK
        <4>2. ASSUME NEW j \in 1..(i - 1) PROVE spans[j].to < spans[i].from
          <5>1. j \in 1..Len(spans) /\ j < i
            BY <3>1
          <5> QED BY <5>1 DEF ScanInv, SpansOK
        <4>3. CASE spans[i] \notin DocsOf(file)
          <5>1. /\ spans[i].to + 1 \in 1..Len(file) /\ file[spans[i].to + 1] = "long"
                /\ spans[i] = spans[Len(spans)]
            BY <4>1, <4>3 DEF PostedSpan
          <5>2. Cmd!Unreadable
            <6>1. DOMAIN file = 1..Len(file)
              BY <2>0 DEF Documents
            <6> QED BY <5>1, <6>1 DEF Cmd!Unreadable, Cmd!Range
          <5>3. exit # 0
            BY <5>2 DEF ScanInv, CoverOK
          <5>4. i = Len(spans)
            <6>1. CASE i < Len(spans)
              <7>1. Len(spans) \in 1..Len(spans)
                BY <3>1, <6>1
              <7>2. /\ spans[i].to < spans[Len(spans)].from
                    /\ spans[i].from <= spans[i].to
                    /\ spans \in Seq([from : Nat, to : Nat])
                BY <6>1, <7>1 DEF ScanInv, SpansOK
              <7>3. spans[i] \in [from : Nat, to : Nat]
                BY <7>2, ElementFacts
              <7>4. spans[i].from \in Nat /\ spans[i].to \in Nat
                BY <7>3
              <7> QED BY <5>1, <7>2, <7>4
            <6>2. ASSUME NEW n \in Nat, NEW x \in 1..n, ~(x < n) PROVE x = n
              BY <6>2
            <6>3. Len(spans) \in Nat
              BY <3>1
            <6> QED BY <6>1, <6>2, <6>3
          <5> QED BY <4>1, <4>2, <5>1, <5>3, <5>4 DEF Covered
        <4> QED BY <4>1, <4>2, <4>3 DEF Covered
      <3> QED BY <3>1, <3>2 DEF WholeDocuments
    <2> QED BY <2>1, <2>2, <2>3
  <1>3. TypeOK /\ CommandHonest /\ WholeDocuments /\ PostedInOrder => CommandExact
    BY DEF CommandExact
  <1> QED BY <1>1, <1>2, <1>3, PostedOnce, PTL
=============================================================================
