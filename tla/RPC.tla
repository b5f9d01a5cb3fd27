--------------------------------- MODULE RPC ---------------------------------
(***************************************************************************)
(* One call from a Client method to a service and back (client.go,         *)
(* service.go): what the service answers, what the infrastructure between  *)
(* them makes of the answer, and how the client classifies what arrives.   *)
(*                                                                         *)
(* Client errors are records as in RetryPolicy, so that the classification *)
(* can be followed into the retry decision.                                *)
(***************************************************************************)
EXTENDS Integers, RetryPolicy

CONSTANTS
    Codes,        \* codes service handlers fail with
    InfraCodes    \* statuses intermediaries answer with

\* net/http sends three-digit codes, and a 1xx is no final response.
ASSUME CodesAssumption == Codes \subseteq 200..999 /\ InfraCodes \subseteq 200..999

VARIABLES
    pc,           \* "request", "answered", "arrived", "done"
    call,         \* the client method: Do, DoContent, DoBytes or DoStream
    accept,       \* the Accept header, normalised
    meant,        \* the code the service's handler asked for
    wrote,        \* HandleBytes: the handler had written bytes
    resp,         \* the response on its way to the client
    path,         \* what happened to it: "direct", "retyped", "infra", "cut",
                  \*   "lost", "aborted"
    cancelled,    \* the contexts that were cancelled: "arg", "req"
    result        \* what the client method returned

vars == <<pc, call, accept, meant, wrote, resp, path, cancelled, result>>

-----------------------------------------------------------------------------
(* Messages.  A response has a status, a media type, the X-DUH-Version     *)
(* header or not, and a body: what it holds and how it is encoded.         *)
Response(status, ctype, version, body, enc) ==
    [status |-> status, ctype |-> ctype, version |-> version,
     body |-> body, enc |-> enc]
ContentTypes == {"none", "json", "protobuf", "octet", "text", "png", "html",
                 "stream+json", "stream+protobuf"}
Bodies == {"none", "reply", "msg", "bytes", "frames", "page", "likeReply"}
Encodings == {"none", "json", "protobuf", "raw", "foreign"}
Responses == [status : Nat, ctype : ContentTypes, version : BOOLEAN, body : Bodies,
              enc : Encodings]
NoResponse == Response(0, "none", FALSE, "none", "none")

JSONAccepts == {"none", "any", "json"}
Accepts == JSONAccepts \union
    {"protobuf", "octet", "stream+json", "stream+protobuf", "xml"}
AcceptsOf(c) ==
    CASE c = "Do"        -> JSONAccepts \union {"protobuf", "xml"}
      [] c = "DoContent" -> JSONAccepts
      [] c = "DoBytes"   -> {"none", "octet"}
      [] c = "DoStream"  -> {"stream+json", "stream+protobuf", "json", "xml"}

\* What the client returned.
OK == [code |-> 200, infra |-> FALSE, ok |-> TRUE]
ClientError(code, infra) == [code |-> code, infra |-> infra, ok |-> FALSE]
Err(code) == ClientError(code, FALSE)
Infra(code) == ClientError(code, TRUE)
ClientErr == Err(452)

-----------------------------------------------------------------------------
(* service.go.                                                             *)

\* Reply: JSON by default, protobuf on request; any other Accept header turns
\* the reply, whatever it was, into a 455; a message that cannot be marshalled
\* turns it into a 500.
Reply(acc, code, body) ==
    LET enc == IF acc = "protobuf" THEN "protobuf" ELSE "json" IN
    IF acc \notin JSONAccepts \union {"protobuf"}
    THEN Response(455, "json", TRUE, "reply", "json")
    ELSE IF body = "unmarshalable"
         THEN Response(500, enc, TRUE, "reply", enc)
         ELSE Response(code, enc, TRUE, body, enc)

\* Mutant: an error without a code of its own is not given one.
ErrorCodeRaw(code) == code

\* ReplyError: a duh.Error's own code and message, else a 500.  Here code 0 is
\* an error that is not a duh.Error.
ErrorCode(code) == IF code = 0 THEN 500 ELSE code

ReplyError(acc, code) == Reply(acc, ErrorCode(code), "reply")

\* ReadContent: the code of its error, or 200.  ReadRequest also decodes the
\* body by its media type.
ReadContent(body) ==
    CASE body = "tooLarge" -> 400 [] body = "unreadable" -> 500 [] OTHER -> 200
ReadRequest(ctype, body) ==
    IF ReadContent(body) # 200 THEN ReadContent(body)
    ELSE IF \/ ctype \in JSONAccepts /\ body = "json"
            \/ ctype = "protobuf" /\ body = "protobuf"
         THEN 200 ELSE 455

\* WriteContent: a 200 with the media type of the content.
WriteContent == Response(200, "png", TRUE, "bytes", "raw")

\* History: the code that an error stands for, which callers go by; an error
\* without one is an internal one (service.go:93).
Meant(c) == IF c = 0 THEN 500 ELSE c

RequestBodies == {"json", "protobuf", "tooLarge", "unreadable"}
HandlerErrors == Codes \union {0}

Answer(m, w, r) ==
    /\ pc' = "answered"
    /\ meant' = m
    /\ wrote' = w
    /\ resp' = r
    /\ UNCHANGED <<call, accept, path, cancelled, result>>

\* No route: a method other than POST, or a path the service does not have.
Unrouted(code) ==
    /\ pc = "request"
    /\ Answer(code, FALSE, ReplyError(accept, code))

\* The service refused or failed the request with code c.
Fail(c) == Answer(Meant(c), FALSE, ReplyError(accept, c))

\* A structured endpoint: read, run, reply.
ServeUnary(ctype, body) ==
    /\ pc = "request" /\ call = "Do"
    /\ LET e == ReadRequest(ctype, body) IN
          \/ e # 200 /\ Fail(e)
          \/ e = 200 /\ \E c \in HandlerErrors : Fail(c)
          \/ e = 200 /\ \E b \in {"msg", "unmarshalable"} :
                Answer(IF b = "msg" THEN 200 ELSE 500, FALSE,
                       Reply(accept, 200, b))

\* An upload of raw bytes, under the path a header names.
ContentUpload(body, hasPath) ==
    /\ pc = "request" /\ call = "Do"
    /\ LET e == ReadContent(body) IN
          \/ e # 200 /\ Fail(e)
          \/ e = 200 /\ ~hasPath /\ Fail(400)
          \/ e = 200 /\ hasPath /\ \E c \in HandlerErrors : Fail(c)
          \/ e = 200 /\ hasPath /\ Answer(200, FALSE, Reply(accept, 200, "reply"))

\* A download of raw bytes, with their own media type.
ContentDownload(ctype, body) ==
    /\ pc = "request" /\ call = "DoContent"
    /\ LET e == ReadRequest(ctype, body) IN
          \/ e # 200 /\ Fail(e)
          \/ e = 200 /\ \E c \in HandlerErrors : Fail(c)
          \/ e = 200 /\ Answer(200, FALSE, WriteContent)

\* HandleBytes: a handler that fails before its first Write gets an error
\* reply; afterwards the 200 is committed and the body just ends.  The handler
\* may replace the Content-Type of the 200 by one of its own.
HandleBytes ==
    /\ pc = "request" /\ call = "DoBytes"
    /\ \E w \in BOOLEAN, ctype \in {"octet", "text"} :
          LET committed == Response(200, ctype, TRUE, "bytes", "raw") IN
          \/ Answer(200, w, committed)
          \/ \E c \in HandlerErrors :
                Answer(Meant(c), w,
                       IF w THEN committed ELSE ReplyError(accept, c))

\* HandleStream: 500 without an http.Flusher, 400 for an Accept header that is
\* no stream type, a stream otherwise.
HandleStream(flusher) ==
    /\ pc = "request" /\ call = "DoStream"
    /\ \/ ~flusher /\ Answer(500, FALSE, ReplyError(accept, 500))
       \/ /\ flusher /\ accept \notin {"stream+json", "stream+protobuf"}
          /\ Answer(400, FALSE, ReplyError(accept, 400))
       \/ /\ flusher /\ accept \in {"stream+json", "stream+protobuf"}
          /\ Answer(200, FALSE, Response(200, accept, TRUE, "frames", "raw"))

-----------------------------------------------------------------------------
(* Between the service and the client.                                     *)

Arrive(p, r) ==
    /\ pc = "answered"
    /\ pc' = "arrived"
    /\ path' = p
    /\ resp' = r
    /\ UNCHANGED <<call, accept, meant, wrote, cancelled, result>>

Direct == Arrive("direct", resp)

\* Middleware overwrites the Content-Type (client.go:368).
Retype == Arrive("retyped", [resp EXCEPT !.ctype = "html"])

\* An intermediary answers instead of, or over, the service: a page of its own,
\* a JSON document that is not a Reply, or one that has no field a Reply (or
\* any other message) lacks.
InfraAnswers(code) ==
    \/ \E t \in {"html", "json", "none"} :
          Arrive("infra", Response(code, t, FALSE, "page", "foreign"))
    \/ Arrive("infra", Response(code, "json", FALSE, "likeReply", "json"))

\* The connection breaks while the body is read.
Cut == Arrive("cut", [resp EXCEPT !.body = "none"])

\* No response arrives at all.
NoAnswer ==
    /\ pc \in {"request", "answered"}
    /\ pc' = "done"
    /\ path' = "lost"
    /\ result' = ClientErr
    /\ UNCHANGED <<call, accept, meant, wrote, cancelled, resp>>

-----------------------------------------------------------------------------
(* client.go.                                                              *)

Readable(r) == r.body # "none"

\* Unmarshalling with the function the media type selects.
Structured(ctype) == ctype \in {"json", "protobuf"}
Unmarshals(r, enc) == r.enc = enc /\ r.body \in {"reply", "msg", "likeReply"}

\* Mutants: X-DUH-Version is not used; the status is looked at first; a page
\* with a 404 is taken for the service's.
HandleErrorNoVersion(r, read) ==
    IF ~read THEN ClientErr
    ELSE IF Structured(r.ctype) /\ Unmarshals(r, r.ctype) THEN Err(r.status)
    ELSE Infra(r.status)
HandleErrorByStatus(r, read) ==
    IF ~read THEN ClientErr
    ELSE IF r.status \div 100 = 5 \/ r.status = 404 THEN Infra(r.status)
    ELSE Err(r.status)

HandleErrorNo404(r, read) ==
    IF ~read THEN ClientErr
    ELSE IF (Structured(r.ctype) \/ r.version)
            /\ (Unmarshals(r, "json") \/ Unmarshals(r, "protobuf")) THEN Err(r.status)
    ELSE IF r.status \div 100 = 5 THEN Infra(r.status) ELSE Err(r.status)

\* handleErrorResponse, when reading the body works or fails.
HandleErrorResponse(r, read) ==
    IF ~read THEN ClientErr
    ELSE IF Structured(r.ctype)
         THEN IF Unmarshals(r, r.ctype) THEN Err(r.status) ELSE Infra(r.status)
    ELSE IF r.version
         THEN IF Unmarshals(r, "json") \/ Unmarshals(r, "protobuf")
              THEN Err(r.status) ELSE Infra(r.status)
    ELSE IF r.status \div 100 = 5 \/ r.status = 404
         THEN Infra(r.status) ELSE Err(r.status)

Finish(res) ==
    /\ pc' = "done"
    /\ result' = res
    /\ UNCHANGED <<call, accept, meant, wrote, cancelled, resp, path>>

\* Mutant: the status is not looked at.
DoIgnoresStatus ==
    /\ pc = "arrived" /\ call = "Do"
    /\ Finish(IF ~Readable(resp) THEN ClientErr
              ELSE IF ~Structured(resp.ctype) THEN Infra(200)
              ELSE IF Unmarshals(resp, resp.ctype) THEN OK ELSE ClientErr)

Do ==
    /\ pc = "arrived" /\ call = "Do"
    /\ Finish(IF resp.status # 200 THEN HandleErrorResponse(resp, Readable(resp))
              ELSE IF ~Readable(resp) THEN ClientErr
              ELSE IF ~Structured(resp.ctype) THEN Infra(200)
              ELSE IF Unmarshals(resp, resp.ctype) THEN OK ELSE ClientErr)

DoContent ==
    /\ pc = "arrived" /\ call = "DoContent"
    /\ Finish(IF resp.status # 200 THEN HandleErrorResponse(resp, Readable(resp))
              ELSE IF Readable(resp) THEN OK ELSE ClientErr)

DoBytes ==
    /\ pc = "arrived" /\ call = "DoBytes"
    /\ Finish(IF resp.status # 200 THEN HandleErrorResponse(resp, Readable(resp))
              ELSE IF resp.ctype = "octet" THEN OK ELSE Infra(200))

\* DoStream cancels the request before it reads the body of a failed one, so
\* that read succeeds only if the body had already arrived.
DoStream(arrived) ==
    /\ pc = "arrived" /\ call = "DoStream"
    /\ Finish(IF resp.status # 200
              THEN HandleErrorResponse(resp, Readable(resp) /\ arrived)
              ELSE IF resp.ctype \in {"stream+json", "stream+protobuf"} THEN OK
              ELSE Infra(200))

-----------------------------------------------------------------------------
(* Cancellation.  The request has a context of its own, and all methods    *)
(* but Do are given another one.                                           *)

\* Mutant: no method puts its argument into the request.
ContextOfOwn(c) == "req"

\* The context http.Client.Do looks at: DoContent and DoStream put their
\* argument into the request, DoBytes does not.
ContextOf(c) == IF c \in {"DoContent", "DoStream"} THEN "arg" ELSE "req"

Cancel(x) ==
    /\ pc # "done" /\ x \notin cancelled
    /\ x = "arg" => call # "Do"
    /\ cancelled' = cancelled \union {x}
    /\ UNCHANGED <<pc, call, accept, meant, wrote, resp, path, result>>

\* The exchange is aborted, before the response or while its body is read:
\* DoBytes and DoStream leave the body of a 200 to their caller.
Aborted ==
    /\ ContextOf(call) \in cancelled
    /\ \/ pc \in {"request", "answered"}
       \/ pc = "arrived" /\ (call \in {"Do", "DoContent"} \/ resp.status # 200)
    /\ pc' = "done"
    /\ path' = "aborted"
    /\ result' = ClientErr
    /\ UNCHANGED <<call, accept, meant, wrote, cancelled, resp>>

-----------------------------------------------------------------------------
Init ==
    /\ pc = "request"
    /\ call \in {"Do", "DoContent", "DoBytes", "DoStream"}
    /\ accept \in AcceptsOf(call)
    /\ meant = 0 /\ wrote = FALSE
    /\ resp = NoResponse
    /\ path = "none"
    /\ cancelled = {}
    /\ result = OK

Done == pc = "done" /\ UNCHANGED vars

ClientStep ==
    \/ Do \/ DoContent \/ DoBytes
    \/ \E arrived \in BOOLEAN : DoStream(arrived)

Next ==
    \/ \E ctype \in JSONAccepts \union {"protobuf", "xml"}, body \in RequestBodies :
          ServeUnary(ctype, body) \/ ContentDownload(ctype, body)
    \/ \E body \in RequestBodies, hasPath \in BOOLEAN : ContentUpload(body, hasPath)
    \/ HandleBytes
    \/ \E flusher \in BOOLEAN : HandleStream(flusher)
    \/ \E code \in {400, 501} : Unrouted(code)
    \/ Direct \/ Retype \/ Cut \/ NoAnswer
    \/ \E code \in InfraCodes : InfraAnswers(code)
    \/ ClientStep
    \/ \E x \in {"arg", "req"} : Cancel(x)
    \/ Aborted
    \/ Done

Spec == Init /\ [][Next]_vars

\* The client's goroutine runs and http.Client notices a cancellation.  The
\* service and the network need do nothing.
FairSpec == Spec /\ WF_vars(ClientStep) /\ WF_vars(Aborted)

-----------------------------------------------------------------------------
(* Properties.                                                             *)

TypeOK ==
    /\ pc \in {"request", "answered", "arrived", "done"}
    /\ call \in {"Do", "DoContent", "DoBytes", "DoStream"}
    /\ accept \in Accepts
    /\ meant \in Nat /\ wrote \in BOOLEAN
    /\ resp \in Responses
    /\ path \in {"none", "direct", "retyped", "infra", "cut", "lost", "aborted"}
    /\ cancelled \subseteq {"arg", "req"}
    /\ result \in [code : Nat, infra : BOOLEAN, ok : BOOLEAN]

Returned == pc = "done"

\* The code a handler fails with reaches the caller as a service error, also
\* through middleware that overwrote the Content-Type.  Left out are an Accept
\* header Reply cannot satisfy, as bytes and stream clients send, for which
\* every error is a 455 (service.go:122, against service.go:93 and
\* docs/streaming.md:78), and DoStream, which cancels the request before it
\* reads the error and may lose it (client.go:228, against client.go:340).
ServiceErrorKept ==
    (Returned /\ path \in {"direct", "retyped"} /\ meant # 200 /\ ~wrote
       /\ accept \in JSONAccepts \union {"protobuf"} /\ call # "DoStream")
        => result = Err(meant)

\* Success is only reported for what the service's handler completed: never
\* for an error, an intermediary's page, or half a message.  (DoContent takes
\* any 200, Do an intermediary's 200 that unmarshals; DoBytes and DoStream
\* return a body that may still fail.)
SuccessIsGenuine ==
    (Returned /\ result.ok /\ ~(path = "infra" /\ resp.body = "likeReply")
       /\ ~(call = "DoContent" /\ path = "infra")) =>
        /\ meant = 200 \/ (call = "DoBytes" /\ wrote)
        /\ \/ path \in {"direct", "retyped"}
           \/ path = "cut" /\ call \in {"DoBytes", "DoStream"}

\* An infrastructure error is never reported for an error reply of the service:
\* only for an intermediary's answer, or for a 200 whose Content-Type is not the
\* one the method expects (middleware or a HandleBytes handler replaced it).
InfraIsNotService ==
    (Returned /\ result.infra) => path = "infra" \/ resp.status = 200

\* What a service says and what its infrastructure says are told apart.
ErrorsTold == TypeOK /\ ServiceErrorKept /\ InfraIsNotService

\* Answers of an intermediary on which the code and the documents differ: they
\* would have every 5xx and a 429 without a Reply retried as infrastructure
\* errors and no other code (client.go:386, docs/spec.md:226, docs/spec.md:326);
\* RetryableInfraCodes has no other 5xx than these (policies.go:32), and a 429
\* or a 454 page is retried as if it were the service's (client.go:391).
Disputed ==
    path = "infra" /\ \/ resp.status \in {429, 454}
                      \/ resp.status \div 100 = 5 /\ resp.status \notin {502, 503, 504}

\* OnRetryable repeats a call only after an answer that says it is transient:
\* the service's own 429, 454 or 500, or a 404, 502, 503 or 504 of what is
\* before it.  In particular a service's 404 is final while an infrastructure's
\* is not.  The disputed answers are left out.
RetriedOnlyIfTransient ==
    (Returned /\ ~result.ok /\ ShouldRetry(result, OnRetryable) /\ ~Disputed) =>
        \/ path \in {"direct", "retyped"} /\ resp.status \in {429, 454, 500}
        \/ path = "infra" /\ resp.status \in {404, 502, 503, 504}

\* An intermediary's 404, 502, 503 or 504 is retried once it has been read,
\* whatever its media type, unless its document happens to parse as a Reply:
\* then it is taken for the service's and final (client.go:364).
TransientInfraRetried ==
    (Returned /\ path = "infra" /\ resp.status \in {404, 502, 503, 504}
       /\ result # ClientErr)
        => ShouldRetry(result, OnRetryable) \/ resp.body = "likeReply"

\* OnRetryable, over what the client makes of the answers, repeats what is
\* transient and nothing else, where code and documents agree on what is.
RetriesTransient == RetriedOnlyIfTransient /\ TransientInfraRetried

\* Cancelling a call's context ends the call although nobody answers: the
\* argument of DoContent and DoStream, the request's own context for Do and
\* for DoBytes, which ignores its argument (client.go:268).
CancelEnds ==
    \/ "arg" \in cancelled /\ call \in {"DoContent", "DoStream"}
    \/ "req" \in cancelled /\ call \in {"Do", "DoBytes"}
    ~> Returned
=============================================================================
