------------------------------ MODULE RPCProofs ------------------------------
(***************************************************************************)
(* Machine-checked proofs about RPC, for every set of codes handlers fail  *)
(* with and every set of statuses intermediaries answer with.              *)
(***************************************************************************)
EXTENDS RPC, TLAPS

Replies == JSONAccepts \union {"protobuf"}

\* A response as the service wrote it, up to its media type: the 200 of a
\* handler that completed or had committed one, or the error reply it meant.
ServiceWrote(r) ==
    \/ r.status = 200 /\ (meant = 200 \/ (call = "DoBytes" /\ wrote))
    \/ /\ r.status = (IF accept \in Replies THEN meant ELSE 455)
       /\ r.version /\ r.body = "reply"
       /\ r.enc \in {"json", "protobuf"} /\ r.ctype \in {r.enc, "html"}

\* A response as an intermediary writes it.
InfraWrote(r) ==
    /\ ~r.version
    /\ \/ r.body = "page" /\ r.enc = "foreign" /\ r.ctype \in {"html", "json", "none"}
       \/ r.body = "likeReply" /\ r.enc = "json" /\ r.ctype = "json"

\* What is on its way to the client at each point of a call.
InTransit ==
    /\ pc \in {"request", "answered"} => path = "none"
    /\ pc = "arrived" => path \in {"direct", "retyped", "infra", "cut"}
    /\ pc = "answered" => ServiceWrote(resp)
    /\ pc = "arrived" /\ path \in {"direct", "retyped"} => ServiceWrote(resp)
    /\ pc = "arrived" /\ path = "infra" => InfraWrote(resp)
    /\ pc = "arrived" /\ path = "cut" =>
          /\ resp.body = "none"
          /\ resp.status = 200 => meant = 200 \/ (call = "DoBytes" /\ wrote)

\* What the caller is told.
Told == ServiceErrorKept /\ InfraIsNotService /\ SuccessIsGenuine /\ RetriesTransient

RPCInv == TypeOK /\ InTransit /\ Told

-----------------------------------------------------------------------------
(* The operators.                                                          *)

\* OnRetryable looks a service error up in one list and an infrastructure
\* error in the other.
LEMMA OnRetryableCodes ==
    ASSUME NEW e
    PROVE  ShouldRetry(e, OnRetryable) <=>
             /\ e.code # 0
             /\ IF e.infra THEN e.code \in {404, 502, 503, 504}
                           ELSE e.code \in {429, 454, 500}
  BY DEF ShouldRetry, OnRetryable, RetryableCodes, RetryableInfraCodes

\* An error the client made up itself is never retried.
LEMMA ClientErrFacts ==
    /\ ClientErr.code = 452 /\ ~ClientErr.infra /\ ~ClientErr.ok
    /\ ClientErr \in [code : Nat, infra : BOOLEAN, ok : BOOLEAN]
    /\ ~ShouldRetry(ClientErr, OnRetryable)
  <1>1. /\ ClientErr.code = 452 /\ ~ClientErr.infra /\ ~ClientErr.ok
        /\ ClientErr \in [code : Nat, infra : BOOLEAN, ok : BOOLEAN]
    BY DEF ClientErr, Err, ClientError
  <1> QED BY <1>1, OnRetryableCodes

\* Reply: what it is given or, for an Accept header it cannot satisfy, a 455;
\* a 500 when the message cannot be marshalled.
LEMMA ReplyFacts ==
    ASSUME NEW acc, NEW code \in Nat, NEW body \in {"reply", "msg", "unmarshalable"}
    PROVE  /\ Reply(acc, code, body) \in Responses
           /\ Reply(acc, code, body).version
           /\ Reply(acc, code, body).enc \in {"json", "protobuf"}
           /\ Reply(acc, code, body).ctype = Reply(acc, code, body).enc
           /\ Reply(acc, code, body).status =
                IF acc \notin Replies THEN 455
                ELSE IF body = "unmarshalable" THEN 500 ELSE code
           /\ Reply(acc, code, body).body =
                IF acc \in Replies /\ body = "msg" THEN "msg" ELSE "reply"
  <1> DEFINE enc == IF acc = "protobuf" THEN "protobuf" ELSE "json"
  <1> USE DEF ContentTypes, Bodies, Encodings
  <1>1. enc \in {"json", "protobuf"}
    OBVIOUS
  <1> HIDE DEF enc
  <1>2. CASE acc \notin Replies
    <2>1. Reply(acc, code, body) = Response(455, "json", TRUE, "reply", "json")
      BY <1>2 DEF Reply, Replies
    <2> QED BY <1>2, <2>1 DEF Response, Responses
  <1>3. CASE acc \in Replies /\ body = "unmarshalable"
    <2>1. Reply(acc, code, body) = Response(500, enc, TRUE, "reply", enc)
      BY <1>3 DEF Reply, Replies, enc
    <2>2. Response(500, enc, TRUE, "reply", enc) \in Responses
      BY <1>1 DEF Response, Responses
    <2>3. LET r == Response(500, enc, TRUE, "reply", enc) IN
            r.version /\ r.enc = enc /\ r.ctype = enc /\ r.status = 500 /\ r.body = "reply"
      BY DEF Response
    <2>4. /\ Reply(acc, code, body).status = 500
          /\ Reply(acc, code, body).body = "reply"
      BY <2>1, <2>3
    <2>5. /\ Reply(acc, code, body).version
          /\ Reply(acc, code, body).enc = enc
          /\ Reply(acc, code, body).ctype = enc
      BY <2>1, <2>3
    <2> QED BY <1>1, <1>3, <2>1, <2>2, <2>4, <2>5
  <1>4. CASE acc \in Replies /\ body # "unmarshalable"
    <2>1. Reply(acc, code, body) = Response(code, enc, TRUE, body, enc)
      BY <1>4 DEF Reply, Replies, enc
    <2>2. body = "msg" \/ body = "reply"
      BY <1>4
    <2> QED BY <1>1, <1>4, <2>1, <2>2 DEF Response, Responses
  <1> QED BY <1>2, <1>3, <1>4

\* The codes a service fails a request with.
FailCodes == Codes \union {0, 400, 455, 500, 501}

\* ErrorCode gives the code that the error stands for.
LEMMA ErrorCodeType == \A c \in FailCodes : ErrorCode(c) \in Nat /\ Meant(c) = ErrorCode(c)
  BY CodesAssumption DEF ErrorCode, Meant, FailCodes

\* ReadContent and ReadRequest accept a request or fail it with a code of
\* their own.
LEMMA ReadFacts ==
    ASSUME NEW ctype, NEW body
    PROVE  /\ ReadContent(body) \in {200, 400, 500}
           /\ ReadRequest(ctype, body) \in {200, 400, 455, 500}
  BY DEF ReadContent, ReadRequest

-----------------------------------------------------------------------------
(* The inductive invariant, action by action.                              *)

\* A call that has not been answered.
LEMMA RPCInit == Init => RPCInv
  <1> SUFFICES ASSUME Init PROVE RPCInv
    OBVIOUS
  <1>1. resp \in Responses
    BY DEF Init, Response, Responses, NoResponse, ContentTypes, Bodies, Encodings
  <1>2. accept \in Accepts
    BY DEF Init, AcceptsOf, Accepts, JSONAccepts
  <1>3. result \in [code : Nat, infra : BOOLEAN, ok : BOOLEAN]
    BY DEF Init, OK
  <1>4. TypeOK
    BY <1>1, <1>2, <1>3 DEF Init, TypeOK
  <1>5. InTransit
    BY DEF Init, InTransit
  <1>6. Told
    BY DEF Init, Told, Returned, ServiceErrorKept, InfraIsNotService, SuccessIsGenuine,
           RetriesTransient, Disputed, RetriedOnlyIfTransient, TransientInfraRetried
  <1> QED BY <1>4, <1>5, <1>6 DEF RPCInv

\* Nothing is told before the call returns.
LEMMA NotTold == ASSUME pc' # "done" PROVE Told'
  BY DEF Told, Returned, ServiceErrorKept, InfraIsNotService, SuccessIsGenuine,
         RetriesTransient, Disputed, RetriedOnlyIfTransient, TransientInfraRetried

\* A request the service refused, or whose handler failed.
LEMMA FailStep ==
    ASSUME RPCInv, pc = "request", NEW c \in FailCodes, NEW m, m = ErrorCode(c),
           Answer(m, FALSE, ReplyError(accept, c))
    PROVE  RPCInv'
  <1>1. m \in Nat
    BY ErrorCodeType
  <1> DEFINE r == ReplyError(accept, c)
  <1>2. /\ r \in Responses /\ r.version /\ r.body = "reply"
        /\ r.enc \in {"json", "protobuf"} /\ r.ctype = r.enc
        /\ r.status = IF accept \notin Replies THEN 455 ELSE m
    BY <1>1, ReplyFacts DEF ReplyError
  <1> HIDE DEF r
  <1>3. /\ pc' = "answered" /\ meant' = m /\ wrote' = FALSE /\ resp' = r
        /\ UNCHANGED <<call, accept, path, cancelled, result>>
    BY DEF Answer, r
  <1>4. TypeOK'
    BY <1>1, <1>2, <1>3 DEF RPCInv, TypeOK
  <1>5. InTransit'
    BY <1>2, <1>3 DEF RPCInv, InTransit, ServiceWrote
  <1> QED BY <1>3, <1>4, <1>5, NotTold DEF RPCInv

\* A 200 a handler completed, or had committed before it failed.
LEMMA CommittedStep ==
    ASSUME RPCInv, pc = "request", NEW m \in Nat, NEW w \in BOOLEAN, NEW r \in Responses,
           r.status = 200, m = 200 \/ (call = "DoBytes" /\ w), Answer(m, w, r)
    PROVE  RPCInv'
  <1>1. TypeOK'
    BY DEF RPCInv, TypeOK, Answer
  <1>2. InTransit'
    BY DEF RPCInv, InTransit, Answer, ServiceWrote
  <1> QED BY <1>1, <1>2, NotTold DEF RPCInv, Answer

\* The replies of structured endpoints.
LEMMA ReplyStep ==
    ASSUME RPCInv, pc = "request", NEW b \in {"reply", "msg", "unmarshalable"},
           Answer(IF b = "unmarshalable" THEN 500 ELSE 200, FALSE, Reply(accept, 200, b))
    PROVE  RPCInv'
  <1> DEFINE m == IF b = "unmarshalable" THEN 500 ELSE 200
             r == Reply(accept, 200, b)
  <1>1. /\ r \in Responses /\ r.version
        /\ r.enc \in {"json", "protobuf"} /\ r.ctype = r.enc
        /\ r.status = (IF accept \notin Replies THEN 455
                       ELSE IF b = "unmarshalable" THEN 500 ELSE 200)
        /\ r.body = IF accept \in Replies /\ b = "msg" THEN "msg" ELSE "reply"
    BY ReplyFacts
  <1>2. m \in Nat
    OBVIOUS
  <1>3. /\ pc' = "answered" /\ meant' = m /\ wrote' = FALSE /\ resp' = r
        /\ UNCHANGED <<call, accept, path, cancelled, result>>
    BY DEF Answer
  <1> HIDE DEF r
  <1>4. TypeOK'
    BY <1>1, <1>2, <1>3 DEF RPCInv, TypeOK
  <1>5. ServiceWrote(resp)'
    <2>1. CASE accept \in Replies /\ b = "msg"
      BY <1>1, <1>3, <2>1 DEF ServiceWrote
    <2>2. CASE accept \notin Replies
      BY <1>1, <1>3, <2>2 DEF ServiceWrote
    <2>3. CASE accept \in Replies /\ b # "msg"
      BY <1>1, <1>3, <2>3 DEF ServiceWrote
    <2> QED BY <2>1, <2>2, <2>3
  <1>6. InTransit'
    BY <1>3, <1>5 DEF RPCInv, InTransit
  <1> QED BY <1>3, <1>4, <1>6, NotTold DEF RPCInv

\* Every handler of the service.
ServiceStep ==
    \/ \E ctype \in JSONAccepts \union {"protobuf", "xml"}, body \in RequestBodies :
          ServeUnary(ctype, body) \/ ContentDownload(ctype, body)
    \/ \E body \in RequestBodies, hasPath \in BOOLEAN : ContentUpload(body, hasPath)
    \/ HandleBytes
    \/ \E flusher \in BOOLEAN : HandleStream(flusher)
    \/ \E code \in {400, 501} : Unrouted(code)

\* Whatever a handler does, its response keeps the invariant.
LEMMA ServiceStepInv == RPCInv /\ ServiceStep => RPCInv'
  <1> SUFFICES ASSUME RPCInv, ServiceStep PROVE RPCInv'
    OBVIOUS
  <1>1. ASSUME NEW c \in FailCodes, pc = "request", Fail(c) PROVE RPCInv'
    <2>1. Answer(Meant(c), FALSE, ReplyError(accept, c)) /\ Meant(c) = ErrorCode(c)
      BY <1>1, ErrorCodeType DEF Fail
    <2> QED BY <1>1, <2>1, FailStep
  <1>2. HandlerErrors \subseteq FailCodes
        /\ \A ctype, body : /\ ReadContent(body) # 200 => ReadContent(body) \in FailCodes
                            /\ ReadRequest(ctype, body) # 200 =>
                                  ReadRequest(ctype, body) \in FailCodes
    BY ReadFacts DEF HandlerErrors, FailCodes
  <1>3. ASSUME NEW ctype, NEW body, ServeUnary(ctype, body) PROVE RPCInv'
    <2> DEFINE e == ReadRequest(ctype, body)
    <2>1. CASE e # 200 /\ Fail(e)
      BY <1>1, <1>2, <1>3, <2>1 DEF ServeUnary
    <2>2. CASE \E c \in HandlerErrors : Fail(c)
      BY <1>1, <1>2, <1>3, <2>2 DEF ServeUnary
    <2>3. ASSUME NEW b \in {"msg", "unmarshalable"},
                 Answer(IF b = "msg" THEN 200 ELSE 500, FALSE, Reply(accept, 200, b))
          PROVE  RPCInv'
      <3>1. (IF b = "msg" THEN 200 ELSE 500) = IF b = "unmarshalable" THEN 500 ELSE 200
        OBVIOUS
      <3>2. pc = "request"
        BY <1>3 DEF ServeUnary
      <3> QED BY <2>3, <3>1, <3>2, ReplyStep
    <2> QED BY <1>3, <2>1, <2>2, <2>3 DEF ServeUnary
  <1>4. ASSUME NEW ctype, NEW body, ContentDownload(ctype, body) PROVE RPCInv'
    <2> DEFINE e == ReadRequest(ctype, body)
    <2>1. CASE e # 200 /\ Fail(e)
      BY <1>1, <1>2, <1>4, <2>1 DEF ContentDownload
    <2>2. CASE \E c \in HandlerErrors : Fail(c)
      BY <1>1, <1>2, <1>4, <2>2 DEF ContentDownload
    <2>3. CASE Answer(200, FALSE, WriteContent)
      <3>1. WriteContent \in Responses /\ WriteContent.status = 200
        BY DEF WriteContent, Response, Responses, ContentTypes, Bodies, Encodings
      <3> QED BY <1>4, <2>3, <3>1, CommittedStep DEF ContentDownload
    <2> QED BY <1>4, <2>1, <2>2, <2>3 DEF ContentDownload
  <1>5. ASSUME NEW body, NEW hasPath, ContentUpload(body, hasPath) PROVE RPCInv'
    <2> DEFINE e == ReadContent(body)
    <2>1. CASE e # 200 /\ Fail(e)
      BY <1>1, <1>2, <1>5, <2>1 DEF ContentUpload
    <2>2. CASE (\E c \in HandlerErrors : Fail(c)) \/ Fail(400)
      <3>1. 400 \in FailCodes
        BY DEF FailCodes
      <3> QED BY <1>1, <1>2, <1>5, <2>2, <3>1 DEF ContentUpload
    <2>3. CASE Answer(200, FALSE, Reply(accept, 200, "reply"))
      <3>1. (IF "reply" = "unmarshalable" THEN 500 ELSE 200) = 200
        OBVIOUS
      <3> QED BY <1>5, <2>3, <3>1, ReplyStep DEF ContentUpload
    <2> QED BY <1>5, <2>1, <2>2, <2>3 DEF ContentUpload
  <1>6. CASE HandleBytes
    <2>1. PICK w \in BOOLEAN, ctype \in {"octet", "text"} :
            LET committed == Response(200, ctype, TRUE, "bytes", "raw") IN
            \/ Answer(200, w, committed)
            \/ \E c \in HandlerErrors :
                  Answer(Meant(c), w,
                         IF w THEN committed ELSE ReplyError(accept, c))
      BY <1>6 DEF HandleBytes
    <2> DEFINE committed == Response(200, ctype, TRUE, "bytes", "raw")
    <2>2. committed \in Responses /\ committed.status = 200
      BY DEF Response, Responses, ContentTypes, Bodies, Encodings
    <2> HIDE DEF committed
    <2>3. pc = "request" /\ call = "DoBytes"
      BY <1>6 DEF HandleBytes
    <2>4. CASE Answer(200, w, committed)
      BY <2>2, <2>3, <2>4, CommittedStep
    <2>5. ASSUME NEW c \in HandlerErrors,
                 Answer(Meant(c), w, IF w THEN committed ELSE ReplyError(accept, c))
          PROVE  RPCInv'
      <3>1. Meant(c) \in Nat /\ c \in FailCodes /\ Meant(c) = ErrorCode(c)
        BY <1>2, ErrorCodeType
      <3>2. CASE w
        <4>1. Answer(Meant(c), w, committed)
          BY <2>5, <3>2
        <4> QED BY <2>2, <2>3, <3>1, <3>2, <4>1, CommittedStep
      <3>3. CASE ~w
        <4>1. w = FALSE
          BY <3>3
        <4>2. Answer(Meant(c), FALSE, ReplyError(accept, c))
          BY <2>5, <4>1
        <4> QED BY <2>3, <3>1, <4>2, FailStep
      <3> QED BY <3>2, <3>3
    <2> QED BY <2>1, <2>4, <2>5 DEF committed
  <1>7. ASSUME NEW flusher \in BOOLEAN, HandleStream(flusher) PROVE RPCInv'
    <2>1. pc = "request"
      BY <1>7 DEF HandleStream
    <2>2. ASSUME NEW c \in {400, 500}, Answer(c, FALSE, ReplyError(accept, c))
          PROVE  RPCInv'
      <3>1. c \in FailCodes /\ c = ErrorCode(c)
        BY <2>2 DEF FailCodes, ErrorCode
      <3> QED BY <2>1, <2>2, <3>1, FailStep
    <2>3. CASE /\ accept \in {"stream+json", "stream+protobuf"}
               /\ Answer(200, FALSE, Response(200, accept, TRUE, "frames", "raw"))
      <3> DEFINE r == Response(200, accept, TRUE, "frames", "raw")
      <3>1. r \in Responses /\ r.status = 200
        BY <2>3 DEF Response, Responses, ContentTypes, Bodies, Encodings
      <3> HIDE DEF r
      <3>2. Answer(200, FALSE, r)
        BY <2>3 DEF r
      <3> QED BY <2>1, <3>1, <3>2, CommittedStep
    <2> QED BY <1>7, <2>2, <2>3 DEF HandleStream
  <1>8. ASSUME NEW code \in {400, 501}, Unrouted(code) PROVE RPCInv'
    <2>1. code \in FailCodes /\ code = ErrorCode(code)
      BY <1>8 DEF FailCodes, ErrorCode
    <2> QED BY <1>8, <2>1, FailStep DEF Unrouted
  <1> QED BY <1>3, <1>4, <1>5, <1>6, <1>7, <1>8 DEF ServiceStep

\* What happens between the service and the client.
NetworkStep ==
    Direct \/ Retype \/ Cut \/ \E code \in InfraCodes : InfraAnswers(code)

\* Whatever happens to a response on its way keeps the invariant.
LEMMA NetworkStepInv == RPCInv /\ NetworkStep => RPCInv'
  <1> SUFFICES ASSUME RPCInv, NetworkStep PROVE RPCInv'
    OBVIOUS
  <1>1. ASSUME NEW p \in {"direct", "retyped", "infra", "cut"}, NEW r \in Responses,
               Arrive(p, r),
               p \in {"direct", "retyped"} => ServiceWrote(r),
               p = "infra" => InfraWrote(r),
               p = "cut" => /\ r.body = "none"
                            /\ r.status = 200 =>
                                  meant = 200 \/ (call = "DoBytes" /\ wrote)
        PROVE  RPCInv'
    <2>1. TypeOK'
      BY <1>1 DEF Arrive, RPCInv, TypeOK
    <2>2. InTransit'
      BY <1>1 DEF Arrive, InTransit, ServiceWrote, InfraWrote
    <2> QED BY <1>1, <2>1, <2>2, NotTold DEF Arrive, RPCInv
  <1>2. pc = "answered" /\ resp \in Responses /\ ServiceWrote(resp)
    BY DEF NetworkStep, Direct, Retype, Cut, InfraAnswers, Arrive, RPCInv, TypeOK, InTransit
  <1>3. CASE Direct
    BY <1>1, <1>2, <1>3 DEF Direct
  <1>4. CASE Retype
    <2> DEFINE r == [resp EXCEPT !.ctype = "html"]
    <2>1. /\ r \in Responses /\ r.status = resp.status /\ r.version = resp.version
          /\ r.body = resp.body /\ r.enc = resp.enc /\ r.ctype = "html"
      BY <1>2 DEF Responses, ContentTypes
    <2> HIDE DEF r
    <2>2. ServiceWrote(r)
      BY <1>2, <2>1 DEF ServiceWrote
    <2>3. Arrive("retyped", r)
      BY <1>4 DEF Retype, r
    <2> QED BY <1>1, <2>1, <2>2, <2>3
  <1>5. CASE Cut
    <2> DEFINE r == [resp EXCEPT !.body = "none"]
    <2>1. r \in Responses /\ r.status = resp.status /\ r.body = "none"
      BY <1>2 DEF Responses, Bodies
    <2> HIDE DEF r
    <2>2. r.status = 200 => meant = 200 \/ (call = "DoBytes" /\ wrote)
      BY <1>2, <2>1 DEF ServiceWrote
    <2>3. Arrive("cut", r)
      BY <1>5 DEF Cut, r
    <2> QED BY <1>1, <2>1, <2>2, <2>3
  <1>6. ASSUME NEW code \in InfraCodes, InfraAnswers(code) PROVE RPCInv'
    <2>1. code \in Nat
      BY CodesAssumption
    <2>2. PICK r : /\ Arrive("infra", r)
                   /\ \/ \E t \in {"html", "json", "none"} :
                            r = Response(code, t, FALSE, "page", "foreign")
                      \/ r = Response(code, "json", FALSE, "likeReply", "json")
      BY <1>6 DEF InfraAnswers
    <2>3. r \in Responses /\ InfraWrote(r)
      <3> USE DEF Response, Responses, ContentTypes, Bodies, Encodings, InfraWrote
      <3>1. ASSUME NEW t \in {"html", "json", "none"},
                   r = Response(code, t, FALSE, "page", "foreign")
            PROVE  r \in Responses /\ InfraWrote(r)
        BY <2>1, <3>1
      <3>2. CASE r = Response(code, "json", FALSE, "likeReply", "json")
        BY <2>1, <3>2
      <3> QED BY <2>2, <3>1, <3>2
    <2> QED BY <1>1, <2>2, <2>3
  <1> QED BY <1>3, <1>4, <1>5, <1>6 DEF NetworkStep

\* The call ends without an answer: lost, or aborted by a context.
LEMMA NoResponseStep == RPCInv /\ (NoAnswer \/ Aborted) => RPCInv'
  <1> SUFFICES ASSUME RPCInv, NoAnswer \/ Aborted PROVE RPCInv'
    OBVIOUS
  <1>1. /\ pc' = "done" /\ path' \in {"lost", "aborted"} /\ result' = ClientErr
        /\ UNCHANGED <<call, accept, meant, wrote, cancelled, resp>>
    BY DEF NoAnswer, Aborted
  <1>2. TypeOK'
    BY <1>1, ClientErrFacts DEF RPCInv, TypeOK
  <1>3. InTransit'
    BY <1>1 DEF InTransit
  <1>4. Told'
    BY <1>1, ClientErrFacts
    DEF Told, ServiceErrorKept, InfraIsNotService, SuccessIsGenuine,
        RetriesTransient, Disputed, RetriedOnlyIfTransient, TransientInfraRetried
  <1> QED BY <1>2, <1>3, <1>4 DEF RPCInv

-----------------------------------------------------------------------------
(* handleErrorResponse.                                                    *)

\* An error reply of the service is told as what it is, if it can be read.
LEMMA ServiceErrorTold ==
    ASSUME NEW r \in Responses, NEW read \in BOOLEAN,
           r.version, r.body = "reply", r.enc \in {"json", "protobuf"},
           r.ctype \in {r.enc, "html"}
    PROVE  HandleErrorResponse(r, read) = IF read THEN Err(r.status) ELSE ClientErr
  <1>1. CASE r.ctype = "html"
    BY <1>1 DEF HandleErrorResponse, Structured, Unmarshals
  <1>2. CASE r.ctype = r.enc
    BY <1>2 DEF HandleErrorResponse, Structured, Unmarshals
  <1> QED BY <1>1, <1>2

\* An intermediary's answer is told as an infrastructure error for every 5xx
\* and 404 that does not parse as a Reply, and never as a transient service
\* error unless its own status says so.
LEMMA InfraErrorTold ==
    ASSUME NEW r \in Responses, NEW read \in BOOLEAN, InfraWrote(r)
    PROVE  \/ HandleErrorResponse(r, read) = ClientErr
           \/ HandleErrorResponse(r, read) = Infra(r.status)
           \/ /\ HandleErrorResponse(r, read) = Err(r.status)
              /\ r.body = "likeReply" \/ (r.status \div 100 # 5 /\ r.status # 404)
  BY DEF HandleErrorResponse, Structured, Unmarshals, InfraWrote

\* The fields of what the client returns.
LEMMA ResultFacts ==
    /\ OK \in [code : Nat, infra : BOOLEAN, ok : BOOLEAN] /\ ~OK.infra /\ OK.ok
    /\ \A c \in Nat :
          /\ Err(c) \in [code : Nat, infra : BOOLEAN, ok : BOOLEAN]
          /\ Err(c).code = c /\ ~Err(c).infra /\ ~Err(c).ok
          /\ Infra(c) \in [code : Nat, infra : BOOLEAN, ok : BOOLEAN]
          /\ Infra(c).code = c /\ Infra(c).infra /\ ~Infra(c).ok
  BY DEF OK, Err, Infra, ClientError

\* Whichever method was called, a status other than 200 is classified by
\* handleErrorResponse, and a 200 succeeds only if it is what the method
\* expects.
Classified ==
    /\ resp.status # 200 =>
          \E read \in BOOLEAN :
             /\ result' = HandleErrorResponse(resp, read)
             /\ read => Readable(resp)
             /\ call # "DoStream" => (read <=> Readable(resp))
    /\ resp.status = 200 =>
          /\ result' \in {OK, ClientErr, Infra(200)}
          /\ result' = OK =>
                \/ call = "Do" /\ Readable(resp) /\ Structured(resp.ctype)
                   /\ Unmarshals(resp, resp.ctype)
                \/ call = "DoContent" /\ Readable(resp)
                \/ call = "DoBytes" /\ resp.ctype = "octet"
                \/ call = "DoStream" /\ resp.ctype \in {"stream+json", "stream+protobuf"}

\* Every method of the client classifies its response that way, and changes
\* nothing but its own result.
LEMMA ClientClassifies ==
    ClientStep => /\ Classified
                  /\ pc = "arrived" /\ pc' = "done"
                  /\ UNCHANGED <<call, accept, meant, wrote, cancelled, resp, path>>
  <1> SUFFICES ASSUME ClientStep PROVE Classified
    BY DEF ClientStep, Do, DoContent, DoBytes, DoStream, Finish
  <1>1. Readable(resp) \in BOOLEAN
    BY DEF Readable
  <1>2. OK # ClientErr /\ OK # Infra(200)
    <2>1. OK.ok # ClientErr.ok /\ OK.ok # Infra(200).ok
      BY DEF OK, ClientErr, Err, Infra, ClientError
    <2> QED BY <2>1
  <1>3. CASE Do
    BY <1>1, <1>2, <1>3 DEF Do, Finish, Classified
  <1>4. CASE DoContent
    BY <1>1, <1>2, <1>4 DEF DoContent, Finish, Classified
  <1>5. CASE DoBytes
    BY <1>1, <1>2, <1>5 DEF DoBytes, Finish, Classified
  <1>6. ASSUME NEW arrived \in BOOLEAN, DoStream(arrived) PROVE Classified
    <2>1. (Readable(resp) /\ arrived) \in BOOLEAN
      OBVIOUS
    <2> QED BY <1>1, <1>2, <1>6, <2>1 DEF DoStream, Finish, Classified
  <1> QED BY <1>3, <1>4, <1>5, <1>6 DEF ClientStep

\* The client tells its caller what really happened.
LEMMA ClientStepInv == RPCInv /\ ClientStep => RPCInv'
  <1> SUFFICES ASSUME RPCInv, ClientStep PROVE RPCInv'
    OBVIOUS
  <1>1. /\ Classified /\ pc = "arrived" /\ pc' = "done"
        /\ UNCHANGED <<call, accept, meant, wrote, cancelled, resp, path>>
    BY ClientClassifies
  <1>2. /\ resp \in Responses /\ resp.status \in Nat
        /\ path \in {"direct", "retyped", "infra", "cut"}
        /\ path \in {"direct", "retyped"} => ServiceWrote(resp)
        /\ path = "infra" => InfraWrote(resp)
        /\ path = "cut" =>
              /\ ~Readable(resp)
              /\ resp.status = 200 => meant = 200 \/ (call = "DoBytes" /\ wrote)
    BY <1>1 DEF RPCInv, TypeOK, InTransit, Responses, Readable
  <1> DEFINE Types == [code : Nat, infra : BOOLEAN, ok : BOOLEAN]
  <1> USE ResultFacts, ClientErrFacts
  <1>3. SUFFICES result' \in Types /\ Told'
    <2>1. TypeOK'
      BY <1>1, <1>3 DEF RPCInv, TypeOK
    <2>2. InTransit'
      BY <1>1 DEF InTransit
    <2> QED BY <1>3, <2>1, <2>2 DEF RPCInv
  <1> USE DEF Told, ServiceErrorKept, InfraIsNotService, SuccessIsGenuine,
              RetriesTransient, Disputed, RetriedOnlyIfTransient, TransientInfraRetried
  <1>4. CASE resp.status = 200
    <2>1. result' \in {OK, ClientErr, Infra(200)}
      BY <1>1, <1>4 DEF Classified
    <2>2. result' \in Types
      BY <2>1
    <2>3. ~result'.ok => ~ShouldRetry(result', OnRetryable)
      BY <2>1, OnRetryableCodes
    <2>4. (path \in {"direct", "retyped", "cut"}) =>
             meant = 200 \/ (call = "DoBytes" /\ wrote)
      BY <1>2, <1>4 DEF ServiceWrote
    <2>5. ServiceErrorKept'
      BY <1>1, <1>2, <1>4, <2>4 DEF ServiceWrote
    <2>6. SuccessIsGenuine'
      <3> SUFFICES ASSUME result' = OK,
                          ~(path = "infra" /\ resp.body = "likeReply"),
                          ~(call = "DoContent" /\ path = "infra")
                   PROVE  /\ meant = 200 \/ (call = "DoBytes" /\ wrote)
                          /\ \/ path \in {"direct", "retyped"}
                             \/ path = "cut" /\ call \in {"DoBytes", "DoStream"}
        BY <1>1, <2>1
      <3>1. path # "infra"
        BY <1>1, <1>2, <1>4 DEF Classified, InfraWrote, Unmarshals
      <3> QED BY <1>1, <1>2, <1>4, <2>4, <3>1 DEF Classified
    <2>7. InfraIsNotService' /\ RetriesTransient'
      BY <1>1, <1>4, <2>3
    <2> QED BY <2>2, <2>5, <2>6, <2>7
  <1>5. CASE resp.status # 200
    <2>1. PICK read \in BOOLEAN :
             /\ result' = HandleErrorResponse(resp, read)
             /\ read => Readable(resp)
             /\ call # "DoStream" => (read <=> Readable(resp))
      BY <1>1, <1>5 DEF Classified
    <2>2. CASE path \in {"direct", "retyped"}
      <3>1. /\ resp.status = (IF accept \in Replies THEN meant ELSE 455)
            /\ resp.version /\ resp.body = "reply"
            /\ resp.enc \in {"json", "protobuf"} /\ resp.ctype \in {resp.enc, "html"}
        BY <1>2, <1>5, <2>2 DEF ServiceWrote
      <3>2. result' = IF read THEN Err(resp.status) ELSE ClientErr
        BY <1>2, <2>1, <3>1, ServiceErrorTold
      <3>3. ~read => call = "DoStream"
        BY <2>1, <3>1 DEF Readable
      <3>4. result' \in Types /\ ~result'.infra /\ ~result'.ok
        BY <1>2, <3>2
      <3>5. ServiceErrorKept'
        BY <1>1, <3>1, <3>2, <3>3 DEF Replies
      <3>6. RetriedOnlyIfTransient'
        BY <1>1, <1>2, <2>2, <3>2, OnRetryableCodes
      <3> QED BY <1>1, <2>2, <3>4, <3>5, <3>6
    <2>3. CASE path = "cut"
      <3>1. result' = ClientErr
        BY <1>2, <2>1, <2>3 DEF HandleErrorResponse
      <3> QED BY <1>1, <2>3, <3>1
    <2>4. CASE path = "infra"
      <3>1. \/ result' = ClientErr
            \/ result' = Infra(resp.status)
            \/ /\ result' = Err(resp.status)
               /\ resp.body = "likeReply"
                  \/ (resp.status \div 100 # 5 /\ resp.status # 404)
        BY <1>2, <2>1, <2>4, InfraErrorTold
      <3>2. result' \in Types /\ ~result'.ok
        BY <1>2, <3>1
      <3>3. RetriedOnlyIfTransient'
        BY <1>1, <1>2, <2>4, <3>1, OnRetryableCodes
      <3>4. TransientInfraRetried'
        BY <1>1, <1>2, <2>4, <3>1, OnRetryableCodes
      <3> QED BY <1>1, <2>4, <3>2, <3>3, <3>4
    <2> QED BY <1>2, <2>2, <2>3, <2>4
  <1> QED BY <1>4, <1>5

-----------------------------------------------------------------------------
(* The theorems.                                                           *)

\* Every step of a call keeps the invariant.
LEMMA RPCStep == RPCInv /\ [Next]_vars => RPCInv'
  <1> SUFFICES ASSUME RPCInv, [Next]_vars PROVE RPCInv'
    OBVIOUS
  <1>1. CASE ServiceStep \/ NetworkStep \/ ClientStep \/ NoAnswer \/ Aborted
    BY <1>1, ServiceStepInv, NetworkStepInv, ClientStepInv, NoResponseStep
  <1>2. ASSUME NEW x \in {"arg", "req"}, Cancel(x) PROVE RPCInv'
    <2>1. TypeOK'
      BY <1>2 DEF Cancel, RPCInv, TypeOK
    <2>2. InTransit'
      BY <1>2 DEF Cancel, RPCInv, InTransit, ServiceWrote, InfraWrote
    <2> QED BY <1>2, <2>1, <2>2, NotTold DEF Cancel, RPCInv
  <1>3. CASE Done \/ UNCHANGED vars
    <2>1. UNCHANGED vars
      BY <1>3 DEF Done
    <2>2. TypeOK' /\ InTransit'
      BY <2>1 DEF vars, RPCInv, TypeOK, InTransit, ServiceWrote, InfraWrote
    <2>3. Told'
      BY <2>1 DEF vars, RPCInv, Told, Returned, ServiceErrorKept, InfraIsNotService,
                  SuccessIsGenuine, RetriesTransient, Disputed, RetriedOnlyIfTransient,
                  TransientInfraRetried
    <2> QED BY <2>2, <2>3 DEF RPCInv
  <1> QED BY <1>1, <1>2, <1>3 DEF Next, ServiceStep, NetworkStep

\* RPCInv is an invariant of every call.
THEOREM RPCInvariance == Spec => []RPCInv
  BY RPCInit, RPCStep, PTL DEF Spec

\* A service's error reaches the caller with its code and as the service's, and
\* is never taken for an infrastructure failure.
THEOREM ErrorsAreTold == Spec => []ErrorsTold
  <1>1. RPCInv => ErrorsTold
    BY DEF RPCInv, Told, ErrorsTold
  <1> QED BY <1>1, RPCInvariance, PTL

\* A client method reports success only for what the service completed.
THEOREM SuccessGenuine == Spec => []SuccessIsGenuine
  <1>1. RPCInv => SuccessIsGenuine
    BY DEF RPCInv, Told
  <1> QED BY <1>1, RPCInvariance, PTL

\* OnRetryable repeats a call after transient answers, whoever gave them, and
\* after no others.
THEOREM RetriesAreTransient == Spec => []RetriesTransient
  <1>1. RPCInv => RetriesTransient
    BY DEF RPCInv, Told
  <1> QED BY <1>1, RPCInvariance, PTL
=============================================================================
