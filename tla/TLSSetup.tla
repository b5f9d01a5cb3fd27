------------------------------ MODULE TLSSetup ------------------------------
(***************************************************************************)
(* SetupTLS (tls.go): from the files a TLSConfig names and the             *)
(* certificates it generates, the server's and the client's tls.Config.    *)
(*                                                                         *)
(* A call goes through its steps in order and may stop with an error at    *)
(* any of them, with the TLSConfig already changed by the steps before;    *)
(* the caller may then repair the files and call again.  A certificate is  *)
(* its key and the key that signed it, a pool the set of keys it trusts:   *)
(* what crypto/tls and crypto/x509 tell apart.  Names, addresses, dates    *)
(* and cipher suites are left out.                                         *)
(***************************************************************************)
EXTENDS Integers, Sequences, FiniteSets

CONSTANTS
    MaxFaults,     \* bound: files that are bad or unreadable
    MaxCalls       \* bound: calls of SetupTLS

ASSUME TLSConstants == MaxFaults \in Nat /\ MaxCalls \in Nat \ {0}

\* The PEM fields in the order their files are loaded (tls.go:191).
Files == <<"Ca", "CaKey", "Key", "Cert", "ClientCa", "ClientKey", "ClientCert">>
Fields == {Files[i] : i \in DOMAIN Files}

Cert(key, signer) == [kind |-> "cert", key |-> key, signer |-> signer]
Key(key) == [kind |-> "key", key |-> key, signer |-> "-"]
Nil == [kind |-> "nil", key |-> "-", signer |-> "-"]
UserPEM == Cert("user", "user")        \* what the caller put in a PEM field

\* What a good file holds, and a bad one: another private key.
Good == [Ca |-> Cert("ca", "ca"), CaKey |-> Key("ca"),
         Cert |-> Cert("srv", "ca"), Key |-> Key("srv"),
         ClientCa |-> Cert("cca", "cca"),
         ClientCert |-> Cert("cli", "cca"), ClientKey |-> Key("cli")]
Bad == Key("other")

\* tls.X509KeyPair and CertPool.AppendCertsFromPEM, which skips what it cannot
\* parse.
X509KeyPair(c, k) == c.kind = "cert" /\ k.kind = "key" /\ c.key = k.key
CertsFromPEM(c) == IF c.kind = "cert" THEN {c.key} ELSE {}

VARIABLES
    in,            \* what the caller set; see Inputs
    repaired,      \* the unreadable files were repaired
    pc,            \* "idle" or the step of SetupTLS
    next,          \* the next of Files to load
    pem,           \* conf.CaPEM ... conf.ClientAuthCertPEM
    server,        \* conf.ServerTLS
    client,        \* conf.ClientTLS
    netFailed,     \* history: the host's addresses could not be listed
    results        \* history: what each call returned, "nil" or "err"

vars == <<in, repaired, pc, next, pem, server, client, netFailed, results>>

\* A tls.Config; a pool that is not set means the system's.
Unset == [set |-> FALSE, auth |-> FALSE, roots |-> {"system"}, cert |-> Nil,
          clientCAs |-> {"system"}, insecure |-> FALSE]

Faults(i) == {f \in Fields : i.file[f] = "bad" \/ f \in i.unreadable}

\* conf is nil or not; a file is unset, good or bad, and readable or not; the
\* caller may have set either config, and PEM fields.
Inputs ==
    {i \in [given : BOOLEAN, file : [Fields -> {"unset", "good", "bad"}],
            unreadable : {u \in SUBSET Fields : Cardinality(u) <= MaxFaults},
            auto : BOOLEAN, clientAuth : BOOLEAN, insecure : BOOLEAN,
            server : BOOLEAN, client : BOOLEAN, pems : BOOLEAN] :
        /\ Cardinality(Faults(i)) <= MaxFaults
        /\ \A f \in i.unreadable : i.file[f] = "good"
        /\ ~i.given => Faults(i) = {} /\ ~i.auto}

Init ==
    /\ in \in Inputs
    /\ repaired = FALSE
    /\ pc = "idle" /\ next = 1
    /\ pem = [f \in Fields |-> IF in.pems THEN UserPEM ELSE Nil]
    /\ server = [Unset EXCEPT !.set = in.server]
    /\ client = [Unset EXCEPT !.set = in.client]
    /\ netFailed = FALSE
    /\ results = << >>

-----------------------------------------------------------------------------
(* The steps of a call.                                                    *)

Goto(step) == pc' = step /\ UNCHANGED results
Return(err) == pc' = "idle" /\ results' = Append(results, err)

\* Mutant: a call starts over whatever it finds.
BeginAlways ==
    /\ pc = "idle" /\ Len(results) < MaxCalls
    /\ Goto("load") /\ next' = 1
    /\ server' = [server EXCEPT !.set = TRUE]
    /\ client' = [client EXCEPT !.set = TRUE]
    /\ UNCHANGED <<in, repaired, pem, netFailed>>

\* Nothing to do without a TLSConfig, or when it has both configs.  Otherwise
\* the missing ones are made.
Begin ==
    /\ pc = "idle" /\ Len(results) < MaxCalls
    /\ IF ~in.given \/ (server.set /\ client.set)
       THEN Return("nil") /\ UNCHANGED <<server, client, next>>
       ELSE /\ Goto("load") /\ next' = 1
            /\ server' = [server EXCEPT !.set = TRUE,
                             !.auth = IF server.set THEN @ ELSE in.clientAuth]
            /\ client' = [client EXCEPT !.set = TRUE]
    /\ UNCHANGED <<in, repaired, pem, netFailed>>

IsSet(f) == in.file[f] # "unset"
Readable(f) == f \notin in.unreadable \/ repaired

\* fromFile: nil for a file that is not named.
fromFile(f) == IF ~IsSet(f) THEN Nil
               ELSE IF in.file[f] = "good" THEN Good[f] ELSE Bad

LoadAs(value, fails, last) ==
    /\ pc = "load"
    /\ pem' = [pem EXCEPT ![Files[next]] = IF fails THEN Nil ELSE value]
    /\ IF fails THEN Return("err") /\ UNCHANGED next
       ELSE /\ next' = IF last THEN 1 ELSE next + 1
            /\ Goto(IF last THEN "selfCA" ELSE "load")
    /\ UNCHANGED <<in, repaired, server, client, netFailed>>

\* Mutants: a PEM is kept although its file is named; an unreadable file is
\* taken for one that is not named; one file too many is asked for.
LoadPrefersPEM ==
    LET f == Files[next] IN
    LoadAs(IF pem[f] # Nil THEN pem[f] ELSE fromFile(f), IsSet(f) /\ ~Readable(f),
           next = Len(Files))

LoadSkips ==
    LET f == Files[next] IN
    LoadAs(IF Readable(f) THEN fromFile(f) ELSE Nil, FALSE, next = Len(Files))

LoadPastEnd ==
    LET f == Files[next] IN
    LoadAs(fromFile(f), IsSet(f) /\ ~Readable(f), next > Len(Files))

\* The seven files in turn.  Whatever the PEM field held is overwritten.
Load ==
    LET f == Files[next] IN
    LoadAs(fromFile(f), IsSet(f) /\ ~Readable(f), next = Len(Files))

selfCAWhen(generate) ==
    /\ pc = "selfCA"
    /\ pem' = IF ~generate THEN pem
              ELSE [pem EXCEPT !["Ca"] = Cert("genCa", "genCa"), !["CaKey"] = Key("genCa")]
    /\ Goto(IF in.auto THEN "selfCert" ELSE "roots")
    /\ UNCHANGED <<in, repaired, next, server, client, netFailed>>

\* Mutant: the CA that was given is replaced.
selfCAAlways == selfCAWhen(in.auto)

\* AutoTLS: a CA and its key are generated unless both were given.
selfCA == selfCAWhen(in.auto /\ (pem["Ca"] = Nil \/ pem["CaKey"] = Nil))

\* discoverNetwork: the host's addresses and names, or an error.
discoverNetwork == {"addresses", "err"}

\* ... and a server certificate, signed by the CA, unless one and its key were
\* given.  Listing the host's addresses may fail, and so may the CA's pair.
\* The random source does not.
selfCert ==
    /\ pc = "selfCert"
    /\ \/ /\ pem["Cert"] # Nil /\ pem["Key"] # Nil
          /\ Goto("roots") /\ UNCHANGED <<pem, netFailed>>
       \/ /\ pem["Cert"] = Nil \/ pem["Key"] = Nil
          /\ \E network \in discoverNetwork :
             \/ /\ network = "err"
                /\ Return("err") /\ netFailed' = TRUE /\ UNCHANGED pem
             \/ /\ network # "err" /\ X509KeyPair(pem["Ca"], pem["CaKey"])
                /\ pem' = [pem EXCEPT !["Cert"] = Cert("genSrv", pem["Ca"].key),
                                      !["Key"] = Key("genSrv")]
                /\ Goto("roots") /\ UNCHANGED netFailed
             \/ /\ network # "err" /\ ~X509KeyPair(pem["Ca"], pem["CaKey"])
                /\ Return("err") /\ UNCHANGED <<pem, netFailed>>
    /\ UNCHANGED <<in, repaired, next, server, client>>

\* The CA joins the system's pool, or an empty one if that cannot be loaded,
\* for both configs.
Roots ==
    /\ pc = "roots"
    /\ \/ pem["Ca"] = Nil /\ UNCHANGED <<server, client>>
       \/ /\ pem["Ca"] # Nil
          /\ \E base \in {{"system"}, {}} :
                /\ server' = [server EXCEPT !.roots = base \union CertsFromPEM(pem["Ca"])]
                /\ client' = [client EXCEPT !.roots = base \union CertsFromPEM(pem["Ca"])]
    /\ Goto("pair")
    /\ UNCHANGED <<in, repaired, next, pem, netFailed>>

\* The server's certificate, which the client presents too.
ServerPair ==
    /\ pc = "pair"
    /\ \/ /\ pem["Key"] = Nil \/ pem["Cert"] = Nil
          /\ Goto("clientAuth") /\ UNCHANGED <<server, client>>
       \/ /\ pem["Key"] # Nil /\ pem["Cert"] # Nil
          /\ IF X509KeyPair(pem["Cert"], pem["Key"])
             THEN /\ server' = [server EXCEPT !.cert = pem["Cert"]]
                  /\ client' = [client EXCEPT !.cert = pem["Cert"]]
                  /\ Goto("clientAuth")
             ELSE Return("err") /\ UNCHANGED <<server, client>>
    /\ UNCHANGED <<in, repaired, next, pem, netFailed>>

\* The CA that client certificates are checked against: the one for clients,
\* or the server's.
ClientCA == IF pem["ClientCa"] # Nil THEN pem["ClientCa"] ELSE pem["Ca"]

ClientAuthWith(pool, missing) ==
    /\ pc = "clientAuth" /\ in.clientAuth
    /\ IF missing THEN Return("err") /\ UNCHANGED <<server, client>>
       ELSE /\ server' = [server EXCEPT !.clientCAs = pool]
            /\ \/ /\ pem["ClientKey"] = Nil \/ pem["ClientCert"] = Nil
                  /\ Goto("finish") /\ UNCHANGED client
               \/ /\ pem["ClientKey"] # Nil /\ pem["ClientCert"] # Nil
                  /\ IF X509KeyPair(pem["ClientCert"], pem["ClientKey"])
                     THEN /\ client' = [client EXCEPT !.cert = pem["ClientCert"]]
                          /\ Goto("finish")
                     ELSE Return("err") /\ UNCHANGED client
    /\ UNCHANGED <<in, repaired, next, pem, netFailed>>

\* Mutants: the server's CA is used although one for clients was given; the
\* pool starts with the system's.
ClientAuthServerCA == ClientAuthWith(CertsFromPEM(pem["Ca"]), ClientCA = Nil)
ClientAuthSystem ==
    ClientAuthWith({"system"} \union CertsFromPEM(ClientCA), ClientCA = Nil)

ClientAuth == ClientAuthWith(CertsFromPEM(ClientCA), ClientCA = Nil)

NoClientAuth ==
    /\ pc = "clientAuth" /\ ~in.clientAuth
    /\ Goto("finish")
    /\ UNCHANGED <<in, repaired, next, pem, server, client, netFailed>>

Finish ==
    /\ pc = "finish"
    /\ client' = [client EXCEPT !.insecure = in.insecure]
    /\ Return("nil")
    /\ UNCHANGED <<in, repaired, next, pem, server, netFailed>>

\* The caller repairs the files between two calls.
Repair ==
    /\ pc = "idle" /\ results # << >> /\ in.unreadable # {} /\ ~repaired
    /\ repaired' = TRUE
    /\ UNCHANGED <<in, pc, next, pem, server, client, netFailed, results>>

Done ==
    /\ pc = "idle" /\ Len(results) = MaxCalls
    /\ UNCHANGED vars

Next ==
    \/ Begin \/ Load \/ selfCA \/ selfCert \/ Roots \/ ServerPair
    \/ ClientAuth \/ NoClientAuth \/ Finish
    \/ Repair \/ Done

Spec == Init /\ [][Next]_vars

-----------------------------------------------------------------------------
(* Properties.                                                             *)

Keys == {"ca", "srv", "cca", "cli", "other", "genCa", "genSrv", "user"}
PEM == [kind : {"cert"}, key : Keys, signer : Keys]
         \union [kind : {"key"}, key : Keys, signer : {"-"}] \union {Nil}
Config == [set : BOOLEAN, auth : BOOLEAN, roots : SUBSET (Keys \union {"system"}),
           cert : PEM, clientCAs : SUBSET (Keys \union {"system"}), insecure : BOOLEAN]

TypeOK ==
    /\ pc \in {"idle", "load", "selfCA", "selfCert", "roots", "pair",
               "clientAuth", "finish"}
    /\ next \in DOMAIN Files
    /\ pem \in [Fields -> PEM]
    /\ server \in Config /\ client \in Config
    /\ repaired \in BOOLEAN /\ netFailed \in BOOLEAN
    /\ \A i \in DOMAIN results : results[i] \in {"nil", "err"}

Pair(c, k) == in.file[c] = "good" /\ in.file[k] = "good"

\* The call had work to do, and did it.
Worked == in.given /\ ~(in.server /\ in.client)
BuiltOk == pc = "idle" /\ results # << >> /\ results[1] = "nil" /\ Worked

\* What the first call has to refuse: an unreadable file, an AutoTLS that cannot
\* list the addresses or sign, a certificate without its key, client
\* authentication without a CA.
MustFail ==
    \/ in.unreadable # {} \/ netFailed
    \/ /\ in.auto /\ ~(IsSet("Cert") /\ IsSet("Key"))
       /\ IsSet("Ca") /\ IsSet("CaKey") /\ ~Pair("Ca", "CaKey")
    \/ IsSet("Cert") /\ IsSet("Key") /\ ~Pair("Cert", "Key")
    \/ in.clientAuth /\ ~in.auto /\ ~IsSet("Ca") /\ ~IsSet("ClientCa")
    \/ in.clientAuth /\ IsSet("ClientCert") /\ IsSet("ClientKey")
       /\ ~Pair("ClientCert", "ClientKey")

\* The first call returns an error for these reasons and no other: also when a
\* step before the failing one has replaced what was given (tls.go:415).
FailsExactly ==
    results # << >> => (results[1] = "err" <=> Worked /\ MustFail)

\* A PEM field whose file is not named: Load overwrites it (tls.go:191-221)
\* although the field's comment says it is used (tls.go:93-112).  What a call
\* owes its caller then is left open here.
Undisputed == ~in.pems \/ \A f \in Fields : IsSet(f)

\* A file that is named wins over the PEM field beside it: no config holds what
\* the caller put in a field whose file was read.
FilesWin ==
    /\ IsSet("Ca") => "user" \notin server.roots \union client.roots
    /\ IsSet("ClientCa") => "user" \notin server.clientCAs
    /\ IsSet("Cert") /\ IsSet("Key") =>
         /\ server.cert.key # "user"
         /\ IsSet("ClientCert") /\ IsSet("ClientKey") => client.cert.key # "user"

\* The files that are named and the flags decide what a call does; the PEM
\* fields whose file is not named are left out, as Undisputed says.
FilesDecide == TypeOK /\ FilesWin /\ (Undisputed => FailsExactly)

\* The client trusts what the server presents.
ServerTrusted == server.cert # Nil /\ server.cert.signer \in client.roots

\* With AutoTLS the server always has a certificate and the client always
\* trusts it, unless the caller gave the certificate without a complete CA of
\* its own: then the CA is generated although the certificate was not signed
\* by it (tls.go:415).
AutoTrusted ==
    BuiltOk /\ in.auto =>
      \/ ServerTrusted
      \/ IsSet("Cert") /\ IsSet("Key") /\ ~(in.file["Ca"] = "good" /\ IsSet("CaKey"))

\* When the client files are given together or not at all, a client that trusts
\* the server is accepted by it: with its own certificate checked against the
\* CA for clients, or with the server's checked against the server's CA
\* (tls.go:268).
MutualAuth ==
    /\ BuiltOk /\ in.clientAuth /\ ServerTrusted
    /\ LET cf == {in.file["ClientCa"], in.file["ClientKey"], in.file["ClientCert"]}
       IN  cf = {"good"} \/ cf = {"unset"}
    => client.cert # Nil /\ client.cert.signer \in server.clientCAs

\* Client authentication that was asked for is never checked against the
\* system's pool, and the server asks for it unless the caller gave its config
\* (tls.go:182, 280).
ClientAuthEnforced ==
    BuiltOk /\ in.clientAuth =>
      "system" \notin server.clientCAs /\ (server.auth \/ in.server)

\* Client authentication is checked as it was asked for, and can be passed.
ClientsChecked == MutualAuth /\ ClientAuthEnforced

\* Once a call has returned, no later call touches the configs: a server that
\* uses them is safe from it, and a set-up that failed is never taken up again,
\* the next call just returns nil (tls.go:152).
BuiltOnce ==
    [][results # << >> => UNCHANGED <<pem, server, client>>]_vars
=============================================================================
