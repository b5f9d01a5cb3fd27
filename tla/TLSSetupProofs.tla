--------------------------- MODULE TLSSetupProofs ---------------------------
(***************************************************************************)
(* Machine-checked proofs about TLSSetup, for every combination of faulty  *)
(* files and any number of calls of SetupTLS.                              *)
(***************************************************************************)
EXTENDS TLSSetup, TLAPS

-----------------------------------------------------------------------------
(* What the files and the flags make of each PEM.                          *)

MakesCA == in.auto /\ ~(IsSet("Ca") /\ IsSet("CaKey"))
CaPEM    == IF MakesCA THEN Cert("genCa", "genCa") ELSE fromFile("Ca")
CaKeyPEM == IF MakesCA THEN Key("genCa") ELSE fromFile("CaKey")

MakesCert == in.auto /\ ~(IsSet("Cert") /\ IsSet("Key"))
CertPEM == IF MakesCert THEN Cert("genSrv", CaPEM.key) ELSE fromFile("Cert")
KeyPEM  == IF MakesCert THEN Key("genSrv") ELSE fromFile("Key")

ClientCaPEM == IF IsSet("ClientCa") THEN fromFile("ClientCa") ELSE CaPEM

\* The certificate both sides present, and the client's own.
HasCert == MakesCert \/ (IsSet("Cert") /\ IsSet("Key"))
BothCert == IF HasCert THEN CertPEM ELSE Nil
HasClientCert == in.clientAuth /\ IsSet("ClientCert") /\ IsSet("ClientKey")
ClientCertPEM == IF HasClientCert THEN fromFile("ClientCert") ELSE BothCert

-----------------------------------------------------------------------------
(* The inductive invariant.                                                *)

\* Keys that were read or generated.
Known == (Keys \ {"user"}) \union {"-", "system"}

ConfigsKnown ==
    /\ server.cert.key \in Known /\ client.cert.key \in Known
    /\ server.roots \subseteq Known /\ client.roots \subseteq Known
    /\ server.clientCAs \subseteq Known

Types ==
    /\ TypeOK /\ in \in Inputs
    /\ results \in Seq({"nil", "err"})

Loaded(f) == pem[f] = fromFile(f) /\ f \notin in.unreadable

\* The files, one by one; then what is generated.
PEMsOK ==
    /\ pc = "load" => \A j \in 1..(next - 1) : Loaded(Files[j])
    /\ pc \notin {"idle", "load"} =>
          /\ in.unreadable = {}
          /\ \A f \in {"ClientCa", "ClientKey", "ClientCert"} : pem[f] = fromFile(f)
    /\ pc \in {"selfCA", "selfCert"} =>
          pem["Cert"] = fromFile("Cert") /\ pem["Key"] = fromFile("Key")
    /\ pc = "selfCA" => pem["Ca"] = fromFile("Ca") /\ pem["CaKey"] = fromFile("CaKey")
    /\ pc = "selfCert" => in.auto
    /\ pc \notin {"idle", "load", "selfCA"} => pem["Ca"] = CaPEM /\ pem["CaKey"] = CaKeyPEM
    /\ pc \in {"roots", "pair", "clientAuth", "finish"} =>
          /\ pem["Cert"] = CertPEM /\ pem["Key"] = KeyPEM
          /\ MakesCert => X509KeyPair(CaPEM, CaKeyPEM)

\* What the configs hold after each step.
ConfigsOK ==
    /\ pc = "idle" => server.set = in.server /\ client.set = in.client /\ ~server.auth
    /\ pc # "idle" => /\ Worked /\ server.set /\ client.set
                      /\ in.clientAuth => server.auth \/ in.server
    /\ pc \notin {"pair", "clientAuth", "finish"} => client.roots = {"system"}
    /\ pc \in {"pair", "clientAuth", "finish"} =>
          /\ CertsFromPEM(CaPEM) \subseteq client.roots
          /\ client.roots \subseteq {"system"} \union CertsFromPEM(CaPEM)
    /\ pc \notin {"clientAuth", "finish"} => server.cert = Nil /\ client.cert = Nil
    /\ pc \in {"clientAuth", "finish"} =>
          server.cert = BothCert /\ (HasCert => X509KeyPair(CertPEM, KeyPEM))
    /\ pc = "clientAuth" => client.cert = BothCert
    /\ pc = "finish" =>
          /\ client.cert = ClientCertPEM
          /\ HasClientCert => X509KeyPair(fromFile("ClientCert"), fromFile("ClientKey"))
          /\ in.clientAuth => /\ ClientCaPEM # Nil
                              /\ server.clientCAs = CertsFromPEM(ClientCaPEM)

FirstCall == ~repaired /\ ~netFailed /\ PEMsOK /\ ConfigsOK

\* A call has returned: no later one has anything to do.
Returned ==
    /\ pc = "idle" /\ (in.given => server.set /\ client.set)
    /\ FailsExactly /\ AutoTrusted /\ ClientsChecked

TLSInv ==
    /\ Types /\ ConfigsKnown
    /\ results = << >> => FirstCall
    /\ results # << >> => Returned
-----------------------------------------------------------------------------
(* Facts about files, keys and certificates.                               *)

AllFields == {"Ca", "CaKey", "Key", "Cert", "ClientCa", "ClientKey", "ClientCert"}

\* The seven files.
LEMMA FilesFacts ==
    /\ DOMAIN Files = 1..7 /\ Len(Files) = 7
    /\ Fields = AllFields
    /\ \A i \in 1..7 : Files[i] \in AllFields
    /\ \A f \in AllFields : \E i \in 1..7 : Files[i] = f
  <1>1. /\ DOMAIN Files = 1..7 /\ Len(Files) = 7
        /\ Files[1] = "Ca" /\ Files[2] = "CaKey" /\ Files[3] = "Key" /\ Files[4] = "Cert"
        /\ Files[5] = "ClientCa" /\ Files[6] = "ClientKey" /\ Files[7] = "ClientCert"
    BY DEF Files
  <1>2. \A i \in 1..7 : i = 1 \/ i = 2 \/ i = 3 \/ i = 4 \/ i = 5 \/ i = 6 \/ i = 7
    OBVIOUS
  <1>3. \A i \in 1..7 : Files[i] \in AllFields
    BY <1>1, <1>2 DEF AllFields
  <1>4. \A f \in AllFields : \E i \in 1..7 : Files[i] = f
    BY <1>1 DEF AllFields
  <1>5. Fields = AllFields
    BY <1>1, <1>3, <1>4 DEF Fields
  <1> QED BY <1>1, <1>3, <1>4, <1>5

\* What the caller set.
LEMMA InputFacts ==
    ASSUME in \in Inputs
    PROVE  /\ in.given \in BOOLEAN /\ in.auto \in BOOLEAN /\ in.clientAuth \in BOOLEAN
           /\ in.insecure \in BOOLEAN /\ in.server \in BOOLEAN /\ in.client \in BOOLEAN
           /\ \A f \in AllFields : in.file[f] \in {"unset", "good", "bad"}
           /\ in.unreadable \subseteq AllFields
           /\ \A f \in in.unreadable : IsSet(f)
           /\ ~in.given => ~in.auto
  BY FilesFacts DEF Inputs, IsSet

\* A file that is named gives a certificate or a key, never the caller's PEM.
LEMMA FileFacts ==
    ASSUME in \in Inputs, NEW f \in AllFields
    PROVE  /\ fromFile(f) = Nil <=> ~IsSet(f)
           /\ fromFile(f) \in PEM /\ fromFile(f).key # "user"
  <1>1. Good[f] \in PEM /\ Good[f] # Nil /\ Good[f].key # "user"
    BY DEF Good, AllFields, PEM, Keys, Nil, Cert, Key
  <1>2. Bad \in PEM /\ Bad # Nil /\ Bad.key # "user" /\ Nil \in PEM /\ Nil.key # "user"
    BY DEF Bad, PEM, Keys, Nil, Key
  <1>3. in.file[f] \in {"unset", "good", "bad"}
    BY InputFacts
  <1> QED BY <1>1, <1>2, <1>3 DEF fromFile, IsSet

\* The files of a pair match when both are good.
LEMMA PairFacts ==
    ASSUME in \in Inputs
    PROVE  /\ X509KeyPair(fromFile("Ca"), fromFile("CaKey")) <=> Pair("Ca", "CaKey")
           /\ X509KeyPair(fromFile("Cert"), fromFile("Key")) <=> Pair("Cert", "Key")
           /\ X509KeyPair(fromFile("ClientCert"), fromFile("ClientKey"))
                <=> Pair("ClientCert", "ClientKey")
  <1>1. \A f \in AllFields : in.file[f] \in {"unset", "good", "bad"}
    BY InputFacts
  <1>2. \A f \in AllFields : fromFile(f) = IF in.file[f] = "unset" THEN Nil
                                ELSE IF in.file[f] = "good" THEN Good[f] ELSE Bad
    BY DEF fromFile, IsSet
  <1> USE DEF X509KeyPair, Pair, AllFields, Nil, Bad, Key, Cert
  <1>3. X509KeyPair(fromFile("Ca"), fromFile("CaKey")) <=> Pair("Ca", "CaKey")
    <2>1. Good["Ca"] = Cert("ca", "ca") /\ Good["CaKey"] = Key("ca")
      BY DEF Good
    <2> QED BY <1>1, <1>2, <2>1
  <1>4. X509KeyPair(fromFile("Cert"), fromFile("Key")) <=> Pair("Cert", "Key")
    <2>1. Good["Cert"] = Cert("srv", "ca") /\ Good["Key"] = Key("srv")
      BY DEF Good
    <2> QED BY <1>1, <1>2, <2>1
  <1>5. X509KeyPair(fromFile("ClientCert"), fromFile("ClientKey"))
          <=> Pair("ClientCert", "ClientKey")
    <2>1. Good["ClientCert"] = Cert("cli", "cca") /\ Good["ClientKey"] = Key("cli")
      BY DEF Good
    <2> QED BY <1>1, <1>2, <2>1
  <1> QED BY <1>3, <1>4, <1>5

\* The PEMs that files and flags make.
LEMMA PEMFacts ==
    ASSUME in \in Inputs
    PROVE  /\ CaPEM \in PEM /\ CaKeyPEM \in PEM /\ CertPEM \in PEM /\ KeyPEM \in PEM
           /\ CaPEM.key # "user" /\ CertPEM.key # "user"
           /\ ClientCaPEM \in PEM /\ ClientCaPEM.key # "user"
           /\ CaPEM = Nil <=> ~in.auto /\ ~IsSet("Ca")
           /\ (CertPEM # Nil /\ KeyPEM # Nil) <=> HasCert
           /\ ClientCaPEM = Nil <=> ~in.auto /\ ~IsSet("Ca") /\ ~IsSet("ClientCa")
           /\ BothCert \in PEM /\ BothCert.key # "user"
           /\ ClientCertPEM \in PEM /\ ClientCertPEM.key # "user"
           /\ Nil \in PEM /\ Nil.key # "user"
  <1>1. /\ Cert("genCa", "genCa") \in PEM /\ Cert("genCa", "genCa") # Nil
        /\ Cert("genCa", "genCa").key # "user"
        /\ Key("genCa") \in PEM /\ Key("genCa") # Nil
        /\ Key("genSrv") \in PEM /\ Key("genSrv") # Nil
        /\ Nil \in PEM /\ Nil.key # "user"
    BY DEF Cert, Key, Nil, PEM, Keys
  <1>2. \A f \in AllFields : /\ fromFile(f) = Nil <=> ~IsSet(f)
                             /\ fromFile(f) \in PEM /\ fromFile(f).key # "user"
    BY FileFacts
  <1>3. /\ CaPEM \in PEM /\ CaPEM.key # "user" /\ CaKeyPEM \in PEM
        /\ CaPEM = Nil <=> ~in.auto /\ ~IsSet("Ca")
    BY <1>1, <1>2 DEF CaPEM, CaKeyPEM, MakesCA, AllFields
  <1>4. in.auto => /\ Cert("genSrv", CaPEM.key) \in PEM /\ Cert("genSrv", CaPEM.key) # Nil
                   /\ Cert("genSrv", CaPEM.key).key # "user"
    <2>1. in.auto => CaPEM.key \in Keys
      BY <1>3 DEF PEM
    <2> QED BY <2>1 DEF Cert, Nil, PEM, Keys
  <1>5. /\ CertPEM \in PEM /\ KeyPEM \in PEM /\ CertPEM.key # "user"
        /\ (CertPEM # Nil /\ KeyPEM # Nil) <=> HasCert
    BY <1>1, <1>2, <1>4 DEF CertPEM, KeyPEM, HasCert, MakesCert, AllFields
  <1>6. /\ ClientCaPEM \in PEM /\ ClientCaPEM.key # "user"
        /\ ClientCaPEM = Nil <=> ~in.auto /\ ~IsSet("Ca") /\ ~IsSet("ClientCa")
    BY <1>2, <1>3 DEF ClientCaPEM, AllFields
  <1>7. BothCert \in PEM /\ BothCert.key # "user"
    BY <1>1, <1>5 DEF BothCert
  <1>8. ClientCertPEM \in PEM /\ ClientCertPEM.key # "user"
    BY <1>2, <1>7 DEF ClientCertPEM, AllFields
  <1> QED BY <1>1, <1>3, <1>5, <1>6, <1>7, <1>8

\* What a pool takes from a PEM was read or generated.
LEMMA PoolFacts ==
    ASSUME NEW p \in PEM, p.key # "user"
    PROVE  /\ p.key \in Known
           /\ CertsFromPEM(p) \subseteq Known
           /\ CertsFromPEM(p) \subseteq Keys
           /\ "system" \notin CertsFromPEM(p)
  BY DEF PEM, Nil, Known, CertsFromPEM, Keys
-----------------------------------------------------------------------------
(* The invariant, step by step.                                            *)

\* A call that is under way is the first.
LEMMA InFirstCall ==
    ASSUME TLSInv, pc # "idle"
    PROVE  results = << >> /\ FirstCall /\ Worked /\ server.set /\ client.set /\ Types
  BY DEF TLSInv, Returned, FirstCall, ConfigsOK

\* What the caller set stays.
LEMMA SameInput ==
    ASSUME UNCHANGED in
    PROVE  /\ UNCHANGED <<CaPEM, CaKeyPEM, CertPEM, KeyPEM, ClientCaPEM, BothCert,
                          ClientCertPEM>>
           /\ (MakesCert' <=> MakesCert) /\ (HasCert' <=> HasCert) /\ (Worked' <=> Worked)
           /\ (HasClientCert' <=> HasClientCert)
           /\ \A f : fromFile(f)' = fromFile(f) /\ (IsSet(f)' <=> IsSet(f))
  <1>1. \A f : fromFile(f)' = fromFile(f) /\ (IsSet(f)' <=> IsSet(f))
    BY DEF fromFile, IsSet
  <1>2. CaPEM' = CaPEM /\ CaKeyPEM' = CaKeyPEM
    BY <1>1 DEF CaPEM, CaKeyPEM, MakesCA
  <1>3. /\ (MakesCert' <=> MakesCert) /\ (HasCert' <=> HasCert) /\ (Worked' <=> Worked)
        /\ (HasClientCert' <=> HasClientCert)
    BY <1>1 DEF MakesCert, HasCert, Worked, HasClientCert
  <1>4. CertPEM' = CertPEM /\ KeyPEM' = KeyPEM /\ ClientCaPEM' = ClientCaPEM
    BY <1>1, <1>2, <1>3 DEF CertPEM, KeyPEM, ClientCaPEM
  <1>5. BothCert' = BothCert
    BY <1>3, <1>4 DEF BothCert
  <1>6. ClientCertPEM' = ClientCertPEM
    BY <1>1, <1>3, <1>5 DEF ClientCertPEM
  <1> QED BY <1>1, <1>2, <1>3, <1>4, <1>5, <1>6

\* The first call returns.
LEMMA FirstResult ==
    ASSUME results = << >>, NEW r \in {"nil", "err"}, Return(r)
    PROVE  /\ results' \in Seq({"nil", "err"}) /\ results' # << >> /\ results'[1] = r
           /\ pc' = "idle"
           /\ \A i \in DOMAIN results' : results'[i] \in {"nil", "err"}
  <1>1. results' = << r >> /\ pc' = "idle"
    BY DEF Return
  <1> QED BY <1>1

\* ... with an error, for a reason.
LEMMA ErrorStep ==
    ASSUME TLSInv, pc # "idle", Return("err"), UNCHANGED <<in, repaired>>, MustFail',
           next' \in DOMAIN Files, pem' \in [Fields -> PEM],
           server' \in Config, client' \in Config, netFailed' \in BOOLEAN,
           server'.set, client'.set, ConfigsKnown'
    PROVE  TLSInv'
  <1>1. results = << >> /\ Worked /\ Types
    BY InFirstCall
  <1>2. /\ results' \in Seq({"nil", "err"}) /\ results' # << >> /\ results'[1] = "err"
        /\ pc' = "idle"
        /\ \A i \in DOMAIN results' : results'[i] \in {"nil", "err"}
    BY <1>1, FirstResult
  <1>3. Types'
    BY <1>1, <1>2 DEF Types, TypeOK
  <1>4. Returned'
    BY <1>1, <1>2, SameInput DEF Returned, FailsExactly, AutoTrusted, ClientsChecked,
       MutualAuth, ClientAuthEnforced, BuiltOk
  <1> QED BY <1>2, <1>3, <1>4 DEF TLSInv

\* A call has not begun.
LEMMA TLSInit == Init => TLSInv
  <1> SUFFICES ASSUME Init PROVE TLSInv
    OBVIOUS
  <1> USE DEF Init
  <1>1. /\ server = [Unset EXCEPT !.set = in.server]
        /\ client = [Unset EXCEPT !.set = in.client]
        /\ in.server \in BOOLEAN /\ in.client \in BOOLEAN
    BY InputFacts
  <1>2. Nil \in PEM /\ UserPEM \in PEM
    BY DEF PEM, UserPEM, Cert, Keys
  <1>3. server \in Config /\ client \in Config
    <2>1. Unset \in Config
      BY <1>2 DEF Unset, Config
    <2> QED BY <1>1, <2>1 DEF Config
  <1>4. /\ server.set = in.server /\ client.set = in.client /\ server.auth = FALSE
        /\ server.cert = Nil /\ client.cert = Nil
        /\ server.roots = {"system"} /\ client.roots = {"system"}
        /\ server.clientCAs = {"system"}
    BY <1>1 DEF Unset
  <1>5. Types
    <2>1. pem \in [Fields -> PEM]
      BY <1>2
    <2>2. results \in Seq({"nil", "err"}) /\ \A i \in DOMAIN results : results[i] \in {"nil", "err"}
      OBVIOUS
    <2>3. next \in DOMAIN Files
      BY FilesFacts
    <2>4. repaired \in BOOLEAN /\ netFailed \in BOOLEAN
      OBVIOUS
    <2> QED BY <1>3, <2>1, <2>2, <2>3, <2>4 DEF Types, TypeOK
  <1>6. ConfigsKnown
    BY <1>4 DEF ConfigsKnown, Known, Nil
  <1>7. FirstCall
    BY <1>4 DEF FirstCall, PEMsOK, ConfigsOK
  <1> QED BY <1>5, <1>6, <1>7 DEF TLSInv

\* A call after the first, or a repair: nothing of what was built is touched.
LEMMA LaterStep ==
    ASSUME TLSInv, results # << >>, [Next]_vars
    PROVE  TLSInv' /\ UNCHANGED <<pem, server, client>>
  <1> USE DEF TLSInv
  <1>1. pc = "idle" /\ (in.given => server.set /\ client.set)
    BY DEF Returned
  <1>2. /\ UNCHANGED <<in, pem, server, client, netFailed, next, pc>>
        /\ repaired' \in BOOLEAN
        /\ results' = results \/ results' = Append(results, "nil")
    <2>1. CASE Begin
      BY <1>1, <2>1 DEF Begin, Return, Types, TypeOK
    <2>2. CASE Repair
      BY <2>2 DEF Repair
    <2>3. CASE Done \/ UNCHANGED vars
      BY <2>3 DEF Done, vars, Types, TypeOK
    <2> QED BY <1>1, <2>1, <2>2, <2>3
        DEF Next, Load, LoadAs, selfCA, selfCAWhen, selfCert, Roots, ServerPair, ClientAuth,
            ClientAuthWith, NoClientAuth, Finish
  <1>3. /\ results' \in Seq({"nil", "err"}) /\ results' # << >> /\ results'[1] = results[1]
        /\ \A i \in DOMAIN results' : results'[i] \in {"nil", "err"}
    BY <1>2 DEF Types
  <1>4. Types' /\ ConfigsKnown'
    BY <1>2, <1>3 DEF Types, TypeOK, ConfigsKnown
  <1>5. FailsExactly'
    <2>1. MustFail' <=> MustFail
      BY <1>2 DEF MustFail, IsSet, Pair
    <2> QED BY <1>2, <1>3, <2>1, SameInput DEF Returned, FailsExactly
  <1>6. AutoTrusted' /\ ClientsChecked'
    <2>1. BuiltOk' <=> BuiltOk
      BY <1>2, <1>3, SameInput DEF BuiltOk
    <2>2. ServerTrusted' <=> ServerTrusted
      BY <1>2 DEF ServerTrusted
    <2>3. AutoTrusted'
      BY <1>2, <2>1, <2>2 DEF Returned, AutoTrusted, IsSet
    <2>4. ClientsChecked'
      BY <1>2, <2>1, <2>2 DEF Returned, ClientsChecked, MutualAuth, ClientAuthEnforced
    <2> QED BY <2>3, <2>4
  <1> QED BY <1>1, <1>2, <1>3, <1>4, <1>5, <1>6 DEF Returned
\* A step inside the first call that does not return.
LEMMA GoOn ==
    ASSUME TLSInv, pc # "idle", NEW step \in {"load", "selfCA", "selfCert", "roots", "pair",
                                              "clientAuth", "finish"},
           Goto(step), UNCHANGED <<in, repaired, netFailed>>,
           next' \in DOMAIN Files, pem' \in [Fields -> PEM],
           server' \in Config, client' \in Config,
           ConfigsKnown', PEMsOK', ConfigsOK'
    PROVE  TLSInv'
  <1>1. results = << >> /\ FirstCall /\ Types
    BY InFirstCall
  <1>2. results' = results /\ pc' = step
    BY DEF Goto
  <1>3. Types'
    BY <1>1, <1>2 DEF Types, TypeOK
  <1>4. FirstCall'
    BY <1>1 DEF FirstCall
  <1> QED BY <1>1, <1>2, <1>3, <1>4 DEF TLSInv

\* The first call begins, or has nothing to do.
LEMMA BeginStep ==
    ASSUME TLSInv, results = << >>, Begin
    PROVE  TLSInv'
  <1> USE DEF TLSInv, FirstCall
  <1>1. /\ pc = "idle" /\ UNCHANGED <<in, repaired, pem, netFailed>>
        /\ server \in Config /\ client \in Config /\ in \in Inputs
        /\ server.set = in.server /\ client.set = in.client /\ ~server.auth
        /\ server.cert = Nil /\ client.cert = Nil /\ client.roots = {"system"}
    BY DEF Begin, ConfigsOK, Types, TypeOK
  <1>2. CASE ~in.given \/ (server.set /\ client.set)
    <2>1. Return("nil") /\ UNCHANGED <<server, client, next>> /\ ~Worked
      BY <1>1, <1>2 DEF Begin, Worked
    <2>2. /\ results' \in Seq({"nil", "err"}) /\ results' # << >> /\ results'[1] = "nil"
          /\ pc' = "idle"
          /\ \A i \in DOMAIN results' : results'[i] \in {"nil", "err"}
      BY <2>1, FirstResult
    <2>3. Types' /\ ConfigsKnown'
      BY <1>1, <2>1, <2>2 DEF Types, TypeOK, ConfigsKnown
    <2>4. Returned'
      BY <1>1, <1>2, <2>1, <2>2, SameInput DEF Returned, FailsExactly, AutoTrusted,
         ClientsChecked, MutualAuth, ClientAuthEnforced, BuiltOk
    <2> QED BY <2>2, <2>3, <2>4
  <1>3. CASE ~(~in.given \/ (server.set /\ client.set))
    <2>1. /\ Goto("load") /\ next' = 1
          /\ server' = [server EXCEPT !.set = TRUE,
                           !.auth = IF server.set THEN @ ELSE in.clientAuth]
          /\ client' = [client EXCEPT !.set = TRUE]
      BY <1>3 DEF Begin
    <2>2. in.clientAuth \in BOOLEAN
      BY <1>1, InputFacts
    <2>3. /\ server' \in Config /\ client' \in Config
          /\ server'.set = TRUE /\ client'.set = TRUE
          /\ server'.auth = IF server.set THEN server.auth ELSE in.clientAuth
          /\ server'.cert = Nil /\ client'.cert = Nil /\ client'.roots = {"system"}
          /\ server'.roots = server.roots /\ server'.clientCAs = server.clientCAs
      BY <1>1, <2>1, <2>2 DEF Config
    <2>4. results' = << >> /\ pc' = "load" /\ next' \in DOMAIN Files
      BY <2>1, FilesFacts DEF Goto
    <2>5. Types'
      BY <1>1, <2>3, <2>4 DEF Types, TypeOK
    <2>6. ConfigsKnown'
      BY <1>1, <2>3 DEF ConfigsKnown
    <2>7. PEMsOK'
      BY <2>1, <2>4 DEF PEMsOK
    <2>8. Worked
      BY <1>1, <1>3 DEF Worked
    <2>9. ConfigsOK'
      BY <1>1, <2>3, <2>4, <2>8, SameInput DEF ConfigsOK
    <2> QED BY <1>1, <2>4, <2>5, <2>6, <2>7, <2>9
  <1> QED BY <1>2, <1>3

\* A file is loaded, or cannot be read.
LEMMA LoadStep ==
    ASSUME TLSInv, Load
    PROVE  TLSInv'
  <1> DEFINE f == Files[next]
             fails == IsSet(f) /\ ~Readable(f)
             last == next = Len(Files)
  <1>1. pc = "load" /\ LoadAs(fromFile(f), fails, last)
    BY DEF Load, LoadAs
  <1>2. /\ results = << >> /\ FirstCall /\ Types /\ ConfigsKnown /\ server.set /\ client.set
    BY <1>1, InFirstCall DEF TLSInv
  <1>3. next \in 1..7 /\ DOMAIN Files = 1..7 /\ Len(Files) = 7 /\ f \in AllFields
        /\ Fields = AllFields
    BY <1>2, FilesFacts DEF Types, TypeOK
  <1>4. in \in Inputs /\ pem \in [Fields -> PEM] /\ server \in Config /\ client \in Config
    BY <1>2 DEF Types, TypeOK
  <1>5. /\ UNCHANGED <<in, repaired, server, client, netFailed>>
        /\ pem' = [pem EXCEPT ![f] = IF fails THEN Nil ELSE fromFile(f)]
    BY <1>1 DEF LoadAs
  <1>6. pem' \in [Fields -> PEM]
    <2>1. fromFile(f) \in PEM /\ Nil \in PEM
      BY <1>3, <1>4, FileFacts, PEMFacts
    <2> QED BY <1>3, <1>4, <1>5, <2>1
  <1>7. ConfigsKnown'
    BY <1>2, <1>5 DEF ConfigsKnown
  <1>8. CASE fails
    <2>1. Return("err") /\ UNCHANGED next
      BY <1>1, <1>8 DEF LoadAs
    <2>2. f \in in.unreadable
      BY <1>8 DEF Readable
    <2>3. MustFail'
      BY <1>5, <2>2 DEF MustFail
    <2>4. netFailed' \in BOOLEAN
      BY <1>2, <1>5 DEF Types, TypeOK
    <2> QED BY <1>1, <1>2, <1>3, <1>4, <1>5, <1>6, <1>7, <2>1, <2>3, <2>4, ErrorStep
  <1>9. CASE ~fails
    <2>1. /\ next' = IF last THEN 1 ELSE next + 1
          /\ Goto(IF last THEN "selfCA" ELSE "load")
      BY <1>1, <1>9 DEF LoadAs
    <2>2. f \notin in.unreadable
      BY <1>2, <1>4, <1>9, InputFacts DEF Readable, FirstCall
    <2>3. pem'[f] = fromFile(f) /\ \A g \in AllFields : g # f => pem'[g] = pem[g]
      BY <1>3, <1>4, <1>5, <1>9
    <2>4. \A j \in 1..next : pem'[Files[j]] = fromFile(Files[j]) /\ Files[j] \notin in.unreadable
      <3> SUFFICES ASSUME NEW j \in 1..next
                   PROVE  pem'[Files[j]] = fromFile(Files[j]) /\ Files[j] \notin in.unreadable
        OBVIOUS
      <3>1. CASE Files[j] = f
        BY <2>2, <2>3, <3>1
      <3>2. CASE Files[j] # f
        <4>1. j \in 1..(next - 1) /\ j \in 1..7
          BY <1>3, <3>2
        <4>2. Loaded(Files[j])
          BY <1>1, <1>2, <4>1 DEF FirstCall, PEMsOK
        <4>3. Files[j] \in AllFields
          BY <4>1, FilesFacts
        <4> QED BY <2>3, <3>2, <4>2, <4>3 DEF Loaded
      <3> QED BY <3>1, <3>2
    <2>5. next' \in DOMAIN Files
      BY <1>3, <2>1
    <2>6. ConfigsOK'
      BY <1>1, <1>2, <1>5, <2>1, SameInput DEF FirstCall, ConfigsOK, Goto
    <2>7. PEMsOK'
      <3>1. CASE last
        <4>1. pc' = "selfCA" /\ next = 7
          BY <1>3, <2>1, <3>1 DEF Goto
        <4>2. \A g \in AllFields : pem'[g] = fromFile(g) /\ g \notin in.unreadable
          BY <2>4, <4>1, FilesFacts
        <4>3. in.unreadable = {}
          BY <1>4, <4>2, InputFacts
        <4> QED BY <1>5, <4>1, <4>2, <4>3, SameInput DEF PEMsOK, AllFields
      <3>2. CASE ~last
        <4>1. pc' = "load" /\ next' - 1 = next
          BY <1>3, <2>1, <3>2 DEF Goto
        <4>2. \A j \in 1..(next' - 1) : Loaded(Files[j])'
          BY <1>5, <2>4, <4>1, SameInput DEF Loaded, Files
        <4> QED BY <4>1, <4>2 DEF PEMsOK
      <3> QED BY <3>1, <3>2
    <2>8. CASE last
      BY <1>1, <1>4, <1>5, <1>6, <1>7, <2>1, <2>5, <2>6, <2>7, <2>8, GoOn
    <2>9. CASE ~last
      BY <1>1, <1>4, <1>5, <1>6, <1>7, <2>1, <2>5, <2>6, <2>7, <2>9, GoOn
    <2> QED BY <2>8, <2>9
  <1> QED BY <1>8, <1>9
\* AutoTLS makes a CA unless both its files were named.
LEMMA SelfCAStep ==
    ASSUME TLSInv, selfCA
    PROVE  TLSInv'
  <1> DEFINE generate == in.auto /\ (pem["Ca"] = Nil \/ pem["CaKey"] = Nil)
  <1>1. pc = "selfCA" /\ selfCAWhen(generate)
    BY DEF selfCA, selfCAWhen
  <1>2. results = << >> /\ FirstCall /\ Types /\ ConfigsKnown
    BY <1>1, InFirstCall DEF TLSInv
  <1>3. /\ in \in Inputs /\ pem \in [AllFields -> PEM] /\ Fields = AllFields
        /\ server \in Config /\ client \in Config /\ next \in DOMAIN Files
    BY <1>2, FilesFacts DEF Types, TypeOK
  <1>4. /\ UNCHANGED <<in, repaired, next, server, client, netFailed>>
        /\ pem' = IF ~generate THEN pem
                  ELSE [pem EXCEPT !["Ca"] = Cert("genCa", "genCa"), !["CaKey"] = Key("genCa")]
        /\ Goto(IF in.auto THEN "selfCert" ELSE "roots")
    BY <1>1 DEF selfCAWhen
  <1>5. /\ in.unreadable = {}
        /\ \A f \in AllFields : pem[f] = fromFile(f)
    BY <1>1, <1>2 DEF FirstCall, PEMsOK, AllFields
  <1>6. generate <=> MakesCA
    <2>1. (pem["Ca"] = Nil <=> ~IsSet("Ca")) /\ (pem["CaKey"] = Nil <=> ~IsSet("CaKey"))
      BY <1>3, <1>5, FileFacts DEF AllFields
    <2> QED BY <2>1 DEF MakesCA
  <1> HIDE DEF generate
  <1>7. /\ pem' \in [AllFields -> PEM] /\ pem'["Ca"] = CaPEM /\ pem'["CaKey"] = CaKeyPEM
        /\ \A f \in AllFields \ {"Ca", "CaKey"} : pem'[f] = fromFile(f)
    <2>1. CASE generate
      <3>1. CaPEM = Cert("genCa", "genCa") /\ CaKeyPEM = Key("genCa")
        BY <1>6, <2>1 DEF CaPEM, CaKeyPEM
      <3>2. pem' = [pem EXCEPT !["Ca"] = CaPEM, !["CaKey"] = CaKeyPEM]
        BY <1>4, <2>1, <3>1
      <3>3. CaPEM \in PEM /\ CaKeyPEM \in PEM
        BY <1>3, PEMFacts
      <3> QED BY <1>3, <1>5, <3>2, <3>3 DEF AllFields
    <2>2. CASE ~generate
      <3>1. CaPEM = fromFile("Ca") /\ CaKeyPEM = fromFile("CaKey") /\ pem' = pem
        BY <1>4, <1>6, <2>2 DEF CaPEM, CaKeyPEM
      <3> QED BY <1>3, <1>5, <3>1 DEF AllFields
    <2> QED BY <2>1, <2>2
  <1>8. ConfigsKnown' /\ ConfigsOK'
    BY <1>1, <1>2, <1>4, SameInput DEF FirstCall, ConfigsKnown, ConfigsOK, Goto
  <1>9. CASE in.auto
    <2>1. pc' = "selfCert" /\ Goto("selfCert")
      BY <1>4, <1>9 DEF Goto
    <2>2. PEMsOK'
      BY <1>4, <1>5, <1>7, <1>9, <2>1, SameInput DEF PEMsOK, AllFields
    <2> QED BY <1>1, <1>3, <1>4, <1>7, <1>8, <2>1, <2>2, GoOn
  <1>10. CASE ~in.auto
    <2>1. pc' = "roots" /\ Goto("roots")
      BY <1>4, <1>10 DEF Goto
    <2>2. ~MakesCert /\ CertPEM = fromFile("Cert") /\ KeyPEM = fromFile("Key")
      BY <1>10 DEF MakesCert, CertPEM, KeyPEM
    <2>3. PEMsOK'
      BY <1>4, <1>5, <1>7, <1>10, <2>1, <2>2, SameInput DEF PEMsOK, AllFields
    <2> QED BY <1>1, <1>3, <1>4, <1>7, <1>8, <2>1, <2>3, GoOn
  <1> QED BY <1>9, <1>10

\* ... and a server certificate, unless its two files were named.
LEMMA SelfCertStep ==
    ASSUME TLSInv, selfCert
    PROVE  TLSInv'
  <1>1. pc = "selfCert" /\ UNCHANGED <<in, repaired, next, server, client>>
    BY DEF selfCert
  <1>2. results = << >> /\ FirstCall /\ Types /\ ConfigsKnown /\ server.set /\ client.set
    BY <1>1, InFirstCall DEF TLSInv
  <1>3. /\ in \in Inputs /\ pem \in [AllFields -> PEM] /\ Fields = AllFields
        /\ server \in Config /\ client \in Config /\ next \in DOMAIN Files
    BY <1>2, FilesFacts DEF Types, TypeOK
  <1>4. /\ in.unreadable = {} /\ in.auto
        /\ \A f \in {"ClientCa", "ClientKey", "ClientCert"} : pem[f] = fromFile(f)
        /\ pem["Cert"] = fromFile("Cert") /\ pem["Key"] = fromFile("Key")
        /\ pem["Ca"] = CaPEM /\ pem["CaKey"] = CaKeyPEM
    BY <1>1, <1>2 DEF FirstCall, PEMsOK
  <1>5. (pem["Cert"] = Nil \/ pem["Key"] = Nil) <=> MakesCert
    BY <1>3, <1>4, FileFacts DEF AllFields, MakesCert
  <1>6. ConfigsKnown'
    BY <1>1, <1>2 DEF ConfigsKnown
  <1>7. ASSUME Goto("roots") PROVE ConfigsOK'
    BY <1>1, <1>2, <1>7, SameInput DEF FirstCall, ConfigsOK, Goto
  <1>8. CASE pem["Cert"] # Nil /\ pem["Key"] # Nil
    <2>1. Goto("roots") /\ UNCHANGED <<pem, netFailed>>
      BY <1>8 DEF selfCert
    <2>2. ~MakesCert /\ CertPEM = fromFile("Cert") /\ KeyPEM = fromFile("Key")
      BY <1>5, <1>8 DEF CertPEM, KeyPEM
    <2>3. PEMsOK'
      BY <1>1, <1>4, <2>1, <2>2, SameInput DEF PEMsOK, Goto
    <2> QED BY <1>1, <1>3, <1>6, <1>7, <2>1, <2>3, GoOn
  <1>9. CASE MakesCert /\ pem' = pem /\ Return("err") /\ netFailed' = TRUE
    <2>1. MustFail'
      BY <1>9 DEF MustFail
    <2>2. netFailed' \in BOOLEAN
      BY <1>9
    <2> QED BY <1>1, <1>2, <1>3, <1>6, <1>9, <2>1, <2>2, ErrorStep
  <1>10. CASE /\ MakesCert /\ X509KeyPair(CaPEM, CaKeyPEM) /\ Goto("roots")
              /\ pem' = [pem EXCEPT !["Cert"] = Cert("genSrv", pem["Ca"].key),
                                    !["Key"] = Key("genSrv")]
              /\ UNCHANGED netFailed
    <2>1. CertPEM = Cert("genSrv", pem["Ca"].key) /\ KeyPEM = Key("genSrv")
      BY <1>4, <1>10 DEF CertPEM, KeyPEM
    <2>2. pem' = [pem EXCEPT !["Cert"] = CertPEM, !["Key"] = KeyPEM]
      BY <1>10, <2>1
    <2>3. CertPEM \in PEM /\ KeyPEM \in PEM
      BY <1>3, PEMFacts
    <2>4. /\ pem' \in [AllFields -> PEM] /\ pem'["Cert"] = CertPEM /\ pem'["Key"] = KeyPEM
          /\ pem'["Ca"] = CaPEM /\ pem'["CaKey"] = CaKeyPEM
          /\ \A f \in {"ClientCa", "ClientKey", "ClientCert"} : pem'[f] = fromFile(f)
      BY <1>3, <1>4, <2>2, <2>3 DEF AllFields
    <2>5. PEMsOK'
      <3>1. X509KeyPair(CaPEM, CaKeyPEM)'
        BY <1>1, <1>10, SameInput DEF X509KeyPair
      <3> QED BY <1>1, <1>4, <1>10, <2>4, <3>1, SameInput DEF PEMsOK, Goto
    <2> QED BY <1>1, <1>3, <1>6, <1>7, <1>10, <2>4, <2>5, GoOn
  <1>11. CASE /\ MakesCert /\ ~X509KeyPair(CaPEM, CaKeyPEM) /\ Return("err")
              /\ UNCHANGED <<pem, netFailed>>
    <2>1. ~MakesCA
      BY <1>11 DEF CaPEM, CaKeyPEM, X509KeyPair, Cert, Key
    <2>2. IsSet("Ca") /\ IsSet("CaKey") /\ ~Pair("Ca", "CaKey")
      BY <1>3, <1>4, <1>11, <2>1, PairFacts DEF MakesCA, CaPEM, CaKeyPEM
    <2>3. MustFail
      BY <1>4, <1>11, <2>2 DEF MustFail, MakesCert
    <2>4. MustFail'
      BY <1>1, <1>11, <2>3 DEF MustFail, IsSet, Pair
    <2>5. netFailed' \in BOOLEAN
      BY <1>2, <1>11 DEF Types, TypeOK
    <2> QED BY <1>1, <1>2, <1>3, <1>6, <1>11, <2>4, <2>5, ErrorStep
  <1> QED BY <1>4, <1>5, <1>8, <1>9, <1>10, <1>11 DEF selfCert

\* The CA joins the pools.
LEMMA RootsStep ==
    ASSUME TLSInv, Roots
    PROVE  TLSInv'
  <1>1. pc = "roots" /\ Goto("pair") /\ UNCHANGED <<in, repaired, next, pem, netFailed>>
    BY DEF Roots
  <1>2. results = << >> /\ FirstCall /\ Types /\ ConfigsKnown /\ server.set /\ client.set
    BY <1>1, InFirstCall DEF TLSInv
  <1>3. /\ in \in Inputs /\ pem \in [Fields -> PEM] /\ next \in DOMAIN Files
        /\ server \in Config /\ client \in Config
    BY <1>2 DEF Types, TypeOK
  <1>4. pem["Ca"] = CaPEM /\ CaPEM \in PEM /\ CaPEM.key # "user" /\ PEMsOK /\ ConfigsOK
    BY <1>1, <1>2, <1>3, PEMFacts DEF FirstCall, PEMsOK
  <1>5. PEMsOK'
    <2>1. X509KeyPair(CaPEM, CaKeyPEM)' <=> X509KeyPair(CaPEM, CaKeyPEM)
      BY <1>1, SameInput DEF X509KeyPair
    <2> QED BY <1>1, <1>4, <2>1, SameInput DEF PEMsOK, Goto
  <1>6. CertsFromPEM(CaPEM)' = CertsFromPEM(CaPEM)
    BY <1>1, SameInput DEF CertsFromPEM
  <1>7. CASE UNCHANGED <<server, client>> /\ CaPEM = Nil
    <2>1. CertsFromPEM(CaPEM) = {}
      BY <1>7 DEF CertsFromPEM, Nil
    <2>2. ConfigsKnown' /\ ConfigsOK'
      BY <1>1, <1>2, <1>4, <1>6, <1>7, <2>1, SameInput DEF ConfigsKnown, ConfigsOK, Goto
    <2> QED BY <1>1, <1>3, <1>5, <1>7, <2>2, GoOn
  <1>8. ASSUME NEW base \in {{"system"}, {}},
               server' = [server EXCEPT !.roots = base \union CertsFromPEM(CaPEM)],
               client' = [client EXCEPT !.roots = base \union CertsFromPEM(CaPEM)]
        PROVE  TLSInv'
    <2>1. /\ CertsFromPEM(CaPEM) \subseteq Known
          /\ CertsFromPEM(CaPEM) \subseteq Keys
      BY <1>4, PoolFacts
    <2>2. /\ server' \in Config /\ client' \in Config
          /\ server'.roots = base \union CertsFromPEM(CaPEM)
          /\ client'.roots = base \union CertsFromPEM(CaPEM)
          /\ server'.set = server.set /\ client'.set = client.set
          /\ server'.auth = server.auth /\ server'.cert = server.cert
          /\ client'.cert = client.cert /\ server'.clientCAs = server.clientCAs
      BY <1>3, <1>8, <2>1 DEF Config
    <2>3. base \subseteq Known /\ base \subseteq {"system"}
      BY DEF Known
    <2>4. ConfigsKnown'
      BY <1>2, <2>1, <2>2, <2>3 DEF ConfigsKnown
    <2>5. ConfigsOK'
      BY <1>1, <1>2, <1>4, <1>6, <2>2, <2>3, SameInput DEF ConfigsOK, Goto
    <2> QED BY <1>1, <1>3, <1>5, <2>2, <2>4, <2>5, GoOn
  <1> QED BY <1>4, <1>7, <1>8 DEF Roots
\* The PEMs and what was derived from them stay.
LEMMA SamePEMs ==
    ASSUME TLSInv, pc \in {"pair", "clientAuth"}, UNCHANGED <<in, pem>>,
           pc' \in {"clientAuth", "finish"}
    PROVE  /\ PEMsOK'
           /\ UNCHANGED <<CertsFromPEM(CaPEM), CertsFromPEM(ClientCaPEM)>>
           /\ X509KeyPair(CertPEM, KeyPEM)' <=> X509KeyPair(CertPEM, KeyPEM)
           /\ X509KeyPair(fromFile("ClientCert"), fromFile("ClientKey"))'
                <=> X509KeyPair(fromFile("ClientCert"), fromFile("ClientKey"))
  <1>1. PEMsOK
    BY InFirstCall DEF FirstCall
  <1>2. X509KeyPair(CaPEM, CaKeyPEM)' <=> X509KeyPair(CaPEM, CaKeyPEM)
    BY SameInput DEF X509KeyPair
  <1>3. PEMsOK'
    BY <1>1, <1>2, SameInput DEF PEMsOK
  <1>4. UNCHANGED <<CertsFromPEM(CaPEM), CertsFromPEM(ClientCaPEM)>>
    BY SameInput DEF CertsFromPEM
  <1> QED BY <1>3, <1>4, SameInput DEF X509KeyPair

\* The server's certificate is set for both sides, if there is one and its key
\* fits.
LEMMA ServerPairStep ==
    ASSUME TLSInv, ServerPair
    PROVE  TLSInv'
  <1>1. pc = "pair" /\ UNCHANGED <<in, repaired, next, pem, netFailed>>
    BY DEF ServerPair
  <1>2. results = << >> /\ FirstCall /\ Types /\ ConfigsKnown /\ server.set /\ client.set
    BY <1>1, InFirstCall DEF TLSInv
  <1>3. /\ in \in Inputs /\ pem \in [Fields -> PEM] /\ next \in DOMAIN Files
        /\ server \in Config /\ client \in Config /\ netFailed \in BOOLEAN
    BY <1>2 DEF Types, TypeOK
  <1>4. /\ pem["Cert"] = CertPEM /\ pem["Key"] = KeyPEM
        /\ ConfigsOK
        /\ CertPEM \in PEM /\ CertPEM.key # "user"
        /\ (CertPEM # Nil /\ KeyPEM # Nil) <=> HasCert
    BY <1>1, <1>2, <1>3, PEMFacts DEF FirstCall, PEMsOK
  <1>5. CASE ~HasCert
    <2>1. Goto("clientAuth") /\ UNCHANGED <<server, client>>
      BY <1>4, <1>5 DEF ServerPair
    <2>2. BothCert = Nil
      BY <1>5 DEF BothCert
    <2>3. ConfigsKnown'
      BY <1>2, <2>1 DEF ConfigsKnown
    <2>4. pc' = "clientAuth"
      BY <2>1 DEF Goto
    <2>5. PEMsOK' /\ CertsFromPEM(CaPEM)' = CertsFromPEM(CaPEM)
      BY <1>1, <2>4, SamePEMs
    <2>6. ConfigsOK'
      BY <1>1, <1>4, <1>5, <2>1, <2>2, <2>4, <2>5, SameInput DEF ConfigsOK
    <2> QED BY <1>1, <1>3, <2>1, <2>3, <2>5, <2>6, GoOn
  <1>6. CASE HasCert /\ X509KeyPair(CertPEM, KeyPEM)
    <2>1. /\ server' = [server EXCEPT !.cert = CertPEM]
          /\ client' = [client EXCEPT !.cert = CertPEM]
          /\ Goto("clientAuth")
      BY <1>4, <1>6 DEF ServerPair
    <2>2. BothCert = CertPEM
      BY <1>6 DEF BothCert
    <2>3. /\ server' \in Config /\ client' \in Config
          /\ server'.cert = CertPEM /\ client'.cert = CertPEM
          /\ server'.set = server.set /\ client'.set = client.set
          /\ server'.auth = server.auth /\ server'.roots = server.roots
          /\ client'.roots = client.roots /\ server'.clientCAs = server.clientCAs
      BY <1>3, <1>4, <2>1 DEF Config
    <2>4. ConfigsKnown'
      <3>1. CertPEM.key \in Known
        BY <1>4, PoolFacts
      <3> QED BY <1>2, <2>3, <3>1 DEF ConfigsKnown
    <2>5. pc' = "clientAuth"
      BY <2>1 DEF Goto
    <2>6. /\ PEMsOK' /\ CertsFromPEM(CaPEM)' = CertsFromPEM(CaPEM)
          /\ X509KeyPair(CertPEM, KeyPEM)'
      BY <1>1, <1>6, <2>5, SamePEMs
    <2>7. ConfigsOK'
      BY <1>1, <1>2, <1>4, <2>2, <2>3, <2>5, <2>6, SameInput DEF ConfigsOK
    <2> QED BY <1>1, <1>3, <2>1, <2>3, <2>4, <2>6, <2>7, GoOn
  <1>7. CASE HasCert /\ ~X509KeyPair(CertPEM, KeyPEM)
    <2>1. Return("err") /\ UNCHANGED <<server, client>>
      BY <1>4, <1>7 DEF ServerPair
    <2>2. ~MakesCert
      BY <1>7 DEF CertPEM, KeyPEM, X509KeyPair, Cert, Key
    <2>3. IsSet("Cert") /\ IsSet("Key") /\ ~Pair("Cert", "Key")
      BY <1>3, <1>7, <2>2, PairFacts DEF HasCert, CertPEM, KeyPEM
    <2>4. MustFail'
      BY <1>1, <2>3 DEF MustFail, IsSet, Pair
    <2>5. ConfigsKnown'
      BY <1>2, <2>1 DEF ConfigsKnown
    <2> QED BY <1>1, <1>2, <1>3, <2>1, <2>4, <2>5, ErrorStep
  <1> QED BY <1>5, <1>6, <1>7

\* Client authentication: a pool to check clients against, and the client's own
\* certificate.
LEMMA ClientAuthStep ==
    ASSUME TLSInv, ClientAuth
    PROVE  TLSInv'
  <1>1. /\ pc = "clientAuth" /\ in.clientAuth /\ UNCHANGED <<in, repaired, next, pem, netFailed>>
        /\ ClientAuthWith(CertsFromPEM(ClientCA), ClientCA = Nil)
    BY DEF ClientAuth, ClientAuthWith
  <1>2. results = << >> /\ FirstCall /\ Types /\ ConfigsKnown /\ server.set /\ client.set
    BY <1>1, InFirstCall DEF TLSInv
  <1>3. /\ in \in Inputs /\ pem \in [Fields -> PEM] /\ next \in DOMAIN Files
        /\ server \in Config /\ client \in Config /\ netFailed \in BOOLEAN
    BY <1>2 DEF Types, TypeOK
  <1>4. /\ pem["ClientCa"] = fromFile("ClientCa") /\ pem["Ca"] = CaPEM
        /\ pem["ClientCert"] = fromFile("ClientCert") /\ pem["ClientKey"] = fromFile("ClientKey")
        /\ ConfigsOK
    BY <1>1, <1>2 DEF FirstCall, PEMsOK
  <1>5. /\ fromFile("ClientCa") = Nil <=> ~IsSet("ClientCa")
        /\ fromFile("ClientCert") = Nil <=> ~IsSet("ClientCert")
        /\ fromFile("ClientKey") = Nil <=> ~IsSet("ClientKey")
        /\ fromFile("ClientCert") \in PEM /\ fromFile("ClientCert").key # "user"
    BY <1>3, FileFacts DEF AllFields
  <1>6. ClientCA = ClientCaPEM
    BY <1>4, <1>5 DEF ClientCA, ClientCaPEM
  <1>7. /\ ClientCaPEM \in PEM /\ ClientCaPEM.key # "user"
        /\ ClientCaPEM = Nil <=> ~in.auto /\ ~IsSet("Ca") /\ ~IsSet("ClientCa")
    BY <1>3, PEMFacts
  <1>8. CASE ClientCaPEM = Nil
    <2>1. Return("err") /\ UNCHANGED <<server, client>>
      BY <1>1, <1>6, <1>8 DEF ClientAuthWith
    <2>2. MustFail'
      BY <1>1, <1>7, <1>8 DEF MustFail, IsSet
    <2>3. ConfigsKnown'
      BY <1>2, <2>1 DEF ConfigsKnown
    <2> QED BY <1>1, <1>2, <1>3, <2>1, <2>2, <2>3, ErrorStep
  <1>9. CASE ClientCaPEM # Nil
    <2>1. server' = [server EXCEPT !.clientCAs = CertsFromPEM(ClientCaPEM)]
      BY <1>1, <1>6, <1>9 DEF ClientAuthWith
    <2>2. /\ CertsFromPEM(ClientCaPEM) \subseteq Known
          /\ CertsFromPEM(ClientCaPEM) \subseteq Keys
      BY <1>7, PoolFacts
    <2>3. /\ server' \in Config /\ server'.clientCAs = CertsFromPEM(ClientCaPEM)
          /\ server'.set = server.set /\ server'.auth = server.auth
          /\ server'.roots = server.roots /\ server'.cert = server.cert
      BY <1>3, <2>1, <2>2 DEF Config
    <2>4. CASE ~HasClientCert
      <3>1. Goto("finish") /\ UNCHANGED client
        BY <1>1, <1>4, <1>5, <1>6, <1>9, <2>4 DEF ClientAuthWith, HasClientCert
      <3>2. pc' = "finish" /\ ClientCertPEM = BothCert
        BY <2>4, <3>1 DEF Goto, ClientCertPEM
      <3>3. /\ PEMsOK' /\ CertsFromPEM(CaPEM)' = CertsFromPEM(CaPEM)
            /\ CertsFromPEM(ClientCaPEM)' = CertsFromPEM(ClientCaPEM)
            /\ X509KeyPair(CertPEM, KeyPEM)' <=> X509KeyPair(CertPEM, KeyPEM)
        BY <1>1, <3>2, SamePEMs
      <3>4. ConfigsKnown'
        BY <1>2, <2>2, <2>3, <3>1 DEF ConfigsKnown
      <3>5. ConfigsOK'
        BY <1>1, <1>2, <1>4, <1>9, <2>3, <2>4, <3>1, <3>2, <3>3, SameInput DEF ConfigsOK
      <3> QED BY <1>1, <1>3, <2>3, <3>1, <3>3, <3>4, <3>5, GoOn
    <2>5. CASE HasClientCert /\ X509KeyPair(fromFile("ClientCert"), fromFile("ClientKey"))
      <3>1. /\ client' = [client EXCEPT !.cert = fromFile("ClientCert")]
            /\ Goto("finish")
        BY <1>1, <1>4, <1>5, <1>6, <1>9, <2>5 DEF ClientAuthWith, HasClientCert
      <3>2. pc' = "finish" /\ ClientCertPEM = fromFile("ClientCert")
        BY <2>5, <3>1 DEF Goto, ClientCertPEM
      <3>3. /\ client' \in Config /\ client'.cert = ClientCertPEM
            /\ client'.set = client.set /\ client'.roots = client.roots
        BY <1>3, <1>5, <3>1, <3>2 DEF Config
      <3>4. /\ PEMsOK' /\ CertsFromPEM(CaPEM)' = CertsFromPEM(CaPEM)
            /\ CertsFromPEM(ClientCaPEM)' = CertsFromPEM(ClientCaPEM)
            /\ X509KeyPair(CertPEM, KeyPEM)' <=> X509KeyPair(CertPEM, KeyPEM)
            /\ X509KeyPair(fromFile("ClientCert"), fromFile("ClientKey"))'
        BY <1>1, <2>5, <3>2, SamePEMs
      <3>5. ConfigsKnown'
        <4>1. fromFile("ClientCert").key \in Known
          BY <1>5, PoolFacts
        <4> QED BY <1>2, <2>2, <2>3, <3>2, <3>3, <4>1 DEF ConfigsKnown
      <3>6. ConfigsOK'
        BY <1>1, <1>2, <1>4, <1>9, <2>3, <3>2, <3>3, <3>4, SameInput DEF ConfigsOK
      <3> QED BY <1>1, <1>3, <2>3, <3>1, <3>3, <3>4, <3>5, <3>6, GoOn
    <2>6. CASE HasClientCert /\ ~X509KeyPair(fromFile("ClientCert"), fromFile("ClientKey"))
      <3>1. Return("err") /\ UNCHANGED client
        BY <1>1, <1>4, <1>5, <1>6, <1>9, <2>6 DEF ClientAuthWith, HasClientCert
      <3>2. MustFail'
        BY <1>1, <1>3, <2>6, PairFacts DEF MustFail, HasClientCert, IsSet, Pair
      <3>3. ConfigsKnown'
        BY <1>2, <2>2, <2>3, <3>1 DEF ConfigsKnown
      <3> QED BY <1>1, <1>2, <1>3, <2>3, <3>1, <3>2, <3>3, ErrorStep
    <2> QED BY <2>4, <2>5, <2>6
  <1> QED BY <1>8, <1>9

\* No client authentication was asked for.
LEMMA NoClientAuthStep ==
    ASSUME TLSInv, NoClientAuth
    PROVE  TLSInv'
  <1>1. /\ pc = "clientAuth" /\ ~in.clientAuth /\ Goto("finish")
        /\ UNCHANGED <<in, repaired, next, pem, server, client, netFailed>>
    BY DEF NoClientAuth
  <1>2. FirstCall /\ Types /\ ConfigsKnown
    BY <1>1, InFirstCall DEF TLSInv
  <1>3. pc' = "finish" /\ ~HasClientCert /\ ClientCertPEM = BothCert
    BY <1>1 DEF Goto, HasClientCert, ClientCertPEM
  <1>4. /\ PEMsOK' /\ CertsFromPEM(CaPEM)' = CertsFromPEM(CaPEM)
        /\ X509KeyPair(CertPEM, KeyPEM)' <=> X509KeyPair(CertPEM, KeyPEM)
    BY <1>1, <1>3, SamePEMs
  <1>5. ConfigsKnown' /\ ConfigsOK'
    BY <1>1, <1>2, <1>3, <1>4, SameInput DEF FirstCall, ConfigsKnown, ConfigsOK
  <1> QED BY <1>1, <1>2, <1>4, <1>5, GoOn DEF Types, TypeOK
\* When a call reaches its end, there was nothing to refuse.
LEMMA NothingToRefuse ==
    ASSUME TLSInv, pc = "finish"
    PROVE  ~MustFail
  <1>1. FirstCall /\ in \in Inputs
    BY InFirstCall DEF Types
  <1>2. /\ in.unreadable = {} /\ ~netFailed
        /\ MakesCert => X509KeyPair(CaPEM, CaKeyPEM)
        /\ HasCert => X509KeyPair(CertPEM, KeyPEM)
        /\ HasClientCert => X509KeyPair(fromFile("ClientCert"), fromFile("ClientKey"))
        /\ in.clientAuth => ClientCaPEM # Nil
    BY <1>1 DEF FirstCall, PEMsOK, ConfigsOK
  <1>3. ASSUME in.auto, ~(IsSet("Cert") /\ IsSet("Key")), IsSet("Ca"), IsSet("CaKey")
        PROVE  Pair("Ca", "CaKey")
    <2>1. MakesCert /\ CaPEM = fromFile("Ca") /\ CaKeyPEM = fromFile("CaKey")
      BY <1>3 DEF MakesCert, MakesCA, CaPEM, CaKeyPEM
    <2> QED BY <1>1, <1>2, <2>1, PairFacts
  <1>4. ASSUME IsSet("Cert"), IsSet("Key") PROVE Pair("Cert", "Key")
    <2>1. HasCert /\ CertPEM = fromFile("Cert") /\ KeyPEM = fromFile("Key")
      BY <1>4 DEF HasCert, MakesCert, CertPEM, KeyPEM
    <2> QED BY <1>1, <1>2, <2>1, PairFacts
  <1>5. ASSUME in.clientAuth, IsSet("ClientCert"), IsSet("ClientKey")
        PROVE  Pair("ClientCert", "ClientKey")
    BY <1>1, <1>2, <1>5, PairFacts DEF HasClientCert
  <1>6. ~(in.clientAuth /\ ~in.auto /\ ~IsSet("Ca") /\ ~IsSet("ClientCa"))
    BY <1>1, <1>2, PEMFacts
  <1> QED BY <1>2, <1>3, <1>4, <1>5, <1>6 DEF MustFail

\* The configs a call ends with: AutoTLS is trusted, client certificates are
\* checked against the right pool and pass.
LEMMA BuiltFacts ==
    ASSUME TLSInv, pc = "finish"
    PROVE  /\ in.auto => \/ ServerTrusted
                         \/ IsSet("Cert") /\ IsSet("Key")
                            /\ ~(in.file["Ca"] = "good" /\ IsSet("CaKey"))
           /\ (/\ in.clientAuth /\ ServerTrusted
               /\ LET cf == {in.file["ClientCa"], in.file["ClientKey"], in.file["ClientCert"]}
                  IN  cf = {"good"} \/ cf = {"unset"})
              => client.cert # Nil /\ client.cert.signer \in server.clientCAs
           /\ in.clientAuth => "system" \notin server.clientCAs /\ (server.auth \/ in.server)
  <1>1. FirstCall /\ in \in Inputs
    BY InFirstCall DEF Types
  <1>2. /\ server.cert = BothCert /\ client.cert = ClientCertPEM
        /\ MakesCert => X509KeyPair(CaPEM, CaKeyPEM)
        /\ HasCert => X509KeyPair(CertPEM, KeyPEM)
        /\ CertsFromPEM(CaPEM) \subseteq client.roots
        /\ client.roots \subseteq {"system"} \union CertsFromPEM(CaPEM)
        /\ in.clientAuth => /\ server.clientCAs = CertsFromPEM(ClientCaPEM)
                            /\ server.auth \/ in.server
    BY <1>1 DEF FirstCall, PEMsOK, ConfigsOK
  <1>3. ASSUME in.auto, ~ServerTrusted
        PROVE  IsSet("Cert") /\ IsSet("Key") /\ ~(in.file["Ca"] = "good" /\ IsSet("CaKey"))
    <2>1. CASE MakesCert
      <3>1. server.cert = Cert("genSrv", CaPEM.key)
        BY <1>2, <2>1 DEF BothCert, HasCert, CertPEM
      <3>2. CaPEM.key \in client.roots
        BY <1>2, <2>1 DEF X509KeyPair, CertsFromPEM
      <3>3. ServerTrusted
        BY <3>1, <3>2 DEF ServerTrusted, Cert, Nil
      <3> QED BY <1>3, <3>3
    <2>2. CASE ~MakesCert
      <3>1. IsSet("Cert") /\ IsSet("Key") /\ HasCert /\ CertPEM = fromFile("Cert")
            /\ KeyPEM = fromFile("Key")
        BY <1>3, <2>2 DEF MakesCert, HasCert, CertPEM, KeyPEM
      <3>2. Pair("Cert", "Key")
        BY <1>1, <1>2, <3>1, PairFacts
      <3>3. Good["Cert"] = Cert("srv", "ca") /\ Good["Ca"] = Cert("ca", "ca")
        BY DEF Good
      <3>4. server.cert = Cert("srv", "ca")
        BY <1>2, <3>1, <3>2, <3>3 DEF BothCert, fromFile, Pair
      <3>5. ASSUME in.file["Ca"] = "good", IsSet("CaKey") PROVE FALSE
        <4>1. CaPEM = Cert("ca", "ca")
          BY <3>3, <3>5 DEF CaPEM, MakesCA, fromFile, IsSet
        <4>2. "ca" \in client.roots
          BY <1>2, <4>1 DEF CertsFromPEM, Cert
        <4> QED BY <1>3, <3>4, <4>2 DEF ServerTrusted, Cert, Nil
      <3> QED BY <3>1, <3>5
    <2> QED BY <2>1, <2>2
  <1>4. ASSUME in.clientAuth, in.file["ClientCa"] = "good", in.file["ClientKey"] = "good",
               in.file["ClientCert"] = "good"
        PROVE  client.cert # Nil /\ client.cert.signer \in server.clientCAs
    <2>1. Good["ClientCert"] = Cert("cli", "cca") /\ Good["ClientCa"] = Cert("cca", "cca")
      BY DEF Good
    <2>2. client.cert = Cert("cli", "cca") /\ ClientCaPEM = Cert("cca", "cca")
      BY <1>2, <1>4, <2>1 DEF ClientCertPEM, HasClientCert, ClientCaPEM, fromFile, IsSet
    <2>3. server.clientCAs = {"cca"}
      BY <1>2, <1>4, <2>2 DEF CertsFromPEM, Cert
    <2> QED BY <2>2, <2>3 DEF Cert, Nil
  <1>5. ASSUME in.clientAuth, ServerTrusted, in.file["ClientCa"] = "unset",
               in.file["ClientKey"] = "unset", in.file["ClientCert"] = "unset"
        PROVE  client.cert # Nil /\ client.cert.signer \in server.clientCAs
    <2>1. client.cert = server.cert /\ ClientCaPEM = CaPEM
      BY <1>2, <1>5 DEF ClientCertPEM, HasClientCert, ClientCaPEM, IsSet
    <2>2. HasCert /\ server.cert = CertPEM
      BY <1>2, <1>5 DEF BothCert, ServerTrusted
    <2>3. CertPEM.signer \in Keys
      BY <1>1, <1>2, <2>2, PEMFacts DEF X509KeyPair, PEM, Nil
    <2>4. server.cert.signer # "system"
      BY <2>2, <2>3 DEF Keys
    <2> QED BY <1>2, <1>5, <2>1, <2>4 DEF ServerTrusted
  <1>6. ASSUME in.clientAuth PROVE "system" \notin server.clientCAs
    BY <1>1, <1>2, <1>6, PEMFacts, PoolFacts
  <1>7. ASSUME in.clientAuth, ServerTrusted,
               LET cf == {in.file["ClientCa"], in.file["ClientKey"], in.file["ClientCert"]}
               IN  cf = {"good"} \/ cf = {"unset"}
        PROVE  client.cert # Nil /\ client.cert.signer \in server.clientCAs
    <2>1. \/ /\ in.file["ClientCa"] = "good" /\ in.file["ClientKey"] = "good"
             /\ in.file["ClientCert"] = "good"
          \/ /\ in.file["ClientCa"] = "unset" /\ in.file["ClientKey"] = "unset"
             /\ in.file["ClientCert"] = "unset"
      BY <1>7
    <2> QED BY <1>4, <1>5, <1>7, <2>1
  <1> QED BY <1>2, <1>3, <1>6, <1>7

\* The first call returns nil.
LEMMA FinishStep ==
    ASSUME TLSInv, Finish
    PROVE  TLSInv'
  <1>1. /\ pc = "finish" /\ Return("nil")
        /\ client' = [client EXCEPT !.insecure = in.insecure]
        /\ UNCHANGED <<in, repaired, next, pem, server, netFailed>>
    BY DEF Finish
  <1>2. results = << >> /\ Types /\ ConfigsKnown /\ Worked /\ server.set /\ client.set
    BY <1>1, InFirstCall DEF TLSInv
  <1>3. /\ results' \in Seq({"nil", "err"}) /\ results' # << >> /\ results'[1] = "nil"
        /\ pc' = "idle"
        /\ \A i \in DOMAIN results' : results'[i] \in {"nil", "err"}
    BY <1>1, <1>2, FirstResult
  <1>4. /\ client' \in Config /\ client'.set = client.set /\ client'.roots = client.roots
        /\ client'.cert = client.cert
    <2>1. in.insecure \in BOOLEAN /\ client \in Config
      BY <1>2, InputFacts DEF Types, TypeOK
    <2> QED BY <1>1, <2>1 DEF Config
  <1>5. Types' /\ ConfigsKnown'
    BY <1>1, <1>2, <1>3, <1>4 DEF Types, TypeOK, ConfigsKnown
  <1>6. FailsExactly'
    <2>1. ~MustFail'
      <3>1. MustFail' <=> MustFail
        BY <1>1 DEF MustFail, IsSet, Pair
      <3> QED BY <1>1, <3>1, NothingToRefuse
    <2> QED BY <1>3, <2>1 DEF FailsExactly
  <1>7. ServerTrusted' <=> ServerTrusted
    BY <1>1, <1>4 DEF ServerTrusted
  <1>8. AutoTrusted'
    BY <1>1, <1>7, BuiltFacts DEF AutoTrusted, IsSet
  <1>9. ClientsChecked'
    <2>1. MutualAuth'
      BY <1>1, <1>4, <1>7, BuiltFacts DEF MutualAuth
    <2>2. ClientAuthEnforced'
      BY <1>1, BuiltFacts DEF ClientAuthEnforced
    <2> QED BY <2>1, <2>2 DEF ClientsChecked
  <1>10. Returned'
    BY <1>1, <1>2, <1>3, <1>4, <1>6, <1>8, <1>9 DEF Returned
  <1> QED BY <1>3, <1>5, <1>10 DEF TLSInv

\* Every step of a call and of its caller keeps TLSInv.
LEMMA TLSStep == TLSInv /\ [Next]_vars => TLSInv'
  <1> SUFFICES ASSUME TLSInv, [Next]_vars PROVE TLSInv'
    OBVIOUS
  <1>1. CASE results # << >>
    BY <1>1, LaterStep
  <1>2. CASE results = << >>
    <2>1. CASE Done \/ UNCHANGED vars
      <3>1. UNCHANGED vars
        BY <2>1 DEF Done
      <3>2. UNCHANGED <<in, repaired, pc, next, pem, server, client, netFailed, results>>
        BY <3>1 DEF vars
      <3>3. Types' /\ ConfigsKnown'
        BY <3>2 DEF TLSInv, Types, TypeOK, ConfigsKnown
      <3>4. FirstCall'
        BY <1>2, <3>2, SameInput DEF TLSInv, FirstCall, PEMsOK, ConfigsOK, Loaded,
           X509KeyPair, CertsFromPEM, Files
      <3> QED BY <1>2, <3>2, <3>3, <3>4 DEF TLSInv
    <2>2. ~Repair
      BY <1>2 DEF Repair
    <2> QED BY <1>2, <2>1, <2>2, BeginStep, LoadStep, SelfCAStep, SelfCertStep, RootsStep,
               ServerPairStep, ClientAuthStep, NoClientAuthStep, FinishStep DEF Next
  <1> QED BY <1>1, <1>2

-----------------------------------------------------------------------------
(* The theorems.                                                           *)

\* TLSInv is an invariant of SetupTLS and its caller.
THEOREM TLSInvariance == Spec => []TLSInv
  BY TLSInit, TLSStep, PTL DEF Spec

\* Whichever files are missing, wrong or unreadable together, a named file wins
\* over its PEM field, and the first call fails for the listed reasons and no
\* other, PEM fields whose file is not named left out.
THEOREM FilesDecideAlways == Spec => []FilesDecide
  <1>1. TLSInv => FilesDecide
    <2> SUFFICES ASSUME TLSInv PROVE FilesDecide
      OBVIOUS
    <2>1. TypeOK
      BY DEF TLSInv, Types
    <2>2. FailsExactly
      BY DEF TLSInv, Returned, FailsExactly
    <2>3. FilesWin
      BY DEF TLSInv, ConfigsKnown, Known, FilesWin
    <2> QED BY <2>1, <2>2, <2>3 DEF FilesDecide
  <1> QED BY <1>1, TLSInvariance, PTL

\* With AutoTLS a client trusts its server, but for the one case named.
THEOREM AutoAlwaysTrusted == Spec => []AutoTrusted
  <1>1. TLSInv => AutoTrusted
    BY DEF TLSInv, Returned, AutoTrusted, BuiltOk
  <1> QED BY <1>1, TLSInvariance, PTL

\* Client authentication is never silently weaker than asked for.
THEOREM ClientsAlwaysChecked == Spec => []ClientsChecked
  <1>1. TLSInv => ClientsChecked
    BY DEF TLSInv, Returned, ClientsChecked, MutualAuth, ClientAuthEnforced, BuiltOk
  <1> QED BY <1>1, TLSInvariance, PTL

\* No call after the first touches what the first one built.
THEOREM BuildsOnce == Spec => BuiltOnce
  <1>1. TLSInv /\ [Next]_vars => [results # << >> => UNCHANGED <<pem, server, client>>]_vars
    BY LaterStep
  <1> QED BY <1>1, TLSInvariance, PTL DEF Spec, BuiltOnce
=============================================================================
