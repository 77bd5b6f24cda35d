-------------------------------- MODULE PKI --------------------------------
(***************************************************************************)
(* How a machine gets its CA, certificate and key: setupServerTLS and      *)
(* initializeServerPKI (cmd/tndrl/serve.go), setupClientTLS and            *)
(* initializeClientPKI (cmd/tndrl/client.go), on the files that pkg/pki    *)
(* saves and loads.  A daemon and client commands of the same user share   *)
(* the directory; nothing is locked, a process may be killed between any   *)
(* two steps and started again, and the disk may refuse any write.         *)
(*                                                                         *)
(* A step is one operation on a file.  os.WriteFile truncates and then     *)
(* writes: in between, and for good if the process is killed there, the    *)
(* file exists and does not decode.  Files are never removed, so the two   *)
(* os.Stat of CAExists and CertExists may be taken for one step.           *)
(*                                                                         *)
(* A key pair is named after the start of a process that made it.          *)
(***************************************************************************)
EXTENDS Naturals

CONSTANTS
    Servers,        \* processes that run "tndrl serve"
    Clients,        \* processes that run a client command
    MaxStarts,      \* how often each of them is started, at most
    Given,          \* the CA an administrator may have put there
    None,           \* there is no such file
    Torn            \* the file has been truncated and not yet written

Processes == Servers \cup Clients
Pairs == UNION {{p} \X (1 .. MaxStarts[p]) : p \in Processes}
CAs == Pairs \cup {Given}
CAFiles == {"ca.crt", "ca.key", "own.crt", "own.key"}
Files == CAFiles \cup {"tndrl.crt", "tndrl.key"}
Certificates == [by : CAs, id : Pairs]

ASSUME PKIAssumption ==
    /\ Servers \cap Clients = {}
    /\ MaxStarts \in [Processes -> Nat]
    /\ Given \notin Pairs
    /\ None \notin CAs \cup Certificates
    /\ Torn \notin CAs \cup Certificates \cup {None}

VARIABLES
    own,        \* the commands of this machine name a CA outside --pki-dir
    file,       \* the content of each file
    starts,     \* how often each process was started
    pc,         \* where each process is
    half,       \* it has truncated the file it is writing
    mem         \* what it has loaded or generated

vars == <<own, file, starts, pc, half, mem>>

\* --pki-ca-cert and --pki-ca-key; by default the files of --pki-dir
CACert == IF own THEN "own.crt" ELSE "ca.crt"
CAKey == IF own THEN "own.key" ELSE "ca.key"

Ended == {"idle", "up", "failed", "diskError", "killed"}
Active(p) == pc[p] \notin Ended

Exists(f) == file[f] # None

\* The name of what this start of p generates
Fresh(p) == <<p, starts[p]>>

-----------------------------------------------------------------------------
(* A bug in one operation, used to confirm that the properties see it. *)
BugNoIssuer(ca, id) == [by |-> None, id |-> id]
BugCrtOnly(crt, key) == Exists(crt)
BugNeverExists == FALSE
BugAnyPair(p) == TRUE
-----------------------------------------------------------------------------

\* pki.CAExists and pki.CertExists look at two files.
CAExists == Exists("ca.crt") /\ Exists("ca.key")
CertExists(crt, key) == Exists(crt) /\ Exists(key)

\* x509.CreateCertificate
Certificate(ca, id) == [by |-> ca, id |-> id]

\* A new machine, one with a CA where the flags say, or one to which only the
\* certificate of a CA was copied (pkg/pki/README.md, Multi-Machine Deployment)
Init ==
    /\ own \in BOOLEAN
    /\ \E present \in {{}, {CACert}, {CACert, CAKey}} :
           file = [f \in Files |-> IF f \in present THEN Given ELSE None]
    /\ starts = [p \in Processes |-> 0]
    /\ pc = [p \in Processes |-> "idle"]
    /\ half = [p \in Processes |-> FALSE]
    /\ mem = [p \in Processes |-> [f \in Files |-> None]]

Goto(p, label) == pc' = [pc EXCEPT ![p] = label]

\* The process is started, with --pki-init or without, once the one before has
\* ended.
Start(p, init) ==
    /\ ~Active(p)
    /\ starts[p] < MaxStarts[p]
    /\ starts' = [starts EXCEPT ![p] = @ + 1]
    /\ Goto(p, IF init THEN "checkCA" ELSE "loadCACert")
    /\ mem' = [mem EXCEPT ![p] = [f \in Files |-> None]]
    /\ half' = [half EXCEPT ![p] = FALSE]
    /\ UNCHANGED <<own, file>>

\* It is killed, or the machine loses power.
Kill(p) ==
    /\ Active(p)
    /\ Goto(p, "killed")
    /\ UNCHANGED <<own, file, starts, half, mem>>

Step(p, from, to) ==
    /\ pc[p] = from
    /\ Goto(p, to)
    /\ UNCHANGED <<file, starts, half>>

Keep(p, content) ==
    mem' = [mem EXCEPT ![p] =
               [f \in Files |-> IF f \in DOMAIN content THEN content[f] ELSE @[f]]]

-----------------------------------------------------------------------------
(* initializeServerPKI *)

\* The CA of the directory is there: the CA of the flags is loaded.
FindCA(p) ==
    /\ p \in Servers
    /\ CAExists
    /\ Step(p, "checkCA", "readCACert")
    /\ UNCHANGED mem

\* It is not: a new one is generated.
GenerateCA(p) ==
    /\ p \in Servers
    /\ ~CAExists
    /\ Step(p, "checkCA", "saveCACert")
    /\ Keep(p, [f \in CAFiles |-> Fresh(p)])

(* initializeClientPKI *)

\* A client signs its certificate with the CA that is there, and makes none.
ClientFindsCA(p) ==
    /\ p \in Clients
    /\ Step(p, "checkCA",
            IF CertExists(CACert, CAKey) THEN "checkCert" ELSE "failed")
    /\ UNCHANGED mem

\* Both: nothing to do if certificate and key exist.  The client has yet to
\* load the CA.
CheckCert(p) ==
    /\ Step(p, "checkCert",
            IF CertExists("tndrl.crt", "tndrl.key") THEN "loadCACert"
            ELSE IF p \in Servers THEN "sign" ELSE "readCACert")
    /\ UNCHANGED mem

\* GenerateCert fails if the key of the CA is not that of its certificate.
Sign(p) ==
    LET ca == mem[p][CACert] IN
    IF ca = mem[p][CAKey]
    THEN /\ Step(p, "sign", "saveCert")
         /\ Keep(p, [f \in {"tndrl.crt", "tndrl.key"} |->
                        IF f = "tndrl.crt" THEN Certificate(ca, Fresh(p))
                                           ELSE Fresh(p)])
    ELSE Step(p, "sign", "failed") /\ UNCHANGED mem

-----------------------------------------------------------------------------
(* Saving and loading files *)

\* CA.Save and Cert.Save: the certificate, then the key
Saves == {[at |-> "saveCACert", file |-> "ca.crt", next |-> "saveCAKey"],
          [at |-> "saveCAKey", file |-> "ca.key", next |-> "checkCert"],
          [at |-> "saveCert", file |-> "tndrl.crt", next |-> "saveKey"],
          [at |-> "saveKey", file |-> "tndrl.key", next |-> "loadCACert"]}

\* os.WriteFile opens the file and truncates it ...
Truncate(p, s) ==
    /\ pc[p] = s.at
    /\ ~half[p]
    /\ file' = [file EXCEPT ![s.file] = Torn]
    /\ half' = [half EXCEPT ![p] = TRUE]
    /\ UNCHANGED <<starts, pc, mem>>

\* ... and writes it.
Fill(p, s) ==
    /\ pc[p] = s.at
    /\ half[p]
    /\ file' = [file EXCEPT ![s.file] = mem[p][s.file]]
    /\ half' = [half EXCEPT ![p] = FALSE]
    /\ Goto(p, s.next)
    /\ UNCHANGED <<starts, mem>>

\* The steps that begin by making a directory or write a file
Writes(p) == {s.at : s \in Saves} \cup
             (IF p \in Servers THEN {"checkCA"} ELSE {"readCACert"})

\* os.MkdirAll or os.WriteFile fails, and with it the start.  The file is as it
\* was, or cut off: nothing is rolled back.
DiskFails(p) ==
    /\ pc[p] \in Writes(p)
    /\ Goto(p, "diskError")
    /\ UNCHANGED <<file, starts, half, mem>>

\* LoadCA before signing; LoadCA and LoadCert for the TLS configuration
Loads(p) ==
    {[at |-> "readCACert", file |-> CACert, next |-> "readCAKey"],
     [at |-> "readCAKey", file |-> CAKey,
      next |-> IF p \in Servers THEN "checkCert" ELSE "sign"],
     [at |-> "loadCACert", file |-> CACert, next |-> "loadCAKey"],
     [at |-> "loadCAKey", file |-> CAKey, next |-> "loadCert"],
     [at |-> "loadCert", file |-> "tndrl.crt", next |-> "loadKey"],
     [at |-> "loadKey", file |-> "tndrl.key", next |-> "pair"]}

\* A file that is missing or does not decode ends the start.
Load(p, l) ==
    IF file[l.file] \in {None, Torn}
    THEN Step(p, l.at, "failed") /\ UNCHANGED mem
    ELSE Step(p, l.at, l.next) /\ Keep(p, [f \in {l.file} |-> file[f]])

\* Cert.TLSCertificate: tls.X509KeyPair compares the key with the certificate.
KeyMatches(p) == mem[p]["tndrl.crt"].id = mem[p]["tndrl.key"]

TLSConfig(p) ==
    /\ Step(p, "pair", IF KeyMatches(p) THEN "up" ELSE "failed")
    /\ UNCHANGED mem

-----------------------------------------------------------------------------

Setup(p) ==
    /\ UNCHANGED own
    /\ \/ FindCA(p) \/ GenerateCA(p) \/ ClientFindsCA(p)
       \/ CheckCert(p) \/ Sign(p)
       \/ (\E s \in Saves : Truncate(p, s) \/ Fill(p, s)) \/ DiskFails(p)
       \/ \E l \in Loads(p) : Load(p, l)
       \/ TLSConfig(p)

Next ==
    \E p \in Processes :
        \/ \E init \in BOOLEAN : Start(p, init)
        \/ Setup(p)
        \/ Kill(p)

Spec == Init /\ [][Next]_vars

\* A process that was started goes on until it is killed.
FairSpec == Spec /\ \A p \in Processes : WF_vars(Setup(p))

-----------------------------------------------------------------------------
(* Properties *)

Content(f) ==
    IF f = "tndrl.crt" THEN Certificates
    ELSE IF f = "tndrl.key" THEN Pairs ELSE CAs

\* The variables have their types: no file holds what belongs into another.
TypeOK ==
    /\ own \in BOOLEAN
    /\ DOMAIN file = Files
    /\ \A f \in Files : file[f] \in Content(f) \cup {None, Torn}
    /\ DOMAIN starts = Processes
    /\ \A p \in Processes : starts[p] \in 0 .. MaxStarts[p]
    /\ pc \in [Processes -> Ended \cup
           {"checkCA", "saveCACert", "saveCAKey", "checkCert", "sign",
            "saveCert", "saveKey", "readCACert", "readCAKey", "loadCACert",
            "loadCAKey", "loadCert", "loadKey", "pair"}]
    /\ half \in [Processes -> BOOLEAN]
    /\ DOMAIN mem = Processes
    /\ \A p \in Processes :
           /\ DOMAIN mem[p] = Files
           /\ \A f \in Files : mem[p][f] \in Content(f) \cup {None}

\* Where a daemon may have its CA from: the files of the flags, or those it
\* generated in --pki-dir.  They are the same unless the flags name others.
Origins == {<<CACert, CAKey>>, <<"ca.crt", "ca.key">>}

\* With one daemon, whatever clients run beside it and wherever it is killed:
\* a certificate on the disk is signed by a CA on the disk whose key is there
\* too, by the one that processes trust unless the flags name another CA.
CertsMatchCA ==
    file["tndrl.crt"] \in Certificates =>
        \E ca \in Origins :
            \A f \in {ca[1], ca[2]} : file[f] = file["tndrl.crt"].by

\* A complete CA is never replaced, so no certificate it signed is orphaned;
\* also not one outside --pki-dir that the daemon has not looked for.
CAStable ==
    [][file[CACert] \in CAs /\ file[CACert] = file[CAKey]
           => UNCHANGED <<file[CACert], file[CAKey]>>]_vars

\* A process is up only with the key of its certificate, and that certificate
\* is of a CA of the machine: two processes that both found no certificate may
\* mix their files on the disk, but no process runs with the mixture.
UpMeansConsistent ==
    \A p \in Processes :
        pc[p] = "up" =>
            /\ mem[p]["tndrl.key"] = mem[p]["tndrl.crt"].id
            /\ \E ca \in Origins : mem[p]["tndrl.crt"].by = file[ca[1]]

\* The CA that the flags name is there, no file was cut off and no key is that
\* of another certificate.
Clean ==
    /\ own => Exists(CACert) /\ Exists(CAKey)
    /\ \A f \in Files : file[f] # Torn
    /\ file["ca.crt"] \in CAs /\ file["ca.key"] \in CAs
           => file["ca.crt"] = file["ca.key"]
    /\ file["tndrl.crt"] \in Certificates /\ file["tndrl.key"] \in Pairs
           => file["tndrl.crt"].id = file["tndrl.key"]

\* Files that are missing because an earlier start was killed, or the disk
\* failed, between two writes are made up for: "serve --pki-init" comes up on
\* any clean disk, if it is alone, not killed and the disk takes its writes.
StartWorks ==
    \A p \in Servers :
        /\ pc[p] = "checkCA" /\ Clean
        /\ \A q \in Processes \ {p} : ~Active(q)
        ~> pc[p] \in {"up", "diskError", "killed"} \/ \E q \in Processes \ {p} : Active(q)
=============================================================================
