----------------------------- MODULE PKIProofs -----------------------------
(* Proofs about PKI and Startup, for any clients, numbers of starts and     *)
(* moments at which processes are killed.  What they say of the CA holds    *)
(* with one daemon: two that share a directory mix their files.             *)
EXTENDS Startup, TLAPS

-----------------------------------------------------------------------------
(* Types *)

Labels == Ended \cup
    {"checkCA", "saveCACert", "saveCAKey", "checkCert", "sign",
     "saveCert", "saveKey", "readCACert", "readCAKey", "loadCACert",
     "loadCAKey", "loadCert", "loadKey", "pair"}

SaveLabels == {"saveCACert", "saveCAKey", "saveCert", "saveKey"}

\* It has a CA to sign with.
HoldsCA(p) == pc[p] = "sign" \/ (pc[p] = "checkCert" /\ p \in Servers)

\* Only a process that was started does anything; it has what it signs with
\* and what it saves.
Busy(p) ==
    /\ Active(p) => starts[p] > 0
    /\ pc[p] = "readCAKey" => mem[p][CACert] \in CAs
    /\ HoldsCA(p) => mem[p][CACert] \in CAs /\ mem[p][CAKey] \in CAs
    /\ pc[p] \in {"saveCACert", "saveCAKey"} => \A f \in CAFiles : mem[p][f] \in CAs
    /\ pc[p] \in {"saveCert", "saveKey"} =>
           mem[p]["tndrl.crt"] \in Certificates /\ mem[p]["tndrl.key"] \in Pairs

TypeInv == TypeOK /\ \A p \in Processes : Busy(p)

LEMMA Names ==
    /\ CACert \in {"ca.crt", "own.crt"} /\ CAKey \in {"ca.key", "own.key"}
    /\ CACert \in CAFiles /\ CAKey \in CAFiles /\ CAFiles \subseteq Files
    /\ \A f \in CAFiles : Content(f) = CAs
    /\ Content("tndrl.crt") = Certificates /\ Content("tndrl.key") = Pairs
    /\ None \notin CAs \cup Certificates /\ Torn \notin CAs \cup Certificates \cup {None}
    /\ None \notin Pairs /\ Torn \notin Pairs
    /\ Given \in CAs /\ Pairs \subseteq CAs
BY PKIAssumption DEF CACert, CAKey, CAFiles, Files, Content, CAs

\* What a process that was started generates
LEMMA FreshIsPair ==
    ASSUME TypeOK, NEW p \in Processes, starts[p] > 0
    PROVE  Fresh(p) \in Pairs
<1>1. starts[p] \in 1 .. MaxStarts[p]
  BY PKIAssumption DEF TypeOK
<1> QED BY <1>1 DEF Fresh, Pairs

LEMMA TypeInit == Init => TypeInv
<1> SUFFICES ASSUME Init PROVE TypeInv
  OBVIOUS
<1>1. \A f \in Files : file[f] \in Content(f) \cup {None, Torn}
  <2>1. PICK present \in {{}, {CACert}, {CACert, CAKey}} :
            file = [f \in Files |-> IF f \in present THEN Given ELSE None]
    BY DEF Init
  <2>2. present \subseteq CAFiles
    BY <2>1, Names
  <2> QED BY <2>1, <2>2, Names
<1>2. \A p \in Processes : starts[p] \in 0 .. MaxStarts[p]
  BY PKIAssumption DEF Init
<1> QED BY <1>1, <1>2 DEF Init, TypeInv, TypeOK, Busy, HoldsCA, Active, Ended

\* What Keep keeps
LEMMA KeepTypes ==
    ASSUME TypeOK, NEW p \in Processes, NEW content, Keep(p, content)
    PROVE  /\ DOMAIN mem' = Processes /\ DOMAIN mem'[p] = Files
           /\ \A q \in Processes \ {p} : mem'[q] = mem[q]
           /\ \A f \in Files :
                  mem'[p][f] = IF f \in DOMAIN content THEN content[f] ELSE mem[p][f]
BY DEF Keep, TypeOK

LEMMA KeepOK ==
    ASSUME TypeOK, NEW p \in Processes, NEW content, Keep(p, content),
           \A f \in Files \cap DOMAIN content : content[f] \in Content(f),
           UNCHANGED <<own, file, starts>>, pc' \in [Processes -> Labels],
           half' \in [Processes -> BOOLEAN]
    PROVE  TypeOK'
<1>1. /\ DOMAIN mem' = Processes
      /\ \A q \in Processes : /\ DOMAIN mem'[q] = Files
                              /\ \A f \in Files : mem'[q][f] \in Content(f) \cup {None}
  BY KeepTypes DEF TypeOK
<1> QED BY <1>1 DEF TypeOK, Labels, Ended

\* The step of a process that neither writes a file nor keeps anything
LEMMA PlainOK ==
    ASSUME TypeOK, UNCHANGED <<own, file, mem>>, pc' \in [Processes -> Labels],
           UNCHANGED starts, half' \in [Processes -> BOOLEAN]
    PROVE  TypeOK'
BY DEF TypeOK, Labels, Ended

\* What a process does, in PKI or in Startup
Acts(p) ==
    (\E init \in BOOLEAN : Start(p, init)) \/ ConfigError(p) \/ Setup(p) \/ Kill(p)

\* It changes nothing that belongs to another.
LEMMA OthersSame ==
    ASSUME TypeOK, NEW p \in Processes, Acts(p)
    PROVE  /\ UNCHANGED <<own, CACert, CAKey>>
           /\ \A q \in Processes \ {p} :
                  /\ pc'[q] = pc[q] /\ starts'[q] = starts[q]
                  /\ half'[q] = half[q] /\ mem'[q] = mem[q]
<1> DEFINE Goal == /\ UNCHANGED own
                   /\ \A q \in Processes \ {p} :
                          /\ pc'[q] = pc[q] /\ starts'[q] = starts[q]
                          /\ half'[q] = half[q] /\ mem'[q] = mem[q]
<1> SUFFICES Goal
  BY DEF CACert, CAKey
<1> USE DEF TypeOK, Goto
<1>1. ASSUME NEW init \in BOOLEAN, Start(p, init) PROVE Goal
  BY <1>1 DEF Start
<1>2. CASE ConfigError(p) \/ Kill(p)
  BY <1>2 DEF ConfigError, Kill
<1>3. CASE Setup(p)
  <2>1. CASE FindCA(p) \/ ClientFindsCA(p) \/ CheckCert(p) \/ TLSConfig(p) \/ DiskFails(p)
    BY <1>3, <2>1 DEF Setup, FindCA, ClientFindsCA, CheckCert, TLSConfig, DiskFails, Step
  <2>2. CASE GenerateCA(p)
    BY <1>3, <2>2 DEF Setup, GenerateCA, Step, Keep
  <2>3. CASE Sign(p)
    BY <1>3, <2>3 DEF Setup, Sign, Step, Keep
  <2>4. ASSUME NEW s \in Saves, Truncate(p, s) \/ Fill(p, s) PROVE Goal
    BY <1>3, <2>4 DEF Setup, Truncate, Fill
  <2>5. ASSUME NEW l \in Loads(p), Load(p, l) PROVE Goal
    BY <1>3, <2>5 DEF Setup, Load, Step, Keep
  <2> QED BY <1>3, <2>1, <2>2, <2>3, <2>4, <2>5 DEF Setup
<1> QED BY <1>1, <1>2, <1>3 DEF Acts

LEMMA TypeStep ==
    ASSUME TypeInv, NEW p \in Processes, Acts(p)
    PROVE  TypeInv'
<1>t. /\ TypeOK /\ pc \in [Processes -> Labels] /\ half \in [Processes -> BOOLEAN]
      /\ DOMAIN starts = Processes /\ starts[p] \in 0 .. MaxStarts[p]
      /\ MaxStarts[p] \in Nat /\ Busy(p)
  BY PKIAssumption DEF TypeInv, TypeOK, Labels, Ended
<1>o. /\ UNCHANGED <<own, CACert, CAKey>>
      /\ \A q \in Processes \ {p} :
             pc'[q] = pc[q] /\ starts'[q] = starts[q] /\ mem'[q] = mem[q]
  BY <1>t, OthersSame
<1> SUFFICES TypeOK' /\ Busy(p)'
  BY <1>o DEF TypeInv, Busy, HoldsCA, Active
<1> USE DEF Goto, Labels, Ended
<1>1. ASSUME NEW init \in BOOLEAN, Start(p, init) PROVE TypeOK' /\ Busy(p)'
  <2>1. /\ starts' = [starts EXCEPT ![p] = @ + 1] /\ starts[p] + 1 \in 1 .. MaxStarts[p]
        /\ mem' = [mem EXCEPT ![p] = [f \in Files |-> None]]
        /\ pc' \in [Processes -> Labels] /\ pc'[p] \in {"checkCA", "loadCACert"}
        /\ half' \in [Processes -> BOOLEAN] /\ UNCHANGED <<own, file>>
    BY <1>1, <1>t DEF Start
  <2>2. TypeOK'
    BY <1>t, <2>1 DEF TypeOK
  <2>3. Busy(p)'
    BY <1>t, <2>1 DEF Busy, HoldsCA
  <2> QED BY <2>2, <2>3
<1>2. CASE ConfigError(p)
  <2>1. /\ starts' = [starts EXCEPT ![p] = @ + 1] /\ starts[p] + 1 \in 1 .. MaxStarts[p]
        /\ pc' \in [Processes -> Labels] /\ pc'[p] = "failed"
        /\ UNCHANGED <<own, file, half, mem>>
    BY <1>2, <1>t DEF ConfigError
  <2> QED BY <1>t, <2>1 DEF TypeOK, Busy, HoldsCA, Active
<1>3. CASE Kill(p)
  BY <1>3, <1>t, PlainOK DEF Kill, Busy, HoldsCA, Active
<1>4. CASE Setup(p)
  <2>1. CASE FindCA(p) \/ ClientFindsCA(p) \/ CheckCert(p) \/ TLSConfig(p)
    <3>1. /\ pc' \in [Processes -> Labels]
          /\ pc'[p] \notin SaveLabels \cup {"readCAKey"}
          /\ UNCHANGED <<own, file, starts, half, mem>> /\ Active(p)
          /\ HoldsCA(p)' => HoldsCA(p)
      BY <1>4, <1>t, <2>1, PKIAssumption
         DEF Setup, FindCA, ClientFindsCA, CheckCert, TLSConfig, Step, SaveLabels,
             Active, HoldsCA
    <3> QED BY <1>t, <1>o, <3>1, PlainOK DEF Busy, Active, SaveLabels
  <2>2. CASE GenerateCA(p)
    <3>1. /\ pc' \in [Processes -> Labels] /\ pc'[p] = "saveCACert"
          /\ UNCHANGED <<own, file, starts, half>> /\ Active(p)
          /\ Keep(p, [f \in CAFiles |-> Fresh(p)])
      BY <1>4, <1>t, <2>2 DEF Setup, GenerateCA, Step, Active
    <3>2. Fresh(p) \in CAs
      BY <1>t, <3>1, FreshIsPair, Names DEF Busy
    <3>3. TypeOK'
      BY <1>t, <3>1, <3>2, Names, KeepOK
    <3>4. \A f \in CAFiles : mem'[p][f] = Fresh(p)
      BY <1>t, <3>1, Names, KeepTypes
    <3> QED BY <1>t, <3>1, <3>2, <3>3, <3>4 DEF Busy, HoldsCA
  <2>3. CASE Sign(p) /\ pc'[p] = "failed"
    <3>1. UNCHANGED <<own, file, starts, half>> /\ pc' \in [Processes -> Labels]
          /\ UNCHANGED mem
      BY <1>4, <1>t, <2>3 DEF Setup, Sign, Step
    <3> QED BY <1>t, <2>3, <3>1, PlainOK DEF Busy, HoldsCA, Active
  <2>4. CASE Sign(p) /\ pc'[p] # "failed"
    <3> DEFINE ca == mem[p][CACert]
               content == [f \in {"tndrl.crt", "tndrl.key"} |->
                              IF f = "tndrl.crt" THEN Certificate(ca, Fresh(p))
                                                 ELSE Fresh(p)]
    <3>1. /\ pc' \in [Processes -> Labels] /\ pc'[p] = "saveCert"
          /\ UNCHANGED <<own, file, starts, half>> /\ pc[p] = "sign" /\ Active(p)
          /\ Keep(p, content)
      BY <1>4, <1>t, <2>4 DEF Setup, Sign, Step, Active
    <3>2. Fresh(p) \in Pairs /\ ca \in CAs
      BY <1>t, <3>1, FreshIsPair DEF Busy, HoldsCA
    <3>3. Certificate(ca, Fresh(p)) \in Certificates
      BY <3>2 DEF Certificate, Certificates
    <3>4. \A f \in Files \cap DOMAIN content : content[f] \in Content(f)
      BY <3>2, <3>3, Names
    <3>5. mem'[p]["tndrl.crt"] \in Certificates /\ mem'[p]["tndrl.key"] \in Pairs
      BY <1>t, <3>1, <3>2, <3>3, KeepTypes DEF Files
    <3>6. TypeOK'
      <4> HIDE DEF content
      <4> QED BY <1>t, <3>1, <3>4, KeepOK
    <3> QED BY <1>t, <3>1, <3>5, <3>6 DEF Busy, HoldsCA
  <2>5. ASSUME NEW s \in Saves, Truncate(p, s) PROVE TypeOK' /\ Busy(p)'
    <3>1. /\ s.file \in Files /\ file' = [file EXCEPT ![s.file] = Torn]
          /\ half' = [half EXCEPT ![p] = TRUE] /\ UNCHANGED <<own, starts, pc, mem>>
      BY <1>4, <2>5 DEF Setup, Truncate, Saves, Files, CAFiles
    <3> QED BY <1>t, <3>1 DEF TypeOK, Busy, HoldsCA, Active, CACert, CAKey
  <2>6. ASSUME NEW s \in Saves, Fill(p, s) PROVE TypeOK' /\ Busy(p)'
    <3>1. /\ s.file \in Files /\ file' = [file EXCEPT ![s.file] = mem[p][s.file]]
          /\ half' = [half EXCEPT ![p] = FALSE] /\ UNCHANGED <<own, starts, mem>>
          /\ pc' = [pc EXCEPT ![p] = s.next] /\ s.next \in Labels
          /\ pc[p] = s.at
      BY <1>4, <2>6 DEF Setup, Fill, Saves, Files, CAFiles
    <3>2. mem[p][s.file] \in Content(s.file)
      <4>1. s.file \in CAFiles => mem[p][s.file] \in CAs
        BY <1>t, <3>1 DEF Busy, Saves, CAFiles
      <4>2. /\ s.file = "tndrl.crt" => mem[p]["tndrl.crt"] \in Certificates
            /\ s.file = "tndrl.key" => mem[p]["tndrl.key"] \in Pairs
        BY <1>t, <3>1 DEF Busy, Saves
      <4> QED BY <3>1, <4>1, <4>2, Names DEF Files
    <3>3. TypeOK'
      BY <1>t, <3>1, <3>2 DEF TypeOK
    <3>4. Active(p) /\ pc'[p] = s.next
      BY <1>t, <3>1 DEF Active, Saves
    <3>5. Busy(p)'
      <4>1. CASE s.at = "saveCACert"
        BY <1>t, <3>1, <3>4, <4>1 DEF Busy, HoldsCA, Saves
      <4>2. CASE s.at = "saveCAKey"
        BY <1>t, <1>o, <3>1, <3>4, <4>2, Names DEF Busy, HoldsCA, Saves
      <4>3. CASE s.at \in {"saveCert", "saveKey"}
        BY <1>t, <3>1, <3>4, <4>3 DEF Busy, HoldsCA, Saves
      <4> QED BY <4>1, <4>2, <4>3 DEF Saves
    <3> QED BY <3>3, <3>5
  <2>7. ASSUME NEW l \in Loads(p), Load(p, l) PROVE TypeOK' /\ Busy(p)'
    <3>1. /\ l.file \in Files /\ UNCHANGED <<own, file, starts, half>>
          /\ pc[p] = l.at /\ Active(p) /\ pc' \in [Processes -> Labels]
      BY <1>4, <1>t, <2>7, Names DEF Setup, Load, Loads, Step, Active, Files
    <3>2. CASE file[l.file] \in {None, Torn}
      <4>1. UNCHANGED mem /\ pc'[p] = "failed"
        BY <1>t, <2>7, <3>2 DEF Load, Step
      <4> QED BY <1>t, <3>1, <4>1, PlainOK DEF Busy, HoldsCA, Active
    <3>3. CASE file[l.file] \notin {None, Torn}
      <4> DEFINE content == [f \in {l.file} |-> file[f]]
      <4>1. Keep(p, content) /\ pc'[p] = l.next
        BY <1>t, <2>7, <3>3 DEF Load, Step
      <4>2. file[l.file] \in Content(l.file)
        BY <1>t, <3>1, <3>3 DEF TypeOK
      <4>3. /\ \A f \in Files \cap DOMAIN content : content[f] \in Content(f)
            /\ \A f \in Files : mem'[p][f] = IF f = l.file THEN file[f] ELSE mem[p][f]
        BY <1>t, <4>1, <4>2, KeepTypes
      <4>4. TypeOK'
        <5> HIDE DEF content
        <5> QED BY <1>t, <3>1, <4>1, <4>3, KeepOK
      <4>5. Busy(p)'
        <5>1. CASE l.at = "readCACert"
          BY <1>t, <1>o, <3>1, <4>1, <4>2, <4>3, <5>1, Names DEF Busy, HoldsCA, Loads
        <5>2. CASE l.at = "readCAKey"
          <6>1. l.file = CAKey /\ l.next \in {"checkCert", "sign"}
            BY <5>2 DEF Loads
          <6>2. mem'[p][CAKey] \in CAs /\ mem'[p][CACert] \in CAs
            BY <1>t, <3>1, <4>2, <4>3, <5>2, <6>1, Names DEF Busy
          <6> QED BY <1>t, <1>o, <3>1, <4>1, <6>1, <6>2 DEF Busy, HoldsCA
        <5>3. CASE l.at \notin {"readCACert", "readCAKey"}
          BY <1>t, <3>1, <4>1, <5>3 DEF Busy, HoldsCA, Loads
        <5> QED BY <5>1, <5>2, <5>3
      <4> QED BY <4>4, <4>5
    <3> QED BY <3>2, <3>3
  <2>8. CASE DiskFails(p)
    BY <1>4, <1>t, <2>8, PlainOK DEF Setup, DiskFails, Busy, HoldsCA, Active
  <2> QED BY <1>4, <2>1, <2>2, <2>3, <2>4, <2>5, <2>6, <2>7, <2>8 DEF Setup
<1> QED BY <1>1, <1>2, <1>3, <1>4 DEF Acts

-----------------------------------------------------------------------------
(* The files of the CA *)

OneDaemon == \A s, t \in Servers : s = t

\* Certificate and key of ca are there.
OnDisk(ca) ==
    /\ ca \in CAs
    /\ \/ file["ca.crt"] = ca /\ file["ca.key"] = ca
       \/ file[CACert] = ca /\ file[CAKey] = ca

\* It is between finding both files of the CA and having loaded them.
Reads(p) ==
    pc[p] \in {"readCACert", "readCAKey"} \/ (pc[p] = "checkCert" /\ p \in Clients)

\* A daemon that makes a CA finds no key and writes it last; who reads a key
\* has its certificate from the same CA, or will not sign; what was signed is
\* by a CA on the disk.
SetupInv(p) ==
    /\ Active(p) /\ half[p] => pc[p] \in SaveLabels
    /\ pc[p] \in {"saveCACert", "saveCAKey"} =>
           p \in Servers /\ \A f \in CAFiles : mem[p][f] = mem[p]["ca.crt"]
    /\ pc[p] = "saveCACert" => file["ca.key"] = None
    /\ pc[p] = "saveCAKey" => /\ file["ca.crt"] = mem[p]["ca.crt"]
                              /\ file["ca.key"] = IF half[p] THEN Torn ELSE None
    /\ Reads(p) /\ ~own => Exists("ca.key")
    /\ pc[p] = "readCAKey" => mem[p][CACert] = file[CACert]
    /\ HoldsCA(p) /\ mem[p][CACert] = mem[p][CAKey] => OnDisk(mem[p][CACert])
    /\ pc[p] \in {"saveCert", "saveKey", "loadKey", "pair", "up"} =>
           mem[p]["tndrl.crt"] \in Certificates /\ OnDisk(mem[p]["tndrl.crt"].by)
    /\ pc[p] = "up" => mem[p]["tndrl.key"] = mem[p]["tndrl.crt"].id

DiskInv ==
    /\ Exists("ca.key") => Exists("ca.crt")
    /\ file["tndrl.crt"] \in Certificates => OnDisk(file["tndrl.crt"].by)

TrustInv == TypeInv /\ DiskInv /\ \A p \in Processes : SetupInv(p)

\* What a step does to the files
Puts(f, content) == file' = [file EXCEPT ![f] = content]

LEMMA FileMoves ==
    ASSUME TypeInv, NEW p \in Processes, Acts(p)
    PROVE  \/ UNCHANGED file
           \/ pc[p] = "saveCACert" /\ (Puts("ca.crt", Torn) \/ Puts("ca.crt", mem[p]["ca.crt"]))
           \/ pc[p] = "saveCAKey" /\ ~half[p] /\ Puts("ca.key", Torn)
           \/ pc[p] = "saveCAKey" /\ half[p] /\ Puts("ca.key", mem[p]["ca.key"])
           \/ pc[p] = "saveCert"
              /\ (Puts("tndrl.crt", Torn) \/ Puts("tndrl.crt", mem[p]["tndrl.crt"]))
           \/ \E content : Puts("tndrl.key", content)
<1>1. CASE ~Setup(p)
  BY <1>1 DEF Acts, Start, ConfigError, Kill
<1>2. CASE \/ FindCA(p) \/ GenerateCA(p) \/ ClientFindsCA(p) \/ CheckCert(p)
           \/ TLSConfig(p) \/ DiskFails(p)
  BY <1>2 DEF FindCA, GenerateCA, ClientFindsCA, CheckCert, TLSConfig, DiskFails, Step
<1>3. CASE Sign(p) \/ (\E l \in Loads(p) : Load(p, l))
  BY <1>3 DEF Sign, Load, Step
<1>4. ASSUME NEW s \in Saves, Truncate(p, s)
      PROVE  \/ pc[p] = "saveCACert" /\ Puts("ca.crt", Torn)
             \/ pc[p] = "saveCAKey" /\ ~half[p] /\ Puts("ca.key", Torn)
             \/ pc[p] = "saveCert" /\ Puts("tndrl.crt", Torn)
             \/ \E content : Puts("tndrl.key", content)
  <2>1. pc[p] = s.at /\ ~half[p] /\ Puts(s.file, Torn)
    BY <1>4 DEF Truncate, Puts
  <2> QED BY <2>1 DEF Saves
<1>5. ASSUME NEW s \in Saves, Fill(p, s)
      PROVE  \/ pc[p] = "saveCACert" /\ Puts("ca.crt", mem[p]["ca.crt"])
             \/ pc[p] = "saveCAKey" /\ half[p] /\ Puts("ca.key", mem[p]["ca.key"])
             \/ pc[p] = "saveCert" /\ Puts("tndrl.crt", mem[p]["tndrl.crt"])
             \/ \E content : Puts("tndrl.key", content)
  <2>1. pc[p] = s.at /\ half[p] /\ Puts(s.file, mem[p][s.file])
    BY <1>5 DEF Fill, Puts
  <2> QED BY <2>1 DEF Saves
<1> QED BY <1>1, <1>2, <1>3, <1>4, <1>5 DEF Setup

\* A complete CA stays as it is, and so does all that relies on it.
LEMMA DiskMoves ==
    ASSUME TrustInv, NEW p \in Processes, Acts(p)
    PROVE  /\ file[CACert] \in CAs /\ file[CACert] = file[CAKey]
                  => UNCHANGED <<file[CACert], file[CAKey]>>
           /\ \A ca : OnDisk(ca) => OnDisk(ca)'
           /\ Exists("ca.key") => Exists("ca.key")' /\ file'["ca.crt"] = file["ca.crt"]
           /\ p \notin Servers => UNCHANGED <<file["ca.crt"], file["ca.key"]>>
           /\ UNCHANGED <<file["own.crt"], file["own.key"]>>
           /\ DiskInv'
<1>t. /\ TypeInv /\ TypeOK /\ TypeInv' /\ SetupInv(p) /\ DiskInv
      /\ DOMAIN file = CAFiles \cup {"tndrl.crt", "tndrl.key"}
      /\ UNCHANGED <<own, CACert, CAKey>>
  BY TypeStep, OthersSame DEF TrustInv, TypeInv, TypeOK, Files
<1>m. pc[p] \in {"saveCACert", "saveCAKey"} =>
          mem[p]["ca.crt"] \in CAs /\ mem[p]["ca.key"] \in CAs /\ p \in Servers
  BY <1>t, Names DEF TypeInv, Busy, CAFiles, SetupInv
<1>1. /\ file["ca.crt"] \in CAs /\ file["ca.crt"] = file["ca.key"]
             => file'["ca.crt"] = file["ca.crt"] /\ file'["ca.key"] = file["ca.key"]
      /\ Exists("ca.key") => Exists("ca.key")' /\ file'["ca.crt"] = file["ca.crt"]
      /\ p \notin Servers =>
             file'["ca.crt"] = file["ca.crt"] /\ file'["ca.key"] = file["ca.key"]
      /\ file'["own.crt"] = file["own.crt"] /\ file'["own.key"] = file["own.key"]
      /\ Exists("ca.key")' => Exists("ca.crt")'
  <2> USE DEF Exists, Puts, CAFiles
  <2>1. CASE UNCHANGED file
    BY <1>t, <2>1 DEF DiskInv
  <2>2. CASE /\ pc[p] = "saveCACert"
             /\ Puts("ca.crt", Torn) \/ Puts("ca.crt", mem[p]["ca.crt"])
    <3>1. file["ca.key"] = None
      BY <1>t, <2>2 DEF SetupInv
    <3> QED BY <1>t, <1>m, <2>2, <3>1, Names
  <2>3. CASE pc[p] = "saveCAKey" /\ ~half[p] /\ Puts("ca.key", Torn)
    <3>1. file["ca.key"] = None /\ file["ca.crt"] \in CAs
      BY <1>t, <1>m, <2>3 DEF SetupInv
    <3> QED BY <1>t, <1>m, <2>3, <3>1, Names
  <2>4. CASE pc[p] = "saveCAKey" /\ half[p] /\ Puts("ca.key", mem[p]["ca.key"])
    <3>1. file["ca.key"] = Torn /\ file["ca.crt"] \in CAs
      BY <1>t, <1>m, <2>4 DEF SetupInv
    <3> QED BY <1>t, <1>m, <2>4, <3>1, Names
  <2>5. CASE \/ \E content : Puts("tndrl.crt", content)
             \/ \E content : Puts("tndrl.key", content)
    BY <1>t, <2>5 DEF DiskInv
  <2> QED BY <1>t, <2>1, <2>2, <2>3, <2>4, <2>5, FileMoves
<1>2. /\ file[CACert] \in CAs /\ file[CACert] = file[CAKey]
             => UNCHANGED <<file[CACert], file[CAKey]>>
      /\ \A ca : OnDisk(ca) => OnDisk(ca)'
  BY <1>t, <1>1 DEF CACert, CAKey, OnDisk
<1>3. (file["tndrl.crt"] \in Certificates => OnDisk(file["tndrl.crt"].by))'
  <2> SUFFICES ASSUME file'["tndrl.crt"] \in Certificates,
                      NEW ca, ca = file'["tndrl.crt"].by
               PROVE  OnDisk(ca)'
    OBVIOUS
  <2> SUFFICES OnDisk(ca)
    BY <1>2
  <2>1. CASE file'["tndrl.crt"] = file["tndrl.crt"]
    BY <1>t, <2>1 DEF DiskInv
  <2>2. CASE file'["tndrl.crt"] # file["tndrl.crt"]
    <3>1. /\ pc[p] = "saveCert"
          /\ Puts("tndrl.crt", Torn) \/ Puts("tndrl.crt", mem[p]["tndrl.crt"])
      BY <1>t, <2>2, FileMoves DEF Puts
    <3>2. file'["tndrl.crt"] = Torn \/ file'["tndrl.crt"] = mem[p]["tndrl.crt"]
      BY <1>t, <3>1 DEF Puts
    <3>3. OnDisk(mem[p]["tndrl.crt"].by)
      BY <1>t, <3>1 DEF SetupInv
    <3> QED BY <3>2, <3>3, Names
  <2> QED BY <2>1, <2>2
<1> QED BY <1>1, <1>2, <1>3 DEF DiskInv

\* What a process relies on outlasts the steps of the others.
LEMMA OtherSetup ==
    ASSUME OneDaemon, TrustInv, NEW p \in Processes, Acts(p), NEW q \in Processes \ {p}
    PROVE  SetupInv(q)'
<1>q. /\ pc'[q] = pc[q] /\ half'[q] = half[q] /\ mem'[q] = mem[q]
      /\ UNCHANGED <<own, CACert, CAKey>> /\ SetupInv(q)
  BY OthersSame DEF TrustInv, TypeInv
<1>f. /\ \A ca : OnDisk(ca) => OnDisk(ca)'
      /\ Exists("ca.key") => Exists("ca.key")' /\ file'["ca.crt"] = file["ca.crt"]
      /\ p \notin Servers => UNCHANGED <<file["ca.crt"], file["ca.key"]>>
      /\ UNCHANGED <<file["own.crt"], file["own.key"]>>
  BY DiskMoves
<1>1. /\ Active(q)' /\ half'[q] => pc'[q] \in SaveLabels
      /\ pc'[q] \in {"saveCACert", "saveCAKey"} =>
             q \in Servers /\ \A f \in CAFiles : mem'[q][f] = mem'[q]["ca.crt"]
      /\ pc'[q] = "up" => mem'[q]["tndrl.key"] = mem'[q]["tndrl.crt"].id
  BY <1>q DEF SetupInv, Active
<1>2. /\ pc'[q] = "saveCACert" => file'["ca.key"] = None
      /\ pc'[q] = "saveCAKey" =>
             /\ file'["ca.crt"] = mem'[q]["ca.crt"]
             /\ file'["ca.key"] = IF half'[q] THEN Torn ELSE None
  <2> SUFFICES ASSUME pc[q] \in {"saveCACert", "saveCAKey"}
               PROVE  UNCHANGED <<file["ca.crt"], file["ca.key"]>>
    BY <1>q DEF SetupInv
  <2>1. q \in Servers
    BY <1>q DEF SetupInv
  <2>2. p \notin Servers
    BY <2>1 DEF OneDaemon
  <2> QED BY <1>f, <2>2
<1>3. /\ Reads(q)' /\ ~own' => Exists("ca.key")'
      /\ pc'[q] = "readCAKey" => mem'[q][CACert'] = file'[CACert']
  <2>1. Reads(q)' <=> Reads(q)
    BY <1>q DEF Reads
  <2>2. Reads(q) => file'[CACert] = file[CACert]
    BY <1>q, <1>f DEF SetupInv, CACert
  <2> QED BY <1>q, <1>f, <2>1, <2>2 DEF SetupInv, Reads
<1>4. /\ HoldsCA(q)' /\ mem'[q][CACert'] = mem'[q][CAKey'] => OnDisk(mem[q][CACert])'
      /\ pc'[q] \in {"saveCert", "saveKey", "loadKey", "pair", "up"} =>
             mem'[q]["tndrl.crt"] \in Certificates /\ OnDisk(mem[q]["tndrl.crt"].by)'
  <2>1. PICK ca, by : ca = mem[q][CACert] /\ by = mem[q]["tndrl.crt"].by
    OBVIOUS
  <2>2. mem'[q][CACert'] = ca /\ mem'[q]["tndrl.crt"].by = by
    BY <1>q, <2>1
  <2>3. OnDisk(mem[q][CACert])' <=> OnDisk(ca)'
    BY <2>2 DEF OnDisk
  <2>4. OnDisk(mem[q]["tndrl.crt"].by)' <=> OnDisk(by)'
    BY <2>2 DEF OnDisk
  <2>5. HoldsCA(q)' <=> HoldsCA(q)
    BY <1>q DEF HoldsCA
  <2> QED BY <1>q, <1>f, <2>1, <2>3, <2>4, <2>5 DEF SetupInv
<1> QED BY <1>1, <1>2, <1>3, <1>4 DEF SetupInv

\* A process that is at none of the steps of its set-up relies on nothing.
LEMMA IdleSetup ==
    ASSUME NEW p \in Processes, ~half'[p] \/ pc'[p] \in Ended,
           pc'[p] \in {"checkCA", "loadCACert", "loadCAKey", "loadCert",
                       "idle", "failed", "diskError", "killed"}
    PROVE  SetupInv(p)'
BY DEF SetupInv, Reads, HoldsCA, Active, Ended

LEMMA OwnSetup ==
    ASSUME TrustInv, NEW p \in Processes, Acts(p)
    PROVE  SetupInv(p)'
<1>t. /\ TypeOK /\ Busy(p) /\ SetupInv(p) /\ DiskInv
      /\ p \in DOMAIN pc /\ p \in DOMAIN half /\ half[p] \in BOOLEAN
      /\ UNCHANGED <<own, CACert, CAKey>>
  BY OthersSame DEF TrustInv, TypeInv, TypeOK
<1>f. \A ca : OnDisk(ca) => OnDisk(ca)'
  BY DiskMoves
<1>n. Servers \cap Clients = {} /\ CACert # CAKey /\ CACert \in Files /\ CAKey \in Files
      /\ CACert \in CAFiles /\ CAKey \in CAFiles
  BY PKIAssumption, Names DEF Files, CAFiles
<1> USE DEF Goto
<1>1. ASSUME NEW init \in BOOLEAN, Start(p, init) PROVE SetupInv(p)'
  <2>1. ~half'[p] /\ pc'[p] \in {"checkCA", "loadCACert"}
    BY <1>1, <1>t DEF Start
  <2> QED BY <2>1, IdleSetup
<1>2. CASE ConfigError(p) \/ Kill(p) \/ DiskFails(p)
  <2>1. pc'[p] \in {"failed", "diskError", "killed"}
    BY <1>2, <1>t DEF ConfigError, Kill, DiskFails
  <2> QED BY <2>1, IdleSetup DEF Ended
<1>3. CASE FindCA(p) \/ ClientFindsCA(p) \/ CheckCert(p)
  <2>1. /\ UNCHANGED <<file, half, mem>>
        /\ pc[p] \in {"checkCA", "checkCert"} /\ ~half'[p]
        /\ \/ pc'[p] \in {"failed", "loadCACert"}
           \/ pc'[p] = "readCACert" /\ (Reads(p) \/ CAExists)
           \/ pc'[p] = "checkCert" /\ p \in Clients /\ CertExists(CACert, CAKey)
           \/ pc'[p] = "sign" /\ HoldsCA(p)
    <3>1. UNCHANGED <<file, half, mem>> /\ pc[p] \in {"checkCA", "checkCert"}
      BY <1>3 DEF FindCA, ClientFindsCA, CheckCert, Step
    <3>2. ~half'[p]
      BY <1>t, <3>1 DEF SetupInv, Active, Ended, SaveLabels
    <3>3. \/ pc'[p] \in {"failed", "loadCACert"}
          \/ pc'[p] = "readCACert" /\ (Reads(p) \/ CAExists)
          \/ pc'[p] = "checkCert" /\ p \in Clients /\ CertExists(CACert, CAKey)
          \/ pc'[p] = "sign" /\ HoldsCA(p)
      BY <1>3, <1>t DEF FindCA, ClientFindsCA, CheckCert, Step, HoldsCA, Reads, Processes
    <3> QED BY <3>1, <3>2, <3>3
  <2>2. CASE pc'[p] \in {"failed", "loadCACert"}
    BY <2>1, <2>2, IdleSetup
  <2>3. CASE pc'[p] = "readCACert" \/ (pc'[p] = "checkCert" /\ p \in Clients)
    <3>1. ~own => Exists("ca.key")
      BY <1>t, <1>n, <2>1, <2>3 DEF CAExists, CertExists, CAKey, SetupInv
    <3>2. UNCHANGED Exists("ca.key")
      BY <2>1 DEF Exists
    <3> QED BY <1>t, <1>n, <2>1, <2>3, <3>1, <3>2
            DEF SetupInv, HoldsCA, SaveLabels
  <2>4. CASE pc'[p] = "sign"
    <3>1. PICK ca : ca = mem[p][CACert] /\ ca = mem'[p][CACert']
      BY <1>t, <2>1
    <3>2. mem'[p][CACert'] = mem'[p][CAKey'] => OnDisk(ca)'
      BY <1>t, <1>f, <2>1, <2>4, <3>1 DEF SetupInv
    <3>3. mem'[p][CACert'] = mem'[p][CAKey'] => OnDisk(mem[p][CACert])'
      BY <3>1, <3>2 DEF OnDisk
    <3> QED BY <2>1, <2>4, <3>3 DEF SetupInv, Reads, SaveLabels
  <2> QED BY <2>1, <2>2, <2>3, <2>4
<1>4. CASE GenerateCA(p)
  <2>1. /\ p \in Servers /\ ~CAExists /\ pc[p] = "checkCA" /\ pc'[p] = "saveCACert"
        /\ UNCHANGED <<file, half>> /\ Keep(p, [f \in CAFiles |-> Fresh(p)])
    BY <1>4, <1>t DEF GenerateCA, Step
  <2>2. file'["ca.key"] = None
    BY <1>t, <2>1 DEF CAExists, Exists, DiskInv
  <2>3. \A f \in CAFiles : mem'[p][f] = Fresh(p)
    BY <1>t, <2>1, Names, KeepTypes
  <2>4. ~half'[p]
    BY <1>t, <2>1 DEF SetupInv, Active, Ended, SaveLabels
  <2>5. "ca.crt" \in CAFiles
    BY DEF CAFiles
  <2> QED BY <2>1, <2>2, <2>3, <2>4, <2>5 DEF SetupInv, Reads, HoldsCA
<1>5. CASE Sign(p)
  <2>1. pc[p] = "sign" /\ UNCHANGED half
    BY <1>5 DEF Sign, Step
  <2>2. ~half'[p]
    BY <1>t, <2>1 DEF SetupInv, Active, Ended, SaveLabels
  <2>3. CASE mem[p][CACert] # mem[p][CAKey]
    <3>1. pc'[p] = "failed"
      BY <1>5, <1>t, <2>3 DEF Sign, Step
    <3> QED BY <2>2, <3>1, IdleSetup
  <2>4. CASE mem[p][CACert] = mem[p][CAKey]
    <3>1. PICK ca : ca = mem[p][CACert]
      OBVIOUS
    <3>2. /\ pc'[p] = "saveCert"
          /\ Keep(p, [f \in {"tndrl.crt", "tndrl.key"} |->
                         IF f = "tndrl.crt" THEN Certificate(ca, Fresh(p)) ELSE Fresh(p)])
      BY <1>5, <1>t, <2>4, <3>1 DEF Sign, Step
    <3>3. mem'[p]["tndrl.crt"] = Certificate(ca, Fresh(p))
      BY <1>t, <3>2, KeepTypes DEF Files
    <3>4. OnDisk(ca)' /\ ca \in CAs
      BY <1>t, <1>f, <2>1, <2>4, <3>1 DEF SetupInv, HoldsCA, OnDisk
    <3>5. Fresh(p) \in Pairs
      BY <1>t, <2>1, FreshIsPair DEF Busy, Active, Ended
    <3>6. mem'[p]["tndrl.crt"] \in Certificates /\ mem'[p]["tndrl.crt"].by = ca
      BY <3>3, <3>4, <3>5 DEF Certificate, Certificates
    <3>7. OnDisk(mem[p]["tndrl.crt"].by)'
      BY <3>4, <3>6 DEF OnDisk
    <3> QED BY <2>2, <3>2, <3>6, <3>7 DEF SetupInv, Reads, HoldsCA, SaveLabels
  <2> QED BY <2>3, <2>4
<1>6. ASSUME NEW s \in Saves, Truncate(p, s) PROVE SetupInv(p)'
  <2>1. /\ pc[p] = s.at /\ ~half[p] /\ half'[p] /\ UNCHANGED <<pc, mem>>
        /\ file' = [file EXCEPT ![s.file] = Torn]
        /\ s.at \in SaveLabels
    BY <1>6, <1>t DEF Truncate, Saves, SaveLabels
  <2>a. /\ \A r \in Saves : r.at = "saveCACert" => r.file = "ca.crt"
        /\ \A r \in Saves : r.at = "saveCAKey" => r.file = "ca.key"
    BY DEF Saves
  <2>f. DOMAIN file = Files /\ "ca.crt" \in Files /\ "ca.key" \in Files
    BY <1>t DEF TypeOK, Files, CAFiles
  <2>2. pc[p] = "saveCACert" => file'["ca.key"] = None
    <3> SUFFICES ASSUME pc[p] = "saveCACert" PROVE file'["ca.key"] = None
      OBVIOUS
    <3>1. s.file = "ca.crt"
      BY <2>1, <2>a
    <3>2. file["ca.key"] = None
      BY <1>t DEF SetupInv
    <3> QED BY <2>1, <2>f, <3>1, <3>2
  <2>3. pc[p] = "saveCAKey" => file'["ca.crt"] = mem'[p]["ca.crt"] /\ file'["ca.key"] = Torn
    <3> SUFFICES ASSUME pc[p] = "saveCAKey"
                 PROVE  file'["ca.crt"] = mem'[p]["ca.crt"] /\ file'["ca.key"] = Torn
      OBVIOUS
    <3>1. s.file = "ca.key"
      BY <2>1, <2>a
    <3>2. file["ca.crt"] = mem[p]["ca.crt"]
      BY <1>t DEF SetupInv
    <3> QED BY <2>1, <2>f, <3>1, <3>2
  <2>4. PICK by : by = mem[p]["tndrl.crt"].by
    OBVIOUS
  <2>5. pc[p] \in {"saveCert", "saveKey"} => OnDisk(mem[p]["tndrl.crt"].by)'
    <3>1. pc[p] \in {"saveCert", "saveKey"} => OnDisk(by)'
      BY <1>t, <1>f, <2>4 DEF SetupInv
    <3>2. mem'[p]["tndrl.crt"].by = by
      BY <2>1, <2>4
    <3> QED BY <3>1, <3>2 DEF OnDisk
  <2> QED BY <1>t, <2>1, <2>2, <2>3, <2>5 DEF SetupInv, Reads, HoldsCA, SaveLabels
<1>7. ASSUME NEW s \in Saves, Fill(p, s) PROVE SetupInv(p)'
  <2>1. /\ pc[p] = s.at /\ half[p] /\ ~half'[p] /\ UNCHANGED mem /\ pc'[p] = s.next
        /\ file' = [file EXCEPT ![s.file] = mem[p][s.file]]
    BY <1>7, <1>t DEF Fill
  <2>f. /\ s.file \in Files /\ file'[s.file] = mem[p][s.file]
        /\ \A f \in Files \ {s.file} : file'[f] = file[f]
    BY <1>t, <2>1 DEF TypeOK, Saves, Files, CAFiles
  <2>2. CASE s.at = "saveCACert"
    <3>1. s.file = "ca.crt" /\ s.next = "saveCAKey" /\ p \in Servers
      BY <1>t, <2>1, <2>2 DEF Saves, SetupInv
    <3>2. file'["ca.crt"] = mem'[p]["ca.crt"] /\ file'["ca.key"] = None
      BY <1>t, <2>1, <2>f, <2>2, <3>1 DEF SetupInv, Files, CAFiles
    <3>3. \A f \in CAFiles : mem'[p][f] = mem'[p]["ca.crt"]
      BY <1>t, <2>1, <2>2 DEF SetupInv
    <3> QED BY <2>1, <3>1, <3>2, <3>3 DEF SetupInv, Reads, HoldsCA, SaveLabels
  <2>3. CASE s.at = "saveCAKey"
    <3>1. /\ s.file = "ca.key" /\ s.next = "checkCert" /\ p \in Servers
          /\ p \notin Clients
      BY <1>t, <1>n, <2>1, <2>3 DEF Saves, SetupInv
    <3>2. PICK ca \in CAs : ca = mem[p]["ca.crt"]
      <4>1. "ca.crt" \in CAFiles
        BY DEF CAFiles
      <4> QED BY <1>t, <2>1, <2>3, <4>1 DEF Busy
    <3>3. \A f \in CAFiles : mem'[p][f] = ca
      BY <1>t, <2>1, <2>3, <3>2 DEF SetupInv
    <3>4. file'["ca.crt"] = ca /\ file'["ca.key"] = ca
      BY <1>t, <2>1, <2>f, <2>3, <3>1, <3>2, <3>3 DEF SetupInv, Files, CAFiles
    <3>5. mem'[p][CACert'] = ca
      BY <1>t, <1>n, <3>3
    <3>6. OnDisk(mem[p][CACert])'
      BY <3>4, <3>5 DEF OnDisk
    <3> QED BY <2>1, <3>1, <3>6 DEF SetupInv, Reads
  <2>4. CASE s.at \in {"saveCert", "saveKey"}
    <3>1. PICK by : by = mem[p]["tndrl.crt"].by
      OBVIOUS
    <3>2. OnDisk(by)' /\ mem[p]["tndrl.crt"] \in Certificates
      BY <1>t, <1>f, <2>1, <2>4, <3>1 DEF SetupInv
    <3>3. mem'[p]["tndrl.crt"].by = by
      BY <2>1, <3>1
    <3>4. OnDisk(mem[p]["tndrl.crt"].by)'
      BY <3>2, <3>3 DEF OnDisk
    <3>5. s.next \in {"saveKey", "loadCACert"}
      BY <2>4 DEF Saves
    <3> QED BY <2>1, <3>2, <3>4, <3>5 DEF SetupInv, Reads, HoldsCA, SaveLabels
  <2> QED BY <2>2, <2>3, <2>4 DEF Saves
<1>8. ASSUME NEW l \in Loads(p), Load(p, l) PROVE SetupInv(p)'
  <2>1. /\ pc[p] = l.at /\ UNCHANGED <<file, half>> /\ ~half'[p] /\ l.file \in Files
    <3>1. pc[p] = l.at /\ UNCHANGED <<file, half>> /\ l.file \in Files
      BY <1>8, <1>n DEF Load, Step, Loads, Files
    <3>2. Active(p) /\ pc[p] \notin SaveLabels
      BY <1>8, <3>1 DEF Loads, Active, Ended, SaveLabels
    <3> QED BY <1>t, <3>1, <3>2 DEF SetupInv
  <2>2. CASE file[l.file] \in {None, Torn}
    <3>1. pc'[p] = "failed"
      BY <1>8, <1>t, <2>2 DEF Load, Step
    <3> QED BY <2>1, <3>1, IdleSetup
  <2>3. CASE file[l.file] \notin {None, Torn}
    <3>1. Keep(p, [f \in {l.file} |-> file[f]]) /\ pc'[p] = l.next
      BY <1>8, <1>t, <2>3 DEF Load, Step
    <3>2. \A f \in Files : mem'[p][f] = IF f = l.file THEN file[f] ELSE mem[p][f]
      BY <1>t, <3>1, KeepTypes
    <3>3. file[l.file] \in Content(l.file)
      BY <1>t, <2>1, <2>3 DEF TypeOK
    <3>4. CASE l.at = "readCACert"
      <4>1. l.file = CACert /\ l.next = "readCAKey"
        BY <3>4 DEF Loads
      <4>2. mem'[p][CACert'] = file'[CACert']
        BY <1>t, <1>n, <2>1, <3>2, <4>1
      <4>3. ~own' => Exists("ca.key")'
        BY <1>t, <2>1, <3>4 DEF SetupInv, Reads, Exists
      <4> QED BY <2>1, <3>1, <4>1, <4>2, <4>3 DEF SetupInv, HoldsCA
    <3>5. CASE l.at = "readCAKey"
      <4>1. l.file = CAKey /\ l.next = IF p \in Servers THEN "checkCert" ELSE "sign"
        BY <3>5 DEF Loads
      <4>2. PICK ca : ca = mem[p][CACert]
        OBVIOUS
      <4>3. ca = file[CACert] /\ ca \in CAs /\ mem'[p][CACert'] = ca
        BY <1>t, <1>n, <2>1, <3>2, <3>5, <4>1, <4>2 DEF SetupInv, Busy
      <4>4. mem'[p][CACert'] = mem'[p][CAKey'] => OnDisk(ca)'
        BY <1>t, <1>n, <2>1, <3>2, <4>1, <4>3 DEF OnDisk
      <4>5. mem'[p][CACert'] = mem'[p][CAKey'] => OnDisk(mem[p][CACert])'
        BY <4>3, <4>4 DEF OnDisk
      <4> QED BY <1>n, <2>1, <3>1, <4>1, <4>5 DEF SetupInv, Reads
    <3>6. CASE l.at \in {"loadCACert", "loadCAKey"}
      <4>1. l.next \in {"loadCAKey", "loadCert"}
        BY <3>6 DEF Loads
      <4> QED BY <2>1, <3>1, <4>1, IdleSetup
    <3>7. CASE l.at = "loadCert"
      <4>1. l.file = "tndrl.crt" /\ l.next = "loadKey"
        BY <3>7 DEF Loads
      <4>2. PICK by : by = file["tndrl.crt"].by
        OBVIOUS
      <4>3. /\ mem'[p]["tndrl.crt"] = file["tndrl.crt"]
            /\ file["tndrl.crt"] \in Certificates
        BY <2>1, <3>2, <3>3, <4>1, Names
      <4>4. OnDisk(by)'
        BY <1>t, <1>f, <4>2, <4>3 DEF DiskInv
      <4>5. OnDisk(mem[p]["tndrl.crt"].by)'
        BY <4>2, <4>3, <4>4 DEF OnDisk
      <4> QED BY <2>1, <3>1, <4>1, <4>3, <4>5 DEF SetupInv, Reads, HoldsCA
    <3>8. CASE l.at = "loadKey"
      <4>1. l.file = "tndrl.key" /\ l.next = "pair"
        BY <3>8 DEF Loads
      <4>2. PICK by : by = mem[p]["tndrl.crt"].by
        OBVIOUS
      <4>3. mem'[p]["tndrl.crt"] = mem[p]["tndrl.crt"]
        BY <3>2, <4>1 DEF Files
      <4>4. OnDisk(by)' /\ mem[p]["tndrl.crt"] \in Certificates
        BY <1>t, <1>f, <2>1, <3>8, <4>2 DEF SetupInv
      <4>5. OnDisk(mem[p]["tndrl.crt"].by)'
        BY <4>2, <4>3, <4>4 DEF OnDisk
      <4> QED BY <2>1, <3>1, <4>1, <4>3, <4>4, <4>5 DEF SetupInv, Reads, HoldsCA
    <3> QED BY <3>4, <3>5, <3>6, <3>7, <3>8 DEF Loads
  <2> QED BY <2>2, <2>3
<1>9. CASE TLSConfig(p)
  <2>1. /\ pc[p] = "pair" /\ UNCHANGED <<file, half, mem>> /\ ~half'[p]
        /\ pc'[p] = IF KeyMatches(p) THEN "up" ELSE "failed"
    BY <1>9, <1>t DEF TLSConfig, Step, SetupInv, Active, Ended, SaveLabels
  <2>2. CASE ~KeyMatches(p)
    BY <2>1, <2>2, IdleSetup
  <2>3. CASE KeyMatches(p)
    <3>1. PICK by : by = mem[p]["tndrl.crt"].by
      OBVIOUS
    <3>2. OnDisk(by)' /\ mem'[p]["tndrl.crt"].by = by /\ mem[p]["tndrl.crt"] \in Certificates
      BY <1>t, <1>f, <2>1, <3>1 DEF SetupInv
    <3>3. OnDisk(mem[p]["tndrl.crt"].by)'
      BY <3>2 DEF OnDisk
    <3> QED BY <2>1, <2>3, <3>2, <3>3 DEF SetupInv, Reads, HoldsCA, KeyMatches, Active, Ended
  <2> QED BY <2>2, <2>3
<1> QED BY <1>1, <1>2, <1>3, <1>4, <1>5, <1>6, <1>7, <1>8, <1>9 DEF Acts, Setup

LEMMA TrustInit == Init => TrustInv
<1> SUFFICES ASSUME Init PROVE TrustInv
  OBVIOUS
<1>1. TypeInv
  BY TypeInit
<1>2. PICK present \in {{}, {CACert}, {CACert, CAKey}} :
          file = [f \in Files |-> IF f \in present THEN Given ELSE None]
  BY DEF Init
<1>3. DiskInv
  <2>1. file["tndrl.crt"] = None
    BY <1>2, Names DEF Files, CAFiles
  <2>2. Exists("ca.key") => Exists("ca.crt")
    BY <1>2, Names DEF Exists, Files, CAFiles, CACert, CAKey
  <2> QED BY <2>1, <2>2, Names DEF DiskInv
<1>4. \A p \in Processes : pc[p] = "idle"
  BY DEF Init
<1> QED BY <1>1, <1>3, <1>4 DEF TrustInv, SetupInv, Reads, HoldsCA, Active, Ended

LEMMA TrustStep ==
    ASSUME OneDaemon, TrustInv, NEW p \in Processes, Acts(p)
    PROVE  TrustInv'
<1>1. TypeInv' /\ DiskInv'
  BY TypeStep, DiskMoves DEF TrustInv
<1>2. \A q \in Processes : SetupInv(q)'
  BY OwnSetup, OtherSetup
<1> QED BY <1>1, <1>2 DEF TrustInv

-----------------------------------------------------------------------------
(* Startup *)

\* Every step of a machine is that of a process in PKI or leaves its files,
\* and what its processes know, alone.
LEMMA Steps ==
    ASSUME [Next]_vars \/ [StartupNext]_startVars
    PROVE  (\E p \in Processes : Acts(p)) \/ UNCHANGED vars
<1>1. CASE Next
  BY <1>1 DEF Next, Acts
<1>2. ASSUME NEW p \in Processes, NEW init, StartWith(p, init)
      PROVE  Acts(p)
  <2>1. (init = "true") \in BOOLEAN
    OBVIOUS
  <2> QED BY <1>2, <2>1 DEF StartWith, Acts
<1>3. ASSUME NEW p \in Servers,
             \/ Listen(p) \/ WriteConfig(p) \/ NewHost(p)
             \/ \E v \in ProviderValues : CreateProvider(p, v)
      PROVE  UNCHANGED vars
  BY <1>3 DEF Listen, WriteConfig, NewHost, CreateProvider, CreateMCPHost, CreateOther,
              Serve
<1>4. CASE StartupNext
  BY <1>2, <1>3, <1>4 DEF StartupNext, Acts
<1> QED BY <1>1, <1>4 DEF startVars

LEMMA SameType == TypeInv /\ UNCHANGED vars => TypeInv'
BY DEF TypeInv, TypeOK, Busy, HoldsCA, Active, CACert, CAKey, vars

LEMMA SameTrust == TrustInv /\ UNCHANGED vars => TrustInv'
<1> SUFFICES ASSUME TrustInv, UNCHANGED vars PROVE TrustInv'
  OBVIOUS
<1>1. TypeInv'
  BY SameType DEF TrustInv
<1>2. DiskInv'
  BY DEF TrustInv, DiskInv, Exists, OnDisk, CACert, CAKey, vars
<1>3. ASSUME NEW p \in Processes PROVE SetupInv(p)'
  BY DEF TrustInv, SetupInv, Reads, HoldsCA, Active, Exists, OnDisk, CACert, CAKey, vars
<1> QED BY <1>1, <1>2, <1>3 DEF TrustInv

\* The daemon has no temporary file at these stages.
Fileless == {"none", "create", "failed", "echo", "ollama"}

TempInv ==
    /\ serve \in [Servers -> Fileless \cup {"write", "new", "mcphost"}]
    /\ \A p \in Servers : \A n \in 0 .. MaxStarts[p] :
           <<p, n>> \in temp => n <= starts[p]
    /\ \A p \in Servers : serve[p] \in Fileless => Fresh(p) \notin temp

LEMMA TempInit == StartupInit => TempInv
BY DEF StartupInit, TempInv, Fileless

\* A process that starts finds no file of its own.
LEMMA TempRestart ==
    ASSUME TypeOK, TempInv, NEW p \in Processes, Restart(p), UNCHANGED temp,
           starts[p] < MaxStarts[p], starts' = [starts EXCEPT ![p] = @ + 1]
    PROVE  TempInv'
<1>1. /\ \A q \in Processes : starts[q] \in Nat /\ MaxStarts[q] \in Nat
      /\ starts'[p] = starts[p] + 1 /\ starts'[p] \in 0 .. MaxStarts[p]
      /\ \A q \in Processes \ {p} : starts'[q] = starts[q]
      /\ Servers \subseteq Processes
  BY PKIAssumption DEF TypeOK, Processes
<1>2. \A q \in Servers : \A n \in 0 .. MaxStarts[q] : <<q, n>> \in temp => n <= starts'[q]
  <2> SUFFICES ASSUME NEW q \in Servers, NEW n \in 0 .. MaxStarts[q], n <= starts[q]
               PROVE  n <= starts'[q]
    BY DEF TempInv
  <2> QED BY <1>1
<1>3. serve' \in [Servers -> Fileless \cup {"write", "new", "mcphost"}]
  BY DEF TempInv, Restart, Fileless
<1>4. ASSUME NEW q \in Servers, serve'[q] \in Fileless PROVE <<q, starts'[q]>> \notin temp
  <2>1. CASE q = p
    <3>1. ~(starts'[p] <= starts[p])
      BY <1>1
    <3> QED BY <1>1, <2>1, <3>1 DEF TempInv
  <2>2. CASE q # p
    <3>1. starts'[q] = starts[q] /\ serve[q] \in Fileless
      BY <1>1, <1>4, <2>2 DEF Restart
    <3> QED BY <3>1 DEF TempInv, Fresh
  <2> QED BY <2>1, <2>2
<1> QED BY <1>2, <1>3, <1>4 DEF TempInv, Fresh

LEMMA TempStep ==
    ASSUME TypeOK, TempInv, [StartupNext]_startVars
    PROVE  TempInv'
<1>1. ASSUME NEW p \in Processes, NEW init, StartWith(p, init) PROVE TempInv'
  BY <1>1, TempRestart DEF StartWith, Start
<1>2. ASSUME NEW p \in Processes, ConfigError(p) PROVE TempInv'
  BY <1>2, TempRestart DEF ConfigError
<1>3. ASSUME NEW p \in Processes, Setup(p) \/ Kill(p), UNCHANGED startupVars
      PROVE  TempInv'
  <2>1. UNCHANGED starts
    BY <1>3 DEF Setup, Kill, FindCA, GenerateCA, ClientFindsCA, CheckCert, Sign,
                TLSConfig, Truncate, Fill, DiskFails, Load, Step
  <2> QED BY <1>3, <2>1 DEF TempInv, Fresh, startupVars
<1>4. ASSUME NEW p \in Servers, NEW from, NEW to \in Fileless \cup {"write", "new", "mcphost"},
             Serve(p, from, to), temp' = temp \/ temp' = temp \ {Fresh(p)},
             to \in Fileless => Fresh(p) \notin temp'
      PROVE  TempInv'
  <2>1. /\ UNCHANGED starts /\ serve' = [serve EXCEPT ![p] = to]
        /\ \A q \in Servers : Fresh(q)' = Fresh(q)
    BY <1>4 DEF Serve, vars, Fresh
  <2>2. /\ serve' \in [Servers -> Fileless \cup {"write", "new", "mcphost"}]
        /\ serve'[p] = to /\ \A q \in Servers \ {p} : serve'[q] = serve[q]
    BY <1>4, <2>1 DEF TempInv
  <2>3. \A q \in Servers : serve'[q] \in Fileless => Fresh(q) \notin temp'
    BY <1>4, <2>2 DEF TempInv
  <2>4. \A q \in Servers : \A n \in 0 .. MaxStarts[q] : <<q, n>> \in temp' => n <= starts[q]
    BY <1>4 DEF TempInv
  <2> QED BY <2>1, <2>2, <2>3, <2>4 DEF TempInv
<1>5. ASSUME NEW p \in Servers, Serve(p, "create", "write"), temp' = temp \cup {Fresh(p)}
      PROVE  TempInv'
  <2>1. /\ UNCHANGED starts /\ serve' = [serve EXCEPT ![p] = "write"]
        /\ \A q \in Servers : Fresh(q)' = Fresh(q)
    BY <1>5 DEF Serve, vars, Fresh
  <2>2. /\ serve' \in [Servers -> Fileless \cup {"write", "new", "mcphost"}]
        /\ serve'[p] \notin Fileless /\ \A q \in Servers \ {p} : serve'[q] = serve[q]
    BY <2>1 DEF TempInv, Fileless
  <2>3. ASSUME NEW q \in Servers, serve'[q] \in Fileless PROVE Fresh(q) \notin temp'
    <3>1. q # p /\ Fresh(q) \notin temp
      BY <2>2, <2>3 DEF TempInv
    <3> QED BY <1>5, <3>1 DEF Fresh
  <2>4. ASSUME NEW q \in Servers, NEW n \in 0 .. MaxStarts[q], <<q, n>> \in temp'
        PROVE  n <= starts[q]
    <3>1. CASE <<q, n>> \in temp
      BY <3>1 DEF TempInv
    <3>2. CASE <<q, n>> = Fresh(p)
      <4>1. n = starts[q] /\ q \in Processes
        BY <3>2 DEF Fresh, Processes
      <4>2. starts[q] \in Nat
        BY <4>1, PKIAssumption DEF TypeOK
      <4> QED BY <4>1, <4>2
    <3> QED BY <1>5, <2>4, <3>1, <3>2
  <2> QED BY <2>1, <2>2, <2>3, <2>4 DEF TempInv
<1>6. ASSUME NEW p \in Servers, Listen(p) PROVE TempInv'
  <2>1. PICK to \in {"create", "failed"} : Serve(p, "none", to) /\ UNCHANGED temp
    BY <1>6 DEF Listen
  <2>2. Fresh(p) \notin temp
    BY <2>1 DEF Serve, TempInv, Fileless
  <2> QED BY <1>4, <2>1, <2>2 DEF Fileless
<1>7. ASSUME NEW p \in Servers, NEW v, CreateProvider(p, v) PROVE TempInv'
  <2>1. serve[p] = "create" /\ Fresh(p) \notin temp
    <3>1. serve[p] = "create"
      BY <1>7 DEF CreateProvider, CreateMCPHost, CreateOther, Serve
    <3> QED BY <3>1 DEF TempInv, Fileless
  <2>2. \/ \E to \in {"echo", "ollama", "failed", "new"} : Serve(p, "create", to) /\ UNCHANGED temp
        \/ Serve(p, "create", "write") /\ temp' = temp \cup {Fresh(p)}
    BY <1>7 DEF CreateProvider, CreateMCPHost, CreateOther
  <2> QED BY <1>4, <1>5, <2>1, <2>2 DEF Fileless
<1>8. ASSUME NEW p \in Servers, WriteConfig(p) \/ NewHost(p) PROVE TempInv'
  <2>1. \/ \E from, to \in {"write", "new", "mcphost"} : Serve(p, from, to) /\ UNCHANGED temp
        \/ \E from \in {"write", "new"} : Serve(p, from, "failed") /\ temp' = temp \ {Fresh(p)}
    BY <1>8 DEF WriteConfig, NewHost, RemoveTemp
  <2> QED BY <1>4, <2>1 DEF Fileless
<1>9. CASE UNCHANGED startVars
  BY <1>9 DEF TempInv, Fresh, startVars, startupVars, vars
<1> QED BY <1>1, <1>2, <1>3, <1>6, <1>7, <1>8, <1>9 DEF StartupNext

-----------------------------------------------------------------------------
(* Config *)

\* The settings of cli.go, field by field, are those of docs/configuration.md
\* wherever Deviates does not say otherwise.
LEMMA Precedence == PrecedenceHolds
<1> SUFFICES ASSUME NEW line \in Lines, NEW f \in Fields, ~Deviates(line, f)
             PROVE  Settings(line)[f] = Documented(line, f)
  BY DEF PrecedenceHolds
<1>1. \A s \in {"flags", "env", "file"} : line[s] \in {"absent", "zero", "set"}
  BY DEF Lines
<1> DEFINE parsed == IF line["flags"] # "absent" THEN Gives(line, "flags", f)
                     ELSE IF line["env"] # "absent" THEN Gives(line, "env", f)
                     ELSE TagDefault(f)
           read == IF line["file"] # "absent" THEN Gives(line, "file", f) ELSE Unset(f)
           merged == IF parsed = Unset(f) THEN read ELSE parsed
\* What is left of the maps over all fields, for this one
<1>2. Settings(line)[f] = IF merged = Unset(f) THEN Default(f) ELSE merged
  BY DEF Settings, ApplyDefaults, Merge, Parse, Unmarshal
<1> USE <1>1 DEF Documented, Decisive, Deviates, Gives, TagDefault, Default, Unset,
                 ExplicitZero, Pointers, Strings, ProviderOf
<1>3. CASE f = "addr"
  BY <1>2, <1>3
<1>4. CASE f = "logLevel"
  BY <1>2, <1>4
<1>5. CASE f = "provider"
  BY <1>2, <1>5
<1>6. CASE f = "init"
  BY <1>2, <1>6
<1>7. CASE f = "streaming"
  BY <1>2, <1>7
<1> QED BY <1>3, <1>4, <1>5, <1>6, <1>7 DEF Fields

-----------------------------------------------------------------------------
(* Theorems, of the specification that the run checks *)

\* pkg/pki: no process puts into a file what belongs into another, and what it
\* has loaded or generated is of the kind its next step needs.
THEOREM TypeCorrect == StartupSpec => []TypeOK
<1>1. StartupInit => TypeInv
  BY TypeInit DEF StartupInit
<1>2. TypeInv /\ [StartupNext]_startVars => TypeInv'
  BY Steps, TypeStep, SameType
<1>3. TypeInv => TypeOK
  BY DEF TypeInv
<1> QED BY <1>1, <1>2, <1>3, PTL DEF StartupSpec

\* The invariant of the CA, once for the theorems that rest on it
LEMMA Trusted == ASSUME OneDaemon PROVE StartupSpec => []TrustInv
<1>1. StartupInit => TrustInv
  BY TrustInit DEF StartupInit
<1>2. TrustInv /\ [StartupNext]_startVars => TrustInv'
  BY OneDaemon, Steps, TrustStep, SameTrust
<1> QED BY <1>1, <1>2, PTL DEF StartupSpec

\* setupServerTLS and setupClientTLS: with one daemon, a certificate on the
\* disk is of a CA whose certificate and key are on the disk too.
THEOREM CertsCorrect == ASSUME OneDaemon PROVE StartupSpec => []CertsMatchCA
<1>1. TrustInv => CertsMatchCA
  <2> SUFFICES ASSUME TrustInv, file["tndrl.crt"] \in Certificates
               PROVE  \E ca \in Origins :
                          \A f \in {ca[1], ca[2]} : file[f] = file["tndrl.crt"].by
    BY DEF CertsMatchCA
  <2>1. OnDisk(file["tndrl.crt"].by)
    BY DEF TrustInv, DiskInv
  <2>2. CASE file["ca.crt"] = file["tndrl.crt"].by /\ file["ca.key"] = file["tndrl.crt"].by
    <3>1. <<"ca.crt", "ca.key">> \in Origins
      BY DEF Origins
    <3> QED BY <2>2, <3>1
  <2>3. CASE file[CACert] = file["tndrl.crt"].by /\ file[CAKey] = file["tndrl.crt"].by
    <3>1. <<CACert, CAKey>> \in Origins
      BY DEF Origins
    <3> QED BY <2>3, <3>1
  <2> QED BY <2>1, <2>2, <2>3 DEF OnDisk
<1> QED BY <1>1, Trusted, PTL

\* Cert.TLSCertificate: with one daemon, whoever is up has the key of its
\* certificate, and the certificate is of a CA of the machine.
THEOREM UpCorrect == ASSUME OneDaemon PROVE StartupSpec => []UpMeansConsistent
<1>1. TrustInv => UpMeansConsistent
  <2> SUFFICES ASSUME TrustInv, NEW p \in Processes, pc[p] = "up"
               PROVE  /\ mem[p]["tndrl.key"] = mem[p]["tndrl.crt"].id
                      /\ \E ca \in Origins : mem[p]["tndrl.crt"].by = file[ca[1]]
    BY DEF UpMeansConsistent
  <2>1. OnDisk(mem[p]["tndrl.crt"].by) /\ mem[p]["tndrl.key"] = mem[p]["tndrl.crt"].id
    BY DEF TrustInv, SetupInv
  <2>2. <<CACert, CAKey>>[1] = CACert /\ <<"ca.crt", "ca.key">>[1] = "ca.crt"
    OBVIOUS
  <2> QED BY <2>1, <2>2 DEF OnDisk, Origins
<1> QED BY <1>1, Trusted, PTL

\* What is left of that with any number of daemons, whose files may mix
KeysMatch ==
    \A p \in Processes : pc[p] = "up" => mem[p]["tndrl.key"] = mem[p]["tndrl.crt"].id

LEMMA ComesUp ==
    ASSUME TypeOK, NEW p \in Processes, Acts(p), pc'[p] = "up"
    PROVE  mem'[p]["tndrl.key"] = mem'[p]["tndrl.crt"].id \/ (pc[p] = "up" /\ UNCHANGED mem)
<1>t. p \in DOMAIN pc
  BY DEF TypeOK
<1> USE <1>t DEF Goto
<1>1. CASE ~Setup(p)
  BY <1>1 DEF Acts, Start, ConfigError, Kill
<1>2. CASE TLSConfig(p)
  BY <1>2 DEF TLSConfig, Step, KeyMatches
<1>3. CASE FindCA(p) \/ GenerateCA(p) \/ ClientFindsCA(p) \/ CheckCert(p) \/ Sign(p)
  BY <1>3 DEF FindCA, GenerateCA, ClientFindsCA, CheckCert, Sign, Step
<1>4. ASSUME NEW s \in Saves, Truncate(p, s) PROVE pc[p] = "up" /\ UNCHANGED mem
  BY <1>4 DEF Truncate
<1>5. ASSUME NEW s \in Saves, Fill(p, s) PROVE FALSE
  <2>1. pc'[p] = s.next
    BY <1>5 DEF Fill
  <2> QED BY <2>1 DEF Saves
<1>6. ASSUME NEW l \in Loads(p), Load(p, l) PROVE FALSE
  <2>1. pc'[p] \in {l.next, "failed"}
    BY <1>6 DEF Load, Step
  <2> QED BY <2>1 DEF Loads
<1>7. CASE DiskFails(p)
  BY <1>7 DEF DiskFails
<1> QED BY <1>1, <1>2, <1>3, <1>4, <1>5, <1>6, <1>7 DEF Setup

\* Cert.TLSCertificate: no process ever runs with a key that is not that of its
\* certificate, however many daemons and clients write the same files at once.
THEOREM KeysMatchCorrect == StartupSpec => []KeysMatch
<1>1. StartupInit => KeysMatch
  BY DEF StartupInit, Init, KeysMatch
<1>2. TypeOK /\ KeysMatch /\ [StartupNext]_startVars => KeysMatch'
  <2> SUFFICES ASSUME TypeOK, KeysMatch, [StartupNext]_startVars PROVE KeysMatch'
    OBVIOUS
  <2>1. CASE UNCHANGED vars
    BY <2>1 DEF KeysMatch, vars
  <2>2. ASSUME NEW p \in Processes, Acts(p) PROVE KeysMatch'
    <3>1. \A q \in Processes \ {p} : pc'[q] = pc[q] /\ mem'[q] = mem[q]
      BY <2>2, OthersSame
    <3>2. pc'[p] = "up" => mem'[p]["tndrl.key"] = mem'[p]["tndrl.crt"].id
      BY <2>2, ComesUp DEF KeysMatch
    <3> QED BY <3>1, <3>2 DEF KeysMatch
  <2> QED BY <2>1, <2>2, Steps
<1> QED BY <1>1, <1>2, TypeCorrect, PTL DEF StartupSpec

\* initializeServerPKI: with one daemon, a CA that is complete, wherever it came
\* from, is never written again.
THEOREM CACorrect == ASSUME OneDaemon PROVE StartupSpec => CAStable
<1>1. TrustInv /\ [StartupNext]_startVars =>
          [file[CACert] \in CAs /\ file[CACert] = file[CAKey]
               => UNCHANGED <<file[CACert], file[CAKey]>>]_vars
  BY Steps, DiskMoves
<1> QED BY <1>1, Trusted, PTL DEF StartupSpec, CAStable

\* NewMCPHostProvider: whichever of its steps fails, the temporary file it made
\* is gone; a later start never takes the file of an earlier one for its own.
THEOREM FailedStartCorrect == StartupSpec => []FailedStartLeavesNothing
<1>1. StartupInit => TempInv
  BY TempInit
<1>2. TypeOK /\ TempInv /\ [StartupNext]_startVars => TempInv'
  BY TempStep
<1>3. TempInv => FailedStartLeavesNothing
  BY DEF TempInv, Fileless, FailedStartLeavesNothing
<1> QED BY <1>1, <1>2, <1>3, TypeCorrect, PTL DEF StartupSpec

\* main and MergeCLIInPlace: the settings are those of the documented precedence
\* for every combination of flags, environment and file.
THEOREM SettingsCorrect == StartupSpec => []SettingsAsDocumented
<1>1. SettingsAsDocumented
  BY Precedence DEF SettingsAsDocumented
<1> QED BY <1>1, PTL

=============================================================================
