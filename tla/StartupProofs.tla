---------------------------- MODULE StartupProofs ----------------------------
(***************************************************************************)
(* Proofs about the start-up, for any number of programs that start on one *)
(* root in any order and whatever the user's editor does.                  *)
(***************************************************************************)
EXTENDS Startup, TLAPS

-----------------------------------------------------------------------------
(* Types *)

(* The type invariant holds before the first start. *)
LEMMA TypeInit == Init => StartupTypeOK
  <1> SUFFICES ASSUME Init
               PROVE  StartupTypeOK
    OBVIOUS
  <1>1. files \in [Files -> FileType] /\ Services = 3
    BY DEF Init, Empty, FileType, Services
  <1>2. vscode \in BOOLEAN
    BY Zenon DEF Init
  <1>3. pending \in [Programs -> BOOLEAN]
    BY Zenon DEF Init
  <1> QED
    BY <1>1, <1>2, <1>3 DEF Init, StartupTypeOK, Files, AtFile

(* The steps that choose the host.                                          *)
LEMMA TypeHost ==
  ASSUME StartupTypeOK, NEW p \in Programs,
         \/ \E a \in Arguments : Start(p, a)
         \/ detect_active_network_ip(p) \/ ServiceUnreachable(p)
         \/ ServiceConnected(p) \/ SendPart(p) \/ ReadPart(p) \/ AnswerRead(p)
         \/ ReadTimeout(p)
  PROVE  StartupTypeOK'
  <1> USE StartupAssumptions DEF StartupTypeOK, AtFile, Files, Services
  <1>1. ASSUME NEW a \in Arguments, Start(p, a)
        PROVE  StartupTypeOK'
    <2>1. found' \in [Programs -> [Files -> (SUBSET Own) \cup {None}] \cup {None}]
      BY <1>1 DEF Start, FileType
    <2>2. a.host \in Hosts \cup {None} /\ a.node_port \in Nat
      OBVIOUS
    <2>3. a.host = None \/ a.host \in Hosts
      BY <2>2
    <2> QED
      BY <1>1, <2>1, <2>2, <2>3 DEF Start, Go, network
  <1>2. ASSUME NEW h \in Hosts, Resolved(p, h),
               UNCHANGED <<port, pending, vscode, disk, file>>,
               pc[p] \in {"network", "ask", "answer"}
        PROVE  StartupTypeOK'
    BY <1>2 DEF Resolved, Go, disk
  <1>3. ASSUME NextService(p), UNCHANGED <<port, pending, vscode, disk, file>>,
               pc[p] \in {"ask", "answer"}
        PROVE  StartupTypeOK'
    <2>1. CASE asked[p] + 1 < Services
      BY <1>3, <2>1 DEF NextService, Go, disk
    <2>2. CASE ~(asked[p] + 1 < Services)
      BY <1>2, <1>3, <2>2 DEF NextService
    <2> QED
      BY <2>1, <2>2
  <1>4. CASE detect_active_network_ip(p)
    <2>1. CASE Go(p, "ask") /\ UNCHANGED <<host, asked>>
      BY <1>4, <2>1 DEF detect_active_network_ip, Go, disk
    <2> QED
      BY <1>2, <1>4, <2>1 DEF detect_active_network_ip
  <1>5. CASE ServiceUnreachable(p) \/ AnswerRead(p) \/ ReadTimeout(p)
    BY <1>2, <1>3, <1>5 DEF ServiceUnreachable, AnswerRead, ReadTimeout
  <1>6. CASE ServiceConnected(p)
    BY <1>6 DEF ServiceConnected, Go, network, disk
  <1>7. CASE SendPart(p) \/ ReadPart(p)
    BY <1>7 DEF SendPart, ReadPart, disk
  <1> QED
    BY <1>1, <1>4, <1>5, <1>6, <1>7

(* The steps at the files and after them.                                   *)
LEMMA TypeDisk ==
  ASSUME StartupTypeOK, NEW p \in Programs,
         \/ ResolveRoot(p) \/ Load(p) \/ LoadFails(p) \/ Truncate(p) \/ Fill(p)
         \/ Listen(p) \/ ListenFails(p) \/ Ends(p)
  PROVE  StartupTypeOK'
  <1> USE StartupAssumptions DEF StartupTypeOK, AtFile
  <1>1. CASE ResolveRoot(p)
    BY <1>1 DEF ResolveRoot, Go, network, disk, Files
  <1>2. CASE Load(p)
    <2>1. files[file[p]].own \in SUBSET Own
      BY <1>2 DEF Load, FileType
    <2>2. files[file[p]].own # None
      BY <2>1
    <2>3. loaded' \in [Programs -> (SUBSET Own) \cup {None}]
      BY <1>2, <2>1 DEF Load
    <2>4. \A q \in Programs : loaded'[q] # None <=> pc'[q] \in {"empty", "fill"}
      BY <1>2, <2>2 DEF Load, Go
    <2> QED
      BY <1>2, <2>3, <2>4 DEF Load, Go, network
  <1>3. CASE Truncate(p)
    <2>1. files' \in [Files -> FileType]
      BY <1>3 DEF Truncate, Empty, FileType
    <2>2. found' \in [Programs -> [Files -> (SUBSET Own) \cup {None}] \cup {None}]
      BY <1>3 DEF Truncate, Disturbs
    <2> QED
      BY <1>3, <2>1, <2>2 DEF Truncate, Go, network
  <1>4. CASE Fill(p)
    <2>1. loaded[p] \in SUBSET Own /\ Endpoint(p) \in Hosts \X Nat
      BY <1>4 DEF Fill, Endpoint
    <2>2. Written(p) \in FileType /\ Mixed \in FileType
      BY <2>1 DEF Written, Mixed, FileType
    <2>3. files' \in [Files -> FileType]
      BY <1>4, <2>2 DEF Fill
    <2>4. found' \in [Programs -> [Files -> (SUBSET Own) \cup {None}] \cup {None}]
      BY <1>4 DEF Fill, Disturbs
    <2>5. loaded' = [loaded EXCEPT ![p] = None]
      BY <1>4 DEF Fill
    <2>6. CASE Go(p, "load") /\ file' = [file EXCEPT ![p] = "tasks"]
      BY <1>4, <2>3, <2>4, <2>5, <2>6 DEF Fill, Go, network, Files
    <2>7. CASE Go(p, "listen") /\ UNCHANGED file
      BY <1>4, <2>3, <2>4, <2>5, <2>7 DEF Fill, Go, network
    <2> QED
      BY <1>4, <2>6, <2>7 DEF Fill
  <1>5. CASE Listen(p)
    BY <1>5 DEF Listen, Go, network, disk
  <1>6. CASE LoadFails(p) \/ ListenFails(p) \/ Ends(p)
    <2>1. Gone(p)
      BY <1>6 DEF LoadFails, ListenFails, Ends
    <2>2. pending' \in [Programs -> BOOLEAN]
      BY <2>1, Zenon DEF Gone
    <2>3. /\ asked' \in [Programs -> 0..Services - 1]
          /\ \A q \in Programs : asked'[q] # 0 => pc'[q] \in {"ask", "answer"}
      BY <2>1 DEF Gone, Go, Services
    <2>4. /\ loaded' \in [Programs -> (SUBSET Own) \cup {None}]
          /\ \A q \in Programs : loaded'[q] # None <=> pc'[q] \in {"empty", "fill"}
      BY <2>1 DEF Gone, Go
    <2>5. found' \in [Programs -> [Files -> (SUBSET Own) \cup {None}] \cup {None}]
      BY <2>1 DEF Gone
    <2>6. file' \in [Programs -> Files]
      BY <2>1 DEF Gone, Files
    <2>7. /\ host' \in [Programs -> Hosts \cup {None}] /\ port' \in [Programs -> Nat]
      BY <2>1 DEF Gone
    <2> QED
      BY <2>1, <2>2, <2>3, <2>4, <2>5, <2>6, <2>7 DEF Gone, Go
  <1> QED
    BY <1>1, <1>2, <1>3, <1>4, <1>5, <1>6

(* The editor keeps the type invariant. *)
LEMMA TypeEditor ==
  ASSUME StartupTypeOK, NEW f \in Files, Open(f) \/ Save(f)
  PROVE  StartupTypeOK'
  <1> USE DEF StartupTypeOK, AtFile
  <1>1. CASE Open(f)
    BY <1>1 DEF Open, network
  <1>2. CASE Save(f)
    <2>1. buffer[f] \in FileType
      BY <1>2 DEF Save
    <2>2. PICK e \in Own :
            files' = [files EXCEPT ![f] = [buffer[f] EXCEPT !.own = Changed(@, e)]]
      BY <1>2 DEF Save
    <2>4. files' \in [Files -> FileType]
      <3> DEFINE saved == [buffer[f] EXCEPT !.own = Changed(@, e)]
      <3>1. \A own \in (SUBSET Own) \cup {None} : Changed(own, e) \in SUBSET Own
        BY DEF Changed
      <3>2. saved \in FileType
        BY <2>1, <3>1 DEF FileType
      <3> QED
        BY <2>2, <3>2
    <2>3. found' \in [Programs -> [Files -> (SUBSET Own) \cup {None}] \cup {None}]
      BY <1>2 DEF Save, Disturbs
    <2> QED
      BY <1>2, <2>3, <2>4 DEF Save, network
  <1> QED
    BY <1>1, <1>2

(* Every step keeps it. *)
LEMMA TypeStep == StartupTypeOK /\ [Next]_vars => StartupTypeOK'
  <1> SUFFICES ASSUME StartupTypeOK, [Next]_vars
               PROVE  StartupTypeOK'
    OBVIOUS
  <1>1. CASE UNCHANGED vars
    BY <1>1 DEF vars, network, disk, StartupTypeOK, AtFile
  <1> QED
    BY <1>1, TypeHost, TypeDisk, TypeEditor DEF Next, ProgramStep

(***************************************************************************)
(* The start-up keeps its types: who is at the files has a host, and who   *)
(* has a file in memory is about to write it.                              *)
(***************************************************************************)
THEOREM StartupTypeCorrect == Spec => []StartupTypeOK
  BY TypeInit, TypeStep, PTL DEF Spec

-----------------------------------------------------------------------------
(* One program at an endpoint *)

OneAtAnEndpoint ==
  \A p, q \in Programs :
    Serving(p) /\ Serving(q) /\ Endpoint(q) = Endpoint(p) => q = p

(* A step that neither begins to serve nor moves one that serves.           *)
LEMMA EndpointsKept ==
  ASSUME OneAtAnEndpoint,
         \A p \in Programs : Serving(p)' => /\ Serving(p)
                                           /\ host'[p] = host[p] /\ port'[p] = port[p]
  PROVE  OneAtAnEndpoint'
  BY DEF OneAtAnEndpoint, Endpoint

(* Nobody binds an endpoint that is taken. *)
LEMMA EndpointStep ==
  ASSUME StartupTypeOK, OneAtAnEndpoint, [Next]_vars
  PROVE  OneAtAnEndpoint'
  <1> USE DEF StartupTypeOK, Serving
  <1>1. ASSUME NEW p \in Programs, Listen(p)
        PROVE  OneAtAnEndpoint'
    BY <1>1 DEF Listen, Go, Free, Endpoint, OneAtAnEndpoint
  <1>2. ASSUME NEW p \in Programs, NEW place, Go(p, place), place # "serving",
               \A q \in Programs \ {p} : host'[q] = host[q] /\ port'[q] = port[q]
        PROVE  OneAtAnEndpoint'
    BY <1>2, EndpointsKept DEF Go
  <1>3. ASSUME UNCHANGED <<pc, host, port>>
        PROVE  OneAtAnEndpoint'
    BY <1>3, EndpointsKept
  <1>4. ASSUME NEW p \in Programs, NEW a \in Arguments, Start(p, a)
        PROVE  OneAtAnEndpoint'
    <2>1. CASE Go(p, "network")
      BY <1>2, <1>4, <2>1 DEF Start
    <2>2. CASE Go(p, "root")
      BY <1>2, <1>4, <2>2 DEF Start
    <2> QED
      BY <1>4, <2>1, <2>2 DEF Start
  <1>5. ASSUME NEW p \in Programs,
               \/ detect_active_network_ip(p) \/ ServiceUnreachable(p)
               \/ AnswerRead(p) \/ ReadTimeout(p)
        PROVE  OneAtAnEndpoint'
    <2>1. port' = port /\ \A q \in Programs \ {p} : host'[q] = host[q]
      BY <1>5 DEF detect_active_network_ip, ServiceUnreachable, AnswerRead, ReadTimeout,
                  NextService, Resolved
    <2>2. Go(p, "ask") \/ Go(p, "root")
      BY <1>5 DEF detect_active_network_ip, ServiceUnreachable, AnswerRead, ReadTimeout,
                  NextService, Resolved
    <2>3. CASE Go(p, "ask")
      BY <1>2, <2>1, <2>3
    <2>4. CASE Go(p, "root")
      BY <1>2, <2>1, <2>4
    <2> QED
      BY <2>2, <2>3, <2>4
  <1>6. ASSUME NEW p \in Programs,
               \/ ServiceConnected(p) \/ ResolveRoot(p) \/ Load(p) \/ Truncate(p)
               \/ Fill(p)
        PROVE  OneAtAnEndpoint'
    <2>1. UNCHANGED <<host, port>>
      BY <1>6 DEF ServiceConnected, ResolveRoot, Load, Truncate, Fill
    <2>2. PICK place \in {"answer", "load", "listen", "empty", "fill"} : Go(p, place)
      BY <1>6 DEF ServiceConnected, ResolveRoot, Load, Truncate, Fill
    <2> QED
      BY <1>2, <2>1, <2>2
  <1>7. ASSUME NEW p \in Programs, LoadFails(p) \/ ListenFails(p) \/ Ends(p)
        PROVE  OneAtAnEndpoint'
    BY <1>2, <1>7 DEF LoadFails, ListenFails, Ends, Gone
  <1>8. ASSUME NEW p \in Programs, SendPart(p) \/ ReadPart(p)
        PROVE  OneAtAnEndpoint'
    BY <1>3, <1>8 DEF SendPart, ReadPart
  <1>9. ASSUME NEW f \in Files, Open(f) \/ Save(f)
        PROVE  OneAtAnEndpoint'
    BY <1>3, <1>9 DEF Open, Save
  <1>10. CASE UNCHANGED vars
    BY <1>3, <1>10 DEF vars
  <1> QED
    BY <1>1, <1>4, <1>5, <1>6, <1>7, <1>8, <1>9, <1>10 DEF Next, ProgramStep

-----------------------------------------------------------------------------
(* What a start has done, and what is still as it found it *)

(* The files that the start of p has been through.                          *)
WrittenFiles(p) ==
  CASE AtFile(p) /\ file[p] = "tasks" -> {"launch"}
    [] pc[p] \in {"listen", "serving"} /\ vscode -> Files
    [] OTHER -> {}

Result(p, f) ==
  [own |-> found[p][f], by |-> p,
   endpoint |-> IF f = "launch" THEN Endpoint(p) ELSE None]

(***************************************************************************)
(* A start that nobody disturbs: the files behind it are its result, those *)
(* before it are as they were, and what it has in memory is the user's.    *)
(***************************************************************************)
OnItsWay(p) ==
  found[p] # None =>
    /\ \A f \in WrittenFiles(p) : files[f] = Result(p, f)
    /\ \A f \in Files \ WrittenFiles(p) :
         (pc[p] = "fill" /\ f = file[p]) \/ files[f].own = found[p][f]
    /\ pc[p] \in {"empty", "fill"} => loaded[p] = found[p][file[p]]

(* What others do, and what this one does before it is at the files.        *)
LEMMA OthersKeep ==
  ASSUME NEW p \in Programs, OnItsWay(p),
         UNCHANGED <<pc[p], host[p], port[p], file[p], loaded[p], vscode>>,
         found'[p] = None \/ (found'[p] = found[p] /\ files' = files)
  PROVE  OnItsWay(p)'
  BY DEF OnItsWay, WrittenFiles, Result, Endpoint, AtFile

(* A program that has written neither file is on its way if they have the  *)
(* user's entries that it found.                                           *)
LEMMA BeforeFiles ==
  ASSUME NEW p \in Programs, \A f \in Files : files'[f].own = found'[p][f],
         pc'[p] \notin {"empty", "fill", "listen", "serving"},
         AtFile(p)' => file'[p] # "tasks"
  PROVE  OnItsWay(p)'
  <1>1. WrittenFiles(p)' = {}
    BY DEF WrittenFiles
  <1> QED
    BY <1>1 DEF OnItsWay

(* The steps of another program leave a program on its way: they leave the *)
(* files alone or end its promise.                                         *)
LEMMA OtherSteps ==
  ASSUME StartupTypeOK, NEW p \in Programs, NEW q \in Programs, q # p, OnItsWay(p),
         \/ \E a \in Arguments : Start(q, a)
         \/ ProgramStep(q) \/ ServiceConnected(q) \/ SendPart(q) \/ AnswerRead(q)
         \/ Ends(q)
  PROVE  OnItsWay(p)'
  <1> USE DEF StartupTypeOK
  <1>1. CASE Truncate(q) \/ Fill(q)
    <2>1. found'[p] = None
      BY <1>1 DEF Truncate, Fill, Disturbs
    <2> QED
      BY <2>1 DEF OnItsWay
  <1>2. CASE \E a \in Arguments : Start(q, a)
    BY <1>2, OthersKeep DEF Start, Go
  <1>3. CASE \/ detect_active_network_ip(q) \/ ServiceUnreachable(q) \/ AnswerRead(q)
             \/ ReadTimeout(q)
    <2>1. UNCHANGED <<port, file, loaded, found, files, vscode>>
      BY <1>3 DEF detect_active_network_ip, ServiceUnreachable, AnswerRead, ReadTimeout,
                  disk
    <2>2. pc'[p] = pc[p] /\ host'[p] = host[p]
      BY <1>3 DEF detect_active_network_ip, ServiceUnreachable, AnswerRead, ReadTimeout,
                  NextService, Resolved, Go
    <2> QED
      BY <2>1, <2>2, OthersKeep
  <1>4. CASE ServiceConnected(q) \/ ReadPart(q) \/ SendPart(q)
    BY <1>4, OthersKeep DEF ServiceConnected, ReadPart, SendPart, Go, disk
  <1>5. CASE ResolveRoot(q) \/ Load(q) \/ Listen(q)
    BY <1>5, OthersKeep DEF ResolveRoot, Load, Listen, Go, disk
  <1>6. CASE LoadFails(q) \/ ListenFails(q) \/ Ends(q)
    <2>1. Gone(q)
      BY <1>6 DEF LoadFails, ListenFails, Ends
    <2> QED
      BY <2>1, OthersKeep DEF Gone, Go
  <1> QED
    BY <1>1, <1>2, <1>3, <1>4, <1>5, <1>6 DEF ProgramStep

(* The steps of its own leave it on its way. *)
LEMMA OwnSteps ==
  ASSUME StartupTypeOK, NEW p \in Programs, OnItsWay(p),
         \/ \E a \in Arguments : Start(p, a)
         \/ ProgramStep(p) \/ ServiceConnected(p) \/ SendPart(p) \/ AnswerRead(p)
         \/ Ends(p)
  PROVE  OnItsWay(p)'
  <1> USE DEF StartupTypeOK
  <1>0. CASE found'[p] = None
    BY <1>0 DEF OnItsWay
  <1>1. CASE \E a \in Arguments : Start(p, a)
    <2>1. \A f \in Files : files'[f].own = found'[p][f]
      BY <1>1 DEF Start
    <2>2. pc'[p] \in {"network", "root"}
      BY <1>1 DEF Start, Go
    <2> QED
      BY <2>1, <2>2, BeforeFiles DEF AtFile
  <1>2. CASE /\ \/ detect_active_network_ip(p) \/ ServiceUnreachable(p) \/ AnswerRead(p)
                \/ ReadTimeout(p) \/ ServiceConnected(p)
             /\ found'[p] # None
    <2>1. /\ UNCHANGED <<found, files>> /\ pc[p] \in {"network", "ask", "answer"}
          /\ found'[p] = found[p] /\ files' = files
      BY <1>2 DEF detect_active_network_ip, ServiceUnreachable, AnswerRead, ReadTimeout,
                  ServiceConnected, disk
    <2>2. pc'[p] \in {"ask", "answer", "root"}
      BY <1>2 DEF detect_active_network_ip, ServiceUnreachable, AnswerRead, ReadTimeout,
                  ServiceConnected, NextService, Resolved, Go
    <2>3. \A f \in Files : files'[f].own = found'[p][f]
      BY <1>2, <2>1 DEF OnItsWay, WrittenFiles, AtFile
    <2> QED
      BY <2>2, <2>3, BeforeFiles DEF AtFile
  <1>3. CASE ReadPart(p) \/ SendPart(p)
    BY <1>3, OthersKeep DEF ReadPart, SendPart, disk
  <1>4. CASE ResolveRoot(p) /\ found'[p] # None
    <2>1. /\ found' = found /\ files' = files /\ vscode' = vscode
          /\ pc[p] = "root" /\ file'[p] = "launch"
          /\ pc'[p] = IF vscode THEN "load" ELSE "listen"
      BY <1>4 DEF ResolveRoot, Go, disk
    <2>2. \A f \in Files : files'[f].own = found'[p][f]
      BY <1>4, <2>1 DEF OnItsWay, WrittenFiles, AtFile
    <2>3. WrittenFiles(p)' = {}
      BY <2>1 DEF WrittenFiles, AtFile
    <2> QED
      BY <2>1, <2>2, <2>3 DEF OnItsWay
  <1>5. CASE Load(p) /\ found'[p] # None
    <2>1. /\ found' = found /\ files' = files /\ file' = file /\ vscode' = vscode
          /\ pc[p] = "load" /\ pc'[p] = "empty" /\ loaded'[p] = files[file[p]].own
          /\ host' = host /\ port' = port
      BY <1>5 DEF Load, Go
    <2>2. WrittenFiles(p)' = WrittenFiles(p) /\ file[p] \in Files \ WrittenFiles(p)
      BY <2>1 DEF WrittenFiles, AtFile
    <2>3. \A f \in Files : Result(p, f)' = Result(p, f)
      BY <2>1 DEF Result, Endpoint
    <2>4. WrittenFiles(p) \subseteq Files
      BY DEF WrittenFiles, Files
    <2>5. \A f \in Files \ WrittenFiles(p) : files[f].own = found[p][f]
      BY <1>5, <2>1 DEF OnItsWay
    <2>6. \A f \in WrittenFiles(p) : files[f] = Result(p, f)
      BY <1>5, <2>1 DEF OnItsWay
    <2> QED
      BY <2>1, <2>2, <2>3, <2>4, <2>5, <2>6 DEF OnItsWay
  <1>6. CASE Truncate(p) /\ found'[p] # None
    <2>1. /\ found'[p] = found[p] /\ file' = file /\ vscode' = vscode
          /\ pc[p] = "empty" /\ pc'[p] = "fill" /\ loaded' = loaded
          /\ \A f \in Files \ {file[p]} : files'[f] = files[f]
          /\ host' = host /\ port' = port
      BY <1>6 DEF Truncate, Disturbs, Go
    <2>2. WrittenFiles(p)' = WrittenFiles(p) /\ file[p] \in Files \ WrittenFiles(p)
      BY <2>1 DEF WrittenFiles, AtFile
    <2>3. \A f \in Files : Result(p, f)' = Result(p, f)
      BY <2>1 DEF Result, Endpoint
    <2>4. WrittenFiles(p) \subseteq Files
      BY DEF WrittenFiles, Files
    <2> QED
      BY <1>6, <2>1, <2>2, <2>3, <2>4 DEF OnItsWay
  <1>7. CASE Fill(p) /\ found'[p] # None
    <2>0. ~Disturbs(Programs)
      BY <1>7 DEF Disturbs
    <2>1. /\ found'[p] = found[p] /\ vscode' = vscode /\ vscode
          /\ pc[p] = "fill" /\ host' = host /\ port' = port
          /\ files' = [files EXCEPT ![file[p]] = Written(p)]
      BY <1>7, <2>0 DEF Fill, Disturbs, AtFile
    <2>2. loaded[p] = found[p][file[p]]
      BY <1>7, <2>1 DEF OnItsWay
    <2>3. files'[file[p]] = Result(p, file[p]) /\ \A f \in Files : Result(p, f)' = Result(p, f)
      BY <2>1, <2>2 DEF Written, Result, Endpoint
    <2>4. \A f \in Files \ {file[p]} : files'[f] = files[f]
      BY <2>1
    <2>5. CASE file[p] = "launch"
      <3>1. pc'[p] = "load" /\ file'[p] = "tasks"
        BY <1>7, <2>5 DEF Fill, Go
      <3>2. WrittenFiles(p)' = {"launch"} /\ WrittenFiles(p) = {}
        BY <2>1, <2>5, <3>1 DEF WrittenFiles, AtFile
      <3>3. files["tasks"].own = found[p]["tasks"]
        BY <1>7, <2>1, <2>5, <3>2 DEF OnItsWay, Files
      <3> QED
        BY <2>1, <2>3, <2>4, <2>5, <3>1, <3>2, <3>3 DEF OnItsWay, Files
    <2>6. CASE file[p] = "tasks"
      <3>1. pc'[p] = "listen"
        BY <1>7, <2>6 DEF Fill, Go
      <3>2. WrittenFiles(p)' = Files /\ WrittenFiles(p) = {"launch"}
        BY <2>1, <2>6, <3>1 DEF WrittenFiles, AtFile
      <3>3. files["launch"] = Result(p, "launch")
        BY <1>7, <2>1, <3>2 DEF OnItsWay
      <3> QED
        BY <2>3, <2>4, <2>6, <3>1, <3>2, <3>3 DEF OnItsWay, Files
    <2> QED
      BY <2>5, <2>6 DEF Files
  <1>8. CASE Listen(p)
    <2>1. /\ found' = found /\ files' = files /\ vscode' = vscode
          /\ pc[p] = "listen" /\ pc'[p] = "serving" /\ host' = host /\ port' = port
      BY <1>8 DEF Listen, Go, disk
    <2>2. WrittenFiles(p)' = WrittenFiles(p)
      BY <2>1 DEF WrittenFiles, AtFile
    <2>3. \A f \in Files : Result(p, f)' = Result(p, f)
      BY <2>1 DEF Result, Endpoint
    <2>4. WrittenFiles(p) \subseteq Files
      BY DEF WrittenFiles, Files
    <2> QED
      BY <2>1, <2>2, <2>3, <2>4 DEF OnItsWay
  <1>9. CASE LoadFails(p) \/ ListenFails(p) \/ Ends(p)
    BY <1>0, <1>9 DEF LoadFails, ListenFails, Ends, Gone
  <1> QED
    BY <1>0, <1>1, <1>2, <1>3, <1>4, <1>5, <1>6, <1>7, <1>8, <1>9 DEF ProgramStep

(* Every step leaves every program on its way. *)
LEMMA WayStep ==
  ASSUME StartupTypeOK, \A p \in Programs : OnItsWay(p), [Next]_vars
  PROVE  (\A p \in Programs : OnItsWay(p))'
  <1> SUFFICES ASSUME NEW p \in Programs
               PROVE  OnItsWay(p)'
    OBVIOUS
  <1>1. ASSUME NEW f \in Files, Open(f)
        PROVE  OnItsWay(p)'
    BY <1>1, OthersKeep DEF Open
  <1>2. ASSUME NEW f \in Files, Save(f)
        PROVE  OnItsWay(p)'
    <2>1. found'[p] = None
      BY <1>2 DEF Save, Disturbs
    <2> QED
      BY <2>1 DEF OnItsWay
  <1>3. CASE UNCHANGED vars
    BY <1>3, OthersKeep DEF vars, disk
  <1> QED
    BY <1>1, <1>2, <1>3, OwnSteps, OtherSteps DEF Next

(* All are, before the first start. *)
LEMMA ServesInit == Init => OneAtAnEndpoint /\ \A p \in Programs : OnItsWay(p)
  BY DEF Init, OneAtAnEndpoint, OnItsWay, Serving

(* A program that serves at the end of its way has what it promises. *)
LEMMA ServesImplies ==
  OneAtAnEndpoint /\ (\A p \in Programs : OnItsWay(p)) => ServesWhatItWrote
  <1> SUFFICES ASSUME OneAtAnEndpoint, \A p \in Programs : OnItsWay(p),
                      NEW p \in Programs, Serving(p), vscode, found[p] # None
               PROVE  /\ files["launch"].endpoint = Endpoint(p)
                      /\ \A f \in Files : files[f].by = p /\ files[f].own = found[p][f]
    BY DEF OneAtAnEndpoint, ServesWhatItWrote
  <1>1. WrittenFiles(p) = Files
    BY DEF WrittenFiles, Serving, AtFile
  <1>2. \A f \in Files : files[f] = Result(p, f)
    BY <1>1 DEF OnItsWay
  <1> QED
    BY <1>2 DEF Result, Files

(***************************************************************************)
(* Who takes commands has its endpoint for itself, and what it found and   *)
(* promised in the files is there if nobody else has written them since.   *)
(***************************************************************************)
THEOREM ServesWhatItWroteCorrect == Spec => []ServesWhatItWrote
  <1> DEFINE Inv == /\ StartupTypeOK /\ OneAtAnEndpoint
                    /\ \A p \in Programs : OnItsWay(p)
  <1>1. Init => Inv
    BY TypeInit, ServesInit
  <1>2. Inv /\ [Next]_vars => Inv'
    BY TypeStep, EndpointStep, WayStep
  <1>3. Inv => ServesWhatItWrote
    BY ServesImplies
  <1> QED
    BY <1>1, <1>2, <1>3, PTL DEF Spec

-----------------------------------------------------------------------------
(* A start comes nearer its end *)

(* How far each place is from the end.                                      *)
LEMMA StepsAhead ==
  ASSUME NEW n \in 0..Services - 1, NEW f \in Files
  PROVE  /\ StepsFrom("network", n, f) = 15
         /\ StepsFrom("ask", n, f) = 14 - 2 * n
         /\ StepsFrom("answer", n, f) = 13 - 2 * n
         /\ StepsFrom("root", n, f) = 8
         /\ StepsFrom("load", n, "launch") = 7
         /\ StepsFrom("empty", n, "launch") = 6
         /\ StepsFrom("fill", n, "launch") = 5
         /\ StepsFrom("load", n, "tasks") = 4
         /\ StepsFrom("empty", n, "tasks") = 3
         /\ StepsFrom("fill", n, "tasks") = 2
         /\ StepsFrom("listen", n, f) = 1
         /\ StepsFrom("serving", n, f) = 0
         /\ StepsFrom("off", n, f) = 0
  <1>1. ServicesLeft(n) = 4 - 2 * n
    BY DEF ServicesLeft, Services
  <1>2. FilesLeft("launch") = 3 /\ FilesLeft("tasks") = 0
    BY DEF FilesLeft
  <1>3. /\ StepsFrom("ask", n, f) = 10 + ServicesLeft(n)
        /\ StepsFrom("answer", n, f) = 9 + ServicesLeft(n)
    BY DEF StepsFrom
  <1>4. /\ StepsFrom("ask", n, f) = 14 - 2 * n
        /\ StepsFrom("answer", n, f) = 13 - 2 * n
    BY <1>1, <1>3 DEF Services
  <1>5. \A g \in Files : /\ StepsFrom("load", n, g) = 4 + FilesLeft(g)
                         /\ StepsFrom("empty", n, g) = 3 + FilesLeft(g)
                         /\ StepsFrom("fill", n, g) = 2 + FilesLeft(g)
    BY DEF StepsFrom
  <1>6. /\ StepsFrom("load", n, "launch") = 7
        /\ StepsFrom("empty", n, "launch") = 6
        /\ StepsFrom("fill", n, "launch") = 5
        /\ StepsFrom("load", n, "tasks") = 4
        /\ StepsFrom("empty", n, "tasks") = 3
        /\ StepsFrom("fill", n, "tasks") = 2
    BY <1>2, <1>5 DEF Files
  <1>7. /\ StepsFrom("network", n, f) = 15
        /\ StepsFrom("root", n, f) = 8
        /\ StepsFrom("listen", n, f) = 1
        /\ StepsFrom("serving", n, f) = 0
        /\ StepsFrom("off", n, f) = 0
    BY DEF StepsFrom
  <1> QED
    BY <1>4, <1>6, <1>7

(* At most 15 steps are left, and none of a program that serves.            *)
LEMMA StepsLeftType ==
  ASSUME StartupTypeOK, NEW p \in Programs
  PROVE  /\ StepsLeft(p) \in 0..15
         /\ Starting(p) <=> StepsLeft(p) # 0
  <1>1. /\ asked[p] \in 0..2 /\ file[p] \in {"launch", "tasks"}
        /\ pc[p] \in {"off", "network", "ask", "answer", "root", "load",
                      "empty", "fill", "listen", "serving"}
    BY DEF StartupTypeOK, Services, Files
  <1> QED
    BY <1>1, StepsAhead DEF StepsLeft, Services, Files, Starting

(* The steps of other programs, the services and the user.                  *)
LEMMA Stays ==
  ASSUME NEW p \in Programs,
         UNCHANGED <<pc[p], host[p], port[p], asked[p], file[p], loaded[p]>>
  PROVE  AdvanceStep(p)
  BY DEF AdvanceStep

(* The steps of another program do not move a program. *)
LEMMA OthersStay ==
  ASSUME StartupTypeOK, NEW p \in Programs, NEW q \in Programs, q # p,
         \/ \E a \in Arguments : Start(q, a)
         \/ ProgramStep(q) \/ ServiceConnected(q) \/ SendPart(q) \/ AnswerRead(q)
         \/ Ends(q)
  PROVE  AdvanceStep(p)
  <1> USE DEF StartupTypeOK
  <1>1. CASE Truncate(q) \/ Fill(q)
    BY <1>1, Stays DEF Truncate, Fill, Go, network
  <1>2. CASE \E a \in Arguments : Start(q, a)
    BY <1>2, Stays DEF Start, Go, network
  <1>3. CASE \/ detect_active_network_ip(q) \/ ServiceUnreachable(q) \/ AnswerRead(q)
             \/ ReadTimeout(q)
    <2>1. UNCHANGED <<port, file, loaded>>
      BY <1>3 DEF detect_active_network_ip, ServiceUnreachable, AnswerRead, ReadTimeout,
                  disk
    <2>2. pc'[p] = pc[p] /\ host'[p] = host[p] /\ asked'[p] = asked[p]
      BY <1>3 DEF detect_active_network_ip, ServiceUnreachable, AnswerRead, ReadTimeout,
                  NextService, Resolved, Go
    <2> QED
      BY <2>1, <2>2, Stays
  <1>4. CASE ServiceConnected(q) \/ ReadPart(q) \/ SendPart(q)
    BY <1>4, Stays DEF ServiceConnected, ReadPart, SendPart, Go, disk, network
  <1>5. CASE ResolveRoot(q) \/ Load(q) \/ Listen(q)
    BY <1>5, Stays DEF ResolveRoot, Load, Listen, Go, disk, network
  <1>6. CASE LoadFails(q) \/ ListenFails(q) \/ Ends(q)
    <2>1. Gone(q)
      BY <1>6 DEF LoadFails, ListenFails, Ends
    <2> QED
      BY <2>1, Stays DEF Gone, Go
  <1> QED
    BY <1>1, <1>2, <1>3, <1>4, <1>5, <1>6 DEF ProgramStep

(* The steps of the program itself.                                         *)
LEMMA OwnAdvance ==
  ASSUME StartupTypeOK, NEW p \in Programs, Starting(p),
         ProgramStep(p) \/ ServiceConnected(p) \/ AnswerRead(p) \/ Ends(p),
         ~ReadPart(p)
  PROVE  StepsLeft(p)' < StepsLeft(p)
  <1> DEFINE n == asked[p]
             f == file[p]
  <1>1. /\ n \in 0..Services - 1 /\ n \in 0..2
        /\ f \in Files /\ f \in {"launch", "tasks"}
    BY DEF StartupTypeOK, Services, Files
  <1>2. StepsLeft(p) = StepsFrom(pc[p], n, f) /\ StepsLeft(p) > 0
    BY StepsLeftType DEF StepsLeft
  <1>3. /\ \A k \in 0..2, g \in {"launch", "tasks"} :
             /\ StepsFrom("network", k, g) = 15
             /\ StepsFrom("ask", k, g) = 14 - 2 * k
             /\ StepsFrom("answer", k, g) = 13 - 2 * k
             /\ StepsFrom("root", k, g) = 8
             /\ StepsFrom("load", k, "launch") = 7
             /\ StepsFrom("empty", k, "launch") = 6
             /\ StepsFrom("fill", k, "launch") = 5
             /\ StepsFrom("load", k, "tasks") = 4
             /\ StepsFrom("empty", k, "tasks") = 3
             /\ StepsFrom("fill", k, "tasks") = 2
             /\ StepsFrom("listen", k, g) = 1
             /\ StepsFrom("serving", k, g) = 0
             /\ StepsFrom("off", k, g) = 0
    BY StepsAhead DEF Services, Files
  <1> DEFINE To(place, k, g) == pc'[p] = place /\ asked'[p] = k /\ file'[p] = g
  <1>4. \A place, k, g : To(place, k, g) => StepsLeft(p)' = StepsFrom(place, k, g)
    BY DEF StepsLeft
  <1> HIDE DEF To, n, f
  <1>5. ASSUME NEW h, Resolved(p, h), UNCHANGED file
        PROVE  To("root", 0, f)
    BY <1>5 DEF Resolved, Go, To, f, StartupTypeOK
  <1>6. ASSUME NextService(p), UNCHANGED file
        PROVE  To("root", 0, f) \/ (n + 1 \in 0..2 /\ To("ask", n + 1, f))
    <2>1. CASE n + 1 < Services
      <3>1. n + 1 \in 0..2
        BY <1>1, <2>1 DEF Services
      <3> QED
        BY <1>6, <2>1, <3>1 DEF NextService, Go, To, f, n, StartupTypeOK
    <2>2. CASE ~(n + 1 < Services)
      BY <1>5, <1>6, <2>2 DEF NextService, n
    <2> QED
      BY <2>1, <2>2
  <1>7. CASE detect_active_network_ip(p)
    <2>1. pc[p] = "network" /\ (To("root", 0, f) \/ To("ask", n, f))
      BY <1>5, <1>7
         DEF detect_active_network_ip, Go, To, f, n, disk, StartupTypeOK
    <2> QED
      BY <1>1, <1>2, <1>3, <1>4, <2>1
  <1>8. CASE ServiceUnreachable(p) \/ AnswerRead(p) \/ ReadTimeout(p)
    <2>1. /\ pc[p] \in {"ask", "answer"}
          /\ To("root", 0, f) \/ (n + 1 \in 0..2 /\ To("ask", n + 1, f))
      BY <1>5, <1>6, <1>8 DEF ServiceUnreachable, AnswerRead, ReadTimeout
    <2> QED
      BY <1>1, <1>2, <1>3, <1>4, <2>1
  <1>9. CASE ServiceConnected(p)
    <2>1. pc[p] = "ask" /\ To("answer", n, f)
      BY <1>9 DEF ServiceConnected, Go, To, f, n, network, StartupTypeOK
    <2> QED
      BY <1>1, <1>2, <1>3, <1>4, <2>1
  <1>10. CASE ResolveRoot(p)
    <2>1. pc[p] = "root" /\ (To("load", n, "launch") \/ To("listen", n, "launch"))
      BY <1>10 DEF ResolveRoot, Go, To, n, network, StartupTypeOK
    <2> QED
      BY <1>1, <1>2, <1>3, <1>4, <2>1
  <1>11. CASE Load(p) \/ Truncate(p)
    <2>1. \/ pc[p] = "load" /\ To("empty", n, f)
          \/ pc[p] = "empty" /\ To("fill", n, f)
      BY <1>11 DEF Load, Truncate, Go, To, f, n, network, StartupTypeOK
    <2> QED
      BY <1>1, <1>2, <1>3, <1>4, <2>1
  <1>12. CASE Fill(p)
    <2>1. /\ pc[p] = "fill"
          /\ \/ f = "launch" /\ To("load", n, "tasks")
             \/ f # "launch" /\ To("listen", n, f)
      BY <1>12 DEF Fill, Go, To, f, n, network, StartupTypeOK, Files
    <2> QED
      BY <1>1, <1>2, <1>3, <1>4, <2>1
  <1>13. CASE Listen(p)
    <2>1. pc[p] = "listen" /\ To("serving", n, f)
      BY <1>13 DEF Listen, Go, To, f, n, network, StartupTypeOK
    <2> QED
      BY <1>1, <1>2, <1>3, <1>4, <2>1
  <1>14. CASE LoadFails(p) \/ ListenFails(p) \/ Ends(p)
    <2>1. To("off", 0, "launch")
      BY <1>14 DEF LoadFails, ListenFails, Ends, Gone, Go, To, StartupTypeOK
    <2> QED
      BY <1>2, <1>3, <1>4, <2>1
  <1> QED
    BY <1>7, <1>8, <1>9, <1>10, <1>11, <1>12, <1>13, <1>14 DEF ProgramStep

(***************************************************************************)
(* Every step of a start but the reading of a part brings it nearer its    *)
(* end, for any number of programs: by StepsLeftType it has at most 15 of  *)
(* them, whatever is found, answered or taken by others.                   *)
(***************************************************************************)
THEOREM StartAdvancesCorrect == Spec => StartAdvances
  <1>1. ASSUME StartupTypeOK, [Next]_vars, NEW p \in Programs
        PROVE  AdvanceStep(p)
    <2> SUFFICES ASSUME Starting(p) PROVE AdvanceStep(p)
      BY DEF AdvanceStep
    <2>1. CASE ProgramStep(p) \/ ServiceConnected(p) \/ AnswerRead(p) \/ Ends(p)
      <3>1. CASE ReadPart(p)
        BY <3>1, Stays DEF ReadPart, disk
      <3>2. CASE ~ReadPart(p)
        BY <1>1, <2>1, <3>2, OwnAdvance DEF AdvanceStep
      <3> QED
        BY <3>1, <3>2
    <2>2. CASE SendPart(p)
      BY <2>2, Stays DEF SendPart, disk
    <2>3. CASE \E a \in Arguments : Start(p, a)
      BY <2>3 DEF Start, Starting
    <2>4. ASSUME NEW q \in Programs, q # p,
                 \/ \E a \in Arguments : Start(q, a)
                 \/ ProgramStep(q) \/ ServiceConnected(q) \/ SendPart(q)
                 \/ AnswerRead(q) \/ Ends(q)
          PROVE  AdvanceStep(p)
      BY <1>1, <2>4, OthersStay
    <2>5. ASSUME NEW f \in Files, Open(f) \/ Save(f)
          PROVE  AdvanceStep(p)
      BY <2>5, Stays DEF Open, Save, network
    <2>6. CASE UNCHANGED vars
      BY <2>6, Stays DEF vars, network, disk
    <2> QED
      BY <1>1, <2>1, <2>2, <2>3, <2>4, <2>5, <2>6 DEF Next
  <1>2. StartupTypeOK /\ [Next]_vars
          => [\A p \in Programs : AdvanceStep(p)]_vars
    BY <1>1
  <1> QED
    BY <1>2, StartupTypeCorrect, PTL DEF Spec, StartAdvances

=============================================================================
