------------------------------- MODULE Startup -------------------------------
(***************************************************************************)
(* main.rs, config.rs and Core::new up to the first command: arguments,    *)
(* the choice of a host, the root, the two files in .vscode, the listener. *)
(* Several programs may start on one root, and the user's editor is open   *)
(* on it; nothing locks the files.  What the entries of the files are is   *)
(* LaunchFiles'; here they are the user's own and those of one start.      *)
(*                                                                         *)
(* pc[p] is what program p does next:                                      *)
(*   "off"                    nothing, it does not run                     *)
(*   "network"                find the address of the active network       *)
(*   "ask", "answer"          ask a public service, read what it answers   *)
(*   "root"                   greet, resolve the root                      *)
(*   "load", "empty", "fill"  with the file file[p]: read it; truncate it; *)
(*                            write it                                     *)
(*   "listen"                 bind the endpoint                            *)
(*   "serving"                take commands                                *)
(***************************************************************************)
EXTENDS Naturals

CONSTANTS
  Programs,      \* those that may be started
  Arguments,     \* what they may be started with
  Hosts,         \* IPv4 addresses
  LocalHosts,    \* those of this machine
  Localhost,
  Own,           \* the entries that the user may write
  Edited,        \* bound: the files that the editor opens
  None           \* no host, no entries

VARIABLES
  pc,
  host, port,    \* AppConfig.host and node_port of a program
  asked,         \* how many services it has asked
  pending,       \* a part of a service's answer is there to be read
  vscode,        \* the directory .vscode exists
  files,         \* the two files
  file, loaded,  \* the one a program is at, and what it has read of it
  buffer,        \* what the editor has read of each file
  found          \* history: the user's entries when a program started,
                 \* unless somebody else has written a file since

network == <<asked, pending>>
disk == <<files, loaded, buffer, found>>
vars == <<pc, host, port, network, vscode, disk, file>>

Files == {"launch", "tasks"}

(* detect_public_ip_from_services has three. *)
Services == 3

ASSUME StartupAssumptions ==
  /\ Edited \subseteq Files
  /\ Arguments \subseteq [host : Hosts \cup {None}, node_port : Nat, web_port : Nat]
  /\ Localhost \in LocalHosts /\ LocalHosts \subseteq Hosts
  /\ None \notin Hosts \cup Programs
  /\ \A own \in SUBSET Own : own # None
  /\ \A both \in [Files -> (SUBSET Own) \cup {None}] : both # None

(* AppConfig::cli_endpoint and node_bind_addr: where p listens. *)
Endpoint(p) == <<host[p], port[p]>>

(* A file: the user's entries, the program that wrote the others, and the
   endpoint that they name; an empty file is read like one without entries,
   and one that mixes two texts cannot be read. *)
Empty == [own |-> {}, by |-> None, endpoint |-> None]
Mixed == [own |-> None, by |-> None, endpoint |-> None]

Init ==
  /\ pc = [p \in Programs |-> "off"]
  /\ host = [p \in Programs |-> None] /\ port = [p \in Programs |-> 0]
  /\ asked = [p \in Programs |-> 0] /\ pending = [p \in Programs |-> FALSE]
  /\ vscode \in BOOLEAN
  /\ files = [f \in Files |-> Empty]
  /\ file = [p \in Programs |-> "launch"]
  /\ loaded = [p \in Programs |-> None]
  /\ buffer = [f \in Files |-> None]
  /\ found = [p \in Programs |-> None]

Go(p, place) == pc' = [pc EXCEPT ![p] = place]

-----------------------------------------------------------------------------
(* AppConfig::parse *)

(* from_args *)
Valid(a) == a.node_port # 0 /\ a.web_port # 0 /\ a.node_port # a.web_port

Start(p, a) ==
  /\ pc[p] = "off" /\ Valid(a)
  /\ Go(p, IF a.host = None THEN "network" ELSE "root")
  /\ host' = [host EXCEPT ![p] = a.host]
  /\ port' = [port EXCEPT ![p] = a.node_port]
  /\ found' = [found EXCEPT ![p] = [f \in Files |-> files[f].own]]
  /\ UNCHANGED <<network, vscode, files, loaded, buffer, file>>

Resolved(p, h) ==
  /\ host' = [host EXCEPT ![p] = h] /\ asked' = [asked EXCEPT ![p] = 0]
  /\ Go(p, "root")

(* The address that packets would leave from, unless it is a loopback one. *)
detect_active_network_ip(p) ==
  /\ pc[p] = "network"
  /\ \/ \E h \in Hosts \ {Localhost} : Resolved(p, h)
     \/ Go(p, "ask") /\ UNCHANGED <<host, asked>>
  /\ UNCHANGED <<port, pending, vscode, disk, file>>

(* Mutant: when none has an address, they are all asked again. *)
NextServiceAgain(p) ==
  /\ asked' = [asked EXCEPT ![p] = (@ + 1) % Services]
  /\ Go(p, "ask")
  /\ UNCHANGED host

(* No address from this service: the next one, or the last resort. *)
NextService(p) ==
  IF asked[p] + 1 < Services
  THEN /\ asked' = [asked EXCEPT ![p] = @ + 1]
       /\ Go(p, "ask")
       /\ UNCHANGED host
  ELSE Resolved(p, Localhost)

(* query_public_ip_over_http: no such host, no connection within 2 s. *)
ServiceUnreachable(p) ==
  /\ pc[p] = "ask"
  /\ NextService(p)
  /\ UNCHANGED <<port, pending, vscode, disk, file>>

ServiceConnected(p) ==
  /\ pc[p] = "ask"
  /\ Go(p, "answer")
  /\ UNCHANGED <<host, port, network, vscode, disk, file>>

(* The 2 s of a read begin anew with each part of the answer. *)
ReadPart(p) ==
  /\ pc[p] = "answer" /\ pending[p]
  /\ pending' = [pending EXCEPT ![p] = FALSE]
  /\ UNCHANGED <<pc, host, port, asked, vscode, disk, file>>

(* The service closes, with an address or without; that may be any address. *)
AnswerRead(p) ==
  /\ pc[p] = "answer" /\ ~pending[p]
  /\ \/ \E h \in Hosts : Resolved(p, h)
     \/ NextService(p)
  /\ UNCHANGED <<port, pending, vscode, disk, file>>

(* Mutant: no timeout on the reads. *)
NoReadTimeout(p) == FALSE

ReadTimeout(p) ==
  /\ pc[p] = "answer" /\ ~pending[p]
  /\ NextService(p)
  /\ UNCHANGED <<port, pending, vscode, disk, file>>

-----------------------------------------------------------------------------
(* Core::new *)

(* Mutant: without a .vscode its files are written all the same. *)
ResolveRootAlways(p) ==
  /\ pc[p] = "root"
  /\ Go(p, "load")
  /\ file' = [file EXCEPT ![p] = "launch"]
  /\ UNCHANGED <<host, port, network, vscode, disk>>

(* Only a directory that is there is written to. *)
ResolveRoot(p) ==
  /\ pc[p] = "root"
  /\ Go(p, IF vscode THEN "load" ELSE "listen")
  /\ file' = [file EXCEPT ![p] = "launch"]
  /\ UNCHANGED <<host, port, network, vscode, disk>>

(* Somebody writes a file: others that have started meanwhile are disturbed. *)
Disturbs(others) ==
  found' = [p \in Programs |-> IF p \in others THEN None ELSE found[p]]

Load(p) ==
  /\ pc[p] = "load" /\ files[file[p]].own # None
  /\ loaded' = [loaded EXCEPT ![p] = files[file[p]].own]
  /\ Go(p, "empty")
  /\ UNCHANGED <<host, port, network, vscode, files, buffer, found, file>>

(* fs::write truncates the file first. *)
Truncate(p) ==
  /\ pc[p] = "empty"
  /\ files' = [files EXCEPT ![file[p]] = Empty]
  /\ Disturbs(Programs \ {p})
  /\ Go(p, "fill")
  /\ UNCHANGED <<host, port, network, vscode, loaded, buffer, file>>

(* Only launch.json names the endpoint. *)
Written(p) ==
  [own |-> loaded[p], by |-> p,
   endpoint |-> IF file[p] = "launch" THEN Endpoint(p) ELSE None]

(* Somebody else has written the file since p truncated it, or is writing *)
(* it: the other text may show behind this one or between its parts.      *)
Overlaps(p) ==
  \/ files[file[p]] # Empty
  \/ \E q \in Programs \ {p} : pc[q] = "fill" /\ file[q] = file[p]

Fill(p) ==
  /\ pc[p] = "fill"
  /\ \/ /\ files' = [files EXCEPT ![file[p]] = Written(p)]
        /\ Disturbs(Programs \ {p})
     \/ /\ Overlaps(p)
        /\ files' = [files EXCEPT ![file[p]] = Mixed]
        /\ Disturbs(Programs)
  /\ loaded' = [loaded EXCEPT ![p] = None]
  /\ IF file[p] = "launch"
     THEN Go(p, "load") /\ file' = [file EXCEPT ![p] = "tasks"]
     ELSE Go(p, "listen") /\ UNCHANGED file
  /\ UNCHANGED <<host, port, network, vscode, buffer>>

-----------------------------------------------------------------------------
(* Core::initialize: ensure_listener, start_listener *)

Serving(p) == pc[p] = "serving"

Free(e) == \A q \in Programs : Serving(q) => Endpoint(q) # e

(* Mutant: an error of the listener does not end the start. *)
ListenAnyway(p) ==
  /\ pc[p] = "listen"
  /\ Go(p, "serving")
  /\ UNCHANGED <<host, port, network, vscode, disk, file>>

Listen(p) ==
  /\ pc[p] = "listen"
  /\ host[p] \in LocalHosts /\ Free(Endpoint(p))
  /\ Go(p, "serving")
  /\ UNCHANGED <<host, port, network, vscode, disk, file>>

(* The program is gone, and with it its endpoint and what it had read. *)
Gone(p) ==
  /\ Go(p, "off")
  /\ host' = [host EXCEPT ![p] = None] /\ port' = [port EXCEPT ![p] = 0]
  /\ asked' = [asked EXCEPT ![p] = 0] /\ pending' = [pending EXCEPT ![p] = FALSE]
  /\ loaded' = [loaded EXCEPT ![p] = None] /\ found' = [found EXCEPT ![p] = None]
  /\ file' = [file EXCEPT ![p] = "launch"]
  /\ UNCHANGED <<vscode, files, buffer>>

(* The text is not JSON: the error ends the program. *)
LoadFails(p) ==
  /\ pc[p] = "load" /\ files[file[p]].own = None
  /\ Gone(p)

ListenFails(p) ==
  /\ pc[p] = "listen"
  /\ host[p] \notin LocalHosts \/ ~Free(Endpoint(p))
  /\ Gone(p)

(* main returns the error of a step (of a print, the root, a file, the
   certificate), the command line ends, or the program is killed.  A file
   that it has truncated is then left empty; that it may also be left with
   a part of its text is LaunchSync's subject. *)
Ends(p) == pc[p] # "off" /\ Gone(p)

-----------------------------------------------------------------------------
(* The services and the user *)

SendPart(p) ==
  /\ pc[p] = "answer" /\ ~pending[p]
  /\ pending' = [pending EXCEPT ![p] = TRUE]
  /\ UNCHANGED <<pc, host, port, asked, vscode, disk, file>>

Open(f) ==
  /\ vscode /\ f \in Edited /\ buffer[f] = None
  /\ buffer' = [buffer EXCEPT ![f] = files[f]]
  /\ UNCHANGED <<pc, host, port, network, vscode, files, loaded, found, file>>

(* An entry is added or removed, or a file that mixes two texts repaired. *)
Changed(own, e) ==
  CASE own = None -> {e}
    [] own # None /\ e \in own -> own \ {e}
    [] OTHER -> own \cup {e}

(* What is saved is what had been read, changed. *)
Save(f) ==
  /\ buffer[f] # None
  /\ \E e \in Own :
       files' = [files EXCEPT ![f] = [buffer[f] EXCEPT !.own = Changed(@, e)]]
  /\ buffer' = [buffer EXCEPT ![f] = None]
  /\ Disturbs(Programs)
  /\ UNCHANGED <<pc, host, port, network, vscode, loaded, file>>

ProgramStep(p) ==
  \/ detect_active_network_ip(p) \/ ServiceUnreachable(p)
  \/ ReadPart(p) \/ ReadTimeout(p)
  \/ ResolveRoot(p) \/ Load(p) \/ LoadFails(p) \/ Truncate(p) \/ Fill(p)
  \/ Listen(p) \/ ListenFails(p)

Next ==
  \/ \E p \in Programs :
       \/ \E a \in Arguments : Start(p, a)
       \/ ProgramStep(p)
       \/ ServiceConnected(p) \/ SendPart(p) \/ AnswerRead(p)
       \/ Ends(p)
  \/ \E f \in Files : Open(f) \/ Save(f)

Spec == Init /\ [][Next]_vars

(***************************************************************************)
(* Fairness: a program is run, and its timers run out; the name service    *)
(* answers.  Nothing is assumed of the services: they need not accept,     *)
(* answer or close.                                                        *)
(***************************************************************************)
FairSpec == Spec /\ \A p \in Programs : WF_vars(ProgramStep(p))

-----------------------------------------------------------------------------
(* Properties *)

Starting(p) == pc[p] \notin {"off", "serving"}

AtFile(p) == pc[p] \in {"load", "empty", "fill"}

FileType ==
  [own : (SUBSET Own) \cup {None}, by : Programs \cup {None},
   endpoint : (Hosts \X Nat) \cup {None}]

(***************************************************************************)
(* Type invariant; a program that reaches the files has a host, no fourth  *)
(* service is asked, and a file is in memory only while it is rewritten.   *)
(***************************************************************************)
StartupTypeOK ==
  /\ pc \in [Programs -> {"off", "network", "ask", "answer", "root", "load", "empty",
                         "fill", "listen", "serving"}]
  /\ host \in [Programs -> Hosts \cup {None}] /\ port \in [Programs -> Nat]
  /\ asked \in [Programs -> 0..Services - 1] /\ pending \in [Programs -> BOOLEAN]
  /\ vscode \in BOOLEAN
  /\ files \in [Files -> FileType]
  /\ file \in [Programs -> Files]
  /\ loaded \in [Programs -> (SUBSET Own) \cup {None}]
  /\ buffer \in [Files -> FileType \cup {None}]
  /\ found \in [Programs -> [Files -> (SUBSET Own) \cup {None}] \cup {None}]
  /\ \A p \in Programs :
       /\ asked[p] # 0 => pc[p] \in {"ask", "answer"}
       /\ pc[p] \in {"root", "listen", "serving"} \/ AtFile(p) => host[p] \in Hosts
       /\ AtFile(p) => vscode
       /\ loaded[p] # None <=> pc[p] \in {"empty", "fill"}

(***************************************************************************)
(* A program that takes commands is the only one at its endpoint, and, if  *)
(* nobody else has written the files since it started, they are what it    *)
(* promises: launch.json names that endpoint, both hold the entries of     *)
(* this one start and all that the user had in them.  Starts that have     *)
(* failed, at the bind or between truncating and writing, and what their   *)
(* hosts were, make no difference.                                         *)
(***************************************************************************)
ServesWhatItWrote ==
  \A p \in Programs : Serving(p) =>
    /\ \A q \in Programs : Serving(q) /\ Endpoint(q) = Endpoint(p) => q = p
    /\ vscode /\ found[p] # None =>
         /\ files["launch"].endpoint = Endpoint(p)
         /\ \A f \in Files : files[f].by = p /\ files[f].own = found[p][f]

(***************************************************************************)
(* A start comes to its end, with or without a host, a directory, a free   *)
(* endpoint or files that can be read, unless a service keeps sending      *)
(* parts of an answer for ever: the timeouts are per read.                 *)
(***************************************************************************)
StartEnds ==
  \A p \in Programs : []<>(pending[p] \/ ~Starting(p))

(* How many more steps a start may make: with a service it has two, with a *)
(* file three.                                                             *)
ServicesLeft(n) == 2 * (Services - 1 - n)
FilesLeft(f) == IF f = "launch" THEN 3 ELSE 0

StepsFrom(place, n, f) ==
  CASE place = "network" -> 15
    [] place = "ask" -> 10 + ServicesLeft(n)
    [] place = "answer" -> 9 + ServicesLeft(n)
    [] place = "root" -> 8
    [] place = "load" -> 4 + FilesLeft(f)
    [] place = "empty" -> 3 + FilesLeft(f)
    [] place = "fill" -> 2 + FilesLeft(f)
    [] place = "listen" -> 1
    [] place \in {"off", "serving"} -> 0

StepsLeft(p) == StepsFrom(pc[p], asked[p], file[p])

(***************************************************************************)
(* A start never goes round in circles: every step of a program but the    *)
(* reading of a part brings it nearer its end, at most 15 of them, and     *)
(* what the services, the user and other programs do leaves it where it    *)
(* is.  No service is asked twice, no file is written twice, and nothing   *)
(* is tried again because another program was first.                       *)
(***************************************************************************)
AdvanceStep(p) ==
  Starting(p) => \/ UNCHANGED <<pc[p], host[p], port[p], asked[p], file[p], loaded[p]>>
                 \/ StepsLeft(p)' < StepsLeft(p)

StartAdvances == [][\A p \in Programs : AdvanceStep(p)]_vars

=============================================================================
