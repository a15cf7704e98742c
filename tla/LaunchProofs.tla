---------------------------- MODULE LaunchProofs ----------------------------
(***************************************************************************)
(* Proofs about the launch configurations, for any layouts, any entries    *)
(* and any edits.  First what the entries of a run are, then what becomes  *)
(* of a file that is written, then the properties.                         *)
(***************************************************************************)
EXTENDS LaunchSync, FilterProofs

-----------------------------------------------------------------------------
(* The configurations of a run *)

(* Which configurations a run with input i may write for component c.       *)
ConfigFor(c, i) ==
  {e \in Config :
     /\ e.name.of = c /\ e.name.suffix = i.profile
     /\ e.endpoint \in {i.endpoint, None}
     /\ i.kind[c] # "missing"
     /\ e.preLaunchTask # None =>
          i.kind[c] = "source" /\ e.preLaunchTask = build_task_label(c, i)}

(* A component has at most one configuration.                               *)
LEMMA ConfigsOfShape ==
  ASSUME NEW c \in Components, NEW i \in Input
  PROVE  ConfigsOf(c, i) \in Seq(ConfigFor(c, i)) /\ Len(ConfigsOf(c, i)) <= 1
  <1> DEFINE plain(p) == LaunchConfig(c, i, p)
  <1>1. \A p \in {"component", "workspace", "binary"} :
          /\ plain(p) \in Config
          /\ plain(p).name.of = c /\ plain(p).name.suffix = i.profile
          /\ plain(p).endpoint = i.endpoint
          /\ plain(p).preLaunchTask = build_task_label(c, i)
    BY DEF Config, ConfigName, TaskLabel, Components, Suffixes, LaunchConfig, Input,
           build_task_label, Label
  <1>2. i.kind[c] = "source" =>
          /\ source_launch_config(c, i) \in ConfigFor(c, i)
          /\ workspace_source_launch_config(c, i) \in ConfigFor(c, i)
    BY <1>1 DEF ConfigFor, source_launch_config, workspace_source_launch_config
  <1>3. i.kind[c] = "binary" => binary_attach_config(c, i) \in ConfigFor(c, i)
    BY <1>1 DEF ConfigFor, binary_attach_config, Config
  <1> DEFINE C == ConfigFor(c, i)
  <1>4. \A e \in C : << e >> \in Seq(C) /\ Len(<< e >>) = 1
    OBVIOUS
  <1>5. << >> \in Seq(C) /\ Len(<< >>) = 0
    OBVIOUS
  <1> HIDE DEF C
  <1> QED
    BY <1>2, <1>3, <1>4, <1>5 DEF ConfigsOf, C

(* What a run writes into launch.json, as Coherent sees it.                 *)
OurConfig(i) == UNION {ConfigFor(c, i) : c \in Components}

(* The configurations of a run are such, and no two have one name. *)
LEMMA ManagedConfigsShape ==
  ASSUME NEW i \in Input
  PROVE  LET M == ManagedConfigs(i) IN
         /\ M \in Seq(OurConfig(i))
         /\ \A j, k \in 1..Len(M) : M[j].name = M[k].name => j = k
  <1> DEFINE A == ConfigsOf("client", i)
             B == ConfigsOf("server", i)
  <1>1. /\ A \in Seq(ConfigFor("client", i)) /\ Len(A) <= 1
        /\ B \in Seq(ConfigFor("server", i)) /\ Len(B) <= 1
    BY ConfigsOfShape DEF Components
  <1>2. ManagedConfigs(i) = A \o B
    BY DEF ManagedConfigs
  <1> HIDE DEF A, B
  <1>3. A \in Seq(OurConfig(i)) /\ B \in Seq(OurConfig(i))
    <2>1. \A c \in Components : ConfigFor(c, i) \subseteq OurConfig(i)
      BY DEF OurConfig
    <2> QED
      BY <1>1, <2>1, SeqMonotonic DEF Components
  <1>4. A \o B \in Seq(OurConfig(i)) /\ Len(A \o B) = Len(A) + Len(B)
    BY <1>3
  <1>5. ASSUME NEW j \in 1..Len(A \o B), NEW k \in 1..Len(A \o B), j < k
        PROVE  (A \o B)[j].name # (A \o B)[k].name
    <2>1. j = 1 /\ k = 2 /\ Len(A) = 1 /\ Len(B) = 1
      <3> DEFINE a == Len(A)
                 b == Len(B)
                 n == Len(A \o B)
      <3>1. a \in Nat /\ b \in Nat /\ a <= 1 /\ b <= 1 /\ n = a + b
        BY <1>1, <1>3, <1>4
      <3>2. j \in 1..n /\ k \in 1..n /\ j < k
        BY <1>5
      <3> HIDE DEF a, b, n
      <3>3. j = 1 /\ k = 2 /\ a = 1 /\ b = 1
        BY <3>1, <3>2
      <3> QED
        BY <3>3 DEF a, b
    <2>2. (A \o B)[1] = A[1] /\ (A \o B)[2] = B[1]
      <3>1. \A m \in 1..(Len(A) + Len(B)) :
              (A \o B)[m] = IF m <= Len(A) THEN A[m] ELSE B[m - Len(A)]
        BY <1>3, ConcatProperties
      <3>2. 1 \in 1..2 /\ 2 \in 1..2 /\ 1 <= 1 /\ ~(2 <= 1) /\ 2 - 1 = 1 /\ 1 + 1 = 2
        OBVIOUS
      <3> QED
        BY <2>1, <3>1, <3>2, Zenon
    <2>3. A[1] \in ConfigFor("client", i) /\ B[1] \in ConfigFor("server", i)
      BY <1>1, <2>1
    <2> QED
      BY <2>1, <2>2, <2>3 DEF ConfigFor
  <1>6. \A j, k \in 1..Len(A \o B) :
          (A \o B)[j].name = (A \o B)[k].name => j = k
    <2> DEFINE C == A \o B
    <2> HIDE DEF C
    <2>1. Len(C) \in Nat
      BY <1>4 DEF C
    <2>2. \A j, k \in 1..Len(C) : j < k => C[j].name # C[k].name
      BY <1>5 DEF C
    <2>3. \A j, k \in 1..Len(C) : C[j].name = C[k].name => j = k
      BY <2>1, <2>2
    <2> QED
      BY <2>3 DEF C
  <1> QED
    BY <1>2, <1>4, <1>6

-----------------------------------------------------------------------------
(* The tasks of a run *)

(* A list of tasks with labels of a set, each once, and dependencies of     *)
(* another.                                                                 *)
TaskIn(labels, needs) ==
  {e \in Task : e.label \in labels /\ e.dependsOn \in needs}

TaskList(s, labels, needs) ==
  /\ s \in Seq(TaskIn(labels, needs))
  /\ \A j, k \in 1..Len(s) : s[j].label = s[k].label => j = k

(* Lists with different labels go together.                                 *)
LEMMA TaskListConcat ==
  ASSUME NEW L1, NEW L2, NEW N1, NEW N2, NEW s, NEW t,
         TaskList(s, L1, N1), TaskList(t, L2, N2), L1 \cap L2 = {}
  PROVE  TaskList(s \o t, L1 \cup L2, N1 \cup N2)
  <1> DEFINE T == TaskIn(L1 \cup L2, N1 \cup N2)
  <1>1. s \in Seq(TaskIn(L1, N1)) /\ t \in Seq(TaskIn(L2, N2))
    BY DEF TaskList
  <1>2. s \in Seq(T) /\ t \in Seq(T)
    <2>1. TaskIn(L1, N1) \subseteq T /\ TaskIn(L2, N2) \subseteq T
      BY DEF TaskIn
    <2> HIDE DEF T
    <2> QED
      BY <1>1, <2>1, SeqMonotonic
  <1> HIDE DEF T
  <1>3. s \o t \in Seq(T)
    BY <1>2
  <1>4. ASSUME NEW j \in 1..Len(s \o t), NEW k \in 1..Len(s \o t),
               (s \o t)[j].label = (s \o t)[k].label
        PROVE  j = k
    <2> DEFINE a == Len(s)
               b == Len(t)
               r == s \o t
    <2>1. /\ a \in Nat /\ b \in Nat /\ Len(r) = a + b
          /\ \A n \in 1..a : r[n] = s[n]
          /\ \A n \in (a + 1)..(a + b) : r[n] = t[n - a]
      BY <1>2
    <2>2. \A n \in 1..a : s[n].label \in L1
      BY <1>1 DEF TaskIn
    <2>3. \A n \in 1..b : t[n].label \in L2
      BY <1>1 DEF TaskIn
    <2>4. /\ \A m, n \in 1..a : s[m].label = s[n].label => m = n
          /\ \A m, n \in 1..b : t[m].label = t[n].label => m = n
      BY DEF TaskList
    <2>5. /\ j \in 1..(a + b) /\ k \in 1..(a + b)
          /\ r[j].label = r[k].label
      BY <1>4, <2>1
    <2> HIDE DEF a, b, r
    <2>6. \A n \in 1..(a + b) :
            n \in 1..a \/ (n \in (a + 1)..(a + b) /\ n - a \in 1..b)
      BY <2>1
    <2>7. CASE j \in 1..a /\ k \in 1..a
      BY <2>1, <2>4, <2>5, <2>7
    <2>8. CASE j \in (a + 1)..(a + b) /\ k \in (a + 1)..(a + b)
      <3>1. j - a = k - a
        BY <2>1, <2>4, <2>5, <2>6, <2>8
      <3> QED
        BY <2>1, <2>8, <3>1
    <2>9. CASE \/ j \in 1..a /\ k \in (a + 1)..(a + b)
               \/ k \in 1..a /\ j \in (a + 1)..(a + b)
      <3>1. \A m \in 1..a, n \in (a + 1)..(a + b) : r[m].label # r[n].label
        BY <2>1, <2>2, <2>3, <2>6
      <3> QED
        BY <2>5, <2>9, <3>1
    <2> QED
      BY <2>5, <2>6, <2>7, <2>8, <2>9
  <1> QED
    BY <1>3, <1>4 DEF TaskList, T

(* A pair is made of two lists of one.                                      *)
LEMMA PairIsConcat ==
  ASSUME NEW e, NEW f
  PROVE  << e, f >> = << e >> \o << f >>
  <1> DEFINE S == {e, f}
             p == << e, f >>
             q == << e >> \o << f >>
  <1>1. /\ << e >> \in Seq(S) /\ << f >> \in Seq(S) /\ p \in Seq(S)
        /\ Len(<< e >>) = 1 /\ Len(<< f >>) = 1 /\ Len(p) = 2
        /\ << e >>[1] = e /\ << f >>[1] = f /\ p[1] = e /\ p[2] = f
    OBVIOUS
  <1>2. q \in Seq(S) /\ Len(q) = 2 /\ q[1] = e /\ q[2] = f
    BY <1>1, ConcatProperties
  <1> HIDE DEF p, q
  <1>3. p = q
    <2>1. \A k \in 1..Len(p) : p[k] = q[k]
      BY <1>1, <1>2
    <2> QED
      BY <1>1, <1>2, <2>1, SeqEqual
  <1> QED
    BY <1>3, Zenon DEF p, q

(* A list of no task, and one of one task.                                  *)
LEMMA TaskListSmall ==
  ASSUME NEW L, NEW N
  PROVE  /\ TaskList(<< >>, L, N)
         /\ \A e \in TaskIn(L, N) : TaskList(<< e >>, L, N)
  <1> DEFINE T == TaskIn(L, N)
  <1>1. << >> \in Seq(T) /\ 1..Len(<< >>) = {}
    OBVIOUS
  <1>2. \A e \in T : << e >> \in Seq(T) /\ 1..Len(<< e >>) = {1}
    OBVIOUS
  <1> QED
    BY <1>1, <1>2, Zenon DEF TaskList

(* The labels that a run with input i gives to the tasks of c.              *)
LabelsOf(c, i) == {configure_task_label(c, i), build_task_label(c, i)}

(***************************************************************************)
(* The tasks of one component: a lone build that needs the workspace, or a *)
(* configuration and a build that needs it.                                *)
(***************************************************************************)
LEMMA TasksOfShape ==
  ASSUME NEW c \in Components, NEW i \in Input
  PROVE  LET s == TasksOf(c, i) IN
         /\ i.cmake => TaskList(s, {build_task_label(c, i)},
                                {configure_workspace_task_label(i)})
         /\ ~i.cmake => /\ TaskList(s, LabelsOf(c, i), {None, configure_task_label(c, i)})
                        /\ s # << >> => s[1].label = configure_task_label(c, i)
         /\ i.kind[c] = "source" =>
              \E k \in 1..Len(s) : s[k].label = build_task_label(c, i)
  <1> DEFINE s == TasksOf(c, i)
  <1>1. /\ configure_task_label(c, i) \in TaskLabel
        /\ build_task_label(c, i) \in TaskLabel
        /\ configure_workspace_task_label(i) \in TaskLabel
        /\ configure_task_label(c, i) # build_task_label(c, i)
    BY DEF configure_task_label, build_task_label, configure_workspace_task_label,
           Label, TaskLabel, Suffixes, Input
  <1>2. CASE i.kind[c] = "source" /\ i.cmake
    <2> DEFINE e == build_workspace_component_task(c, i)
    <2>1. /\ e \in TaskIn({build_task_label(c, i)}, {configure_workspace_task_label(i)})
          /\ e.label = build_task_label(c, i)
      BY <1>1 DEF build_workspace_component_task, NewTask, TaskIn, Task
    <2>2. s = << e >>
      BY <1>2 DEF TasksOf
    <2> HIDE DEF e
    <2>3. TaskList(s, {build_task_label(c, i)}, {configure_workspace_task_label(i)})
      BY <2>1, <2>2, TaskListSmall
    <2>4. 1 \in 1..Len(<< e >>) /\ << e >>[1] = e
      OBVIOUS
    <2> QED
      BY <1>2, <2>1, <2>2, <2>3, <2>4, Zenon
  <1>3. CASE i.kind[c] = "source" /\ ~i.cmake
    <2> DEFINE e == configure_task(c, i)
               f == build_task(c, i)
               N == {None, configure_task_label(c, i)}
    <2>1. /\ e \in TaskIn({configure_task_label(c, i)}, N)
          /\ f \in TaskIn({build_task_label(c, i)}, N)
          /\ e.label = configure_task_label(c, i) /\ f.label = build_task_label(c, i)
      BY <1>1 DEF configure_task, build_task, NewTask, TaskIn, Task
    <2>2. s = << e, f >>
      BY <1>3 DEF TasksOf
    <2> HIDE DEF e, f
    <2>3. << e, f >> = << e >> \o << f >>
      BY PairIsConcat
    <2>4. TaskList(<< e >> \o << f >>,
                   {configure_task_label(c, i)} \cup {build_task_label(c, i)}, N \cup N)
      <3>1. /\ TaskList(<< e >>, {configure_task_label(c, i)}, N)
            /\ TaskList(<< f >>, {build_task_label(c, i)}, N)
        BY <2>1, TaskListSmall, Zenon
      <3>2. {configure_task_label(c, i)} \cap {build_task_label(c, i)} = {}
        BY <1>1
      <3> QED
        BY <3>1, <3>2, TaskListConcat, Zenon
    <2>5. /\ {configure_task_label(c, i)} \cup {build_task_label(c, i)} = LabelsOf(c, i)
          /\ N \cup N = N
      BY DEF LabelsOf
    <2>6. /\ 2 \in 1..Len(<< e, f >>) /\ << e, f >>[1] = e /\ << e, f >>[2] = f
          /\ << e, f >> # << >>
      OBVIOUS
    <2>7. TaskList(s, LabelsOf(c, i), N)
      BY <2>2, <2>3, <2>4, <2>5
    <2> QED
      BY <1>3, <2>1, <2>2, <2>6, <2>7, Zenon
  <1>4. CASE i.kind[c] # "source"
    <2>1. s = << >>
      BY <1>4 DEF TasksOf
    <2> QED
      BY <1>4, <2>1, TaskListSmall
  <1> QED
    BY <1>2, <1>3, <1>4

LabelsIn(s) == {s[k].label : k \in 1..Len(s)}
NeedsMet(s, labels) ==
  \A k \in 1..Len(s) : s[k].dependsOn \in labels \cup {None}

(* Putting lists together loses no label and adds no need.                  *)
LEMMA ConcatNeeds ==
  ASSUME NEW T, NEW s \in Seq(T), NEW t \in Seq(T), NEW labels
  PROVE  /\ LabelsIn(s \o t) = LabelsIn(s) \cup LabelsIn(t)
         /\ NeedsMet(s, labels) /\ NeedsMet(t, labels) => NeedsMet(s \o t, labels)
  <1> DEFINE a == Len(s)
             b == Len(t)
             r == s \o t
  <1>1. /\ a \in Nat /\ b \in Nat /\ Len(r) = a + b
        /\ \A n \in 1..a : r[n] = s[n] /\ n \in 1..(a + b)
        /\ \A n \in 1..b : r[n + a] = t[n] /\ n + a \in 1..(a + b)
    BY ConcatProperties
  <1> HIDE DEF a, b, r
  <1>2. \A n \in 1..(a + b) : n \in 1..a \/ \E m \in 1..b : n = m + a
    <2> SUFFICES ASSUME NEW n \in 1..(a + b), n \notin 1..a
                 PROVE  \E m \in 1..b : n = m + a
      OBVIOUS
    <2>1. n - a \in 1..b /\ n = (n - a) + a
      BY <1>1
    <2> QED
      BY <2>1
  <1>3. \A n \in 1..(a + b) :
          (\E m \in 1..a : r[n] = s[m]) \/ (\E m \in 1..b : r[n] = t[m])
    BY <1>1, <1>2
  <1>4. {r[k].label : k \in 1..(a + b)}
          = {s[k].label : k \in 1..a} \cup {t[k].label : k \in 1..b}
    <2>1. \A n \in 1..(a + b) :
            r[n].label \in {s[k].label : k \in 1..a} \cup {t[k].label : k \in 1..b}
      BY <1>3
    <2>2. \A n \in 1..a : s[n].label \in {r[k].label : k \in 1..(a + b)}
      <3> SUFFICES ASSUME NEW n \in 1..a
                   PROVE  \E k \in 1..(a + b) : s[n].label = r[k].label
        OBVIOUS
      <3>1. n \in 1..(a + b) /\ r[n] = s[n]
        BY <1>1
      <3> QED
        BY <3>1, Zenon
    <2>3. \A n \in 1..b : t[n].label \in {r[k].label : k \in 1..(a + b)}
      <3> SUFFICES ASSUME NEW n \in 1..b
                   PROVE  \E k \in 1..(a + b) : t[n].label = r[k].label
        OBVIOUS
      <3>1. n + a \in 1..(a + b) /\ r[n + a] = t[n]
        BY <1>1
      <3> QED
        BY <3>1, Zenon
    <2> QED
      BY <2>1, <2>2, <2>3, Zenon
  <1>5. ASSUME \A k \in 1..a : s[k].dependsOn \in labels \cup {None},
               \A k \in 1..b : t[k].dependsOn \in labels \cup {None}
        PROVE  \A k \in 1..(a + b) : r[k].dependsOn \in labels \cup {None}
    BY <1>3, <1>5
  <1> QED
    BY <1>1, <1>4, <1>5, Zenon DEF LabelsIn, NeedsMet, a, b, r

(* What a run writes into tasks.json, as Coherent sees it.                  *)
OurTask(i) ==
  {e \in Task : /\ e.label.verb \in {"Configure", "Build"}
                /\ e.label.of \in Components \cup {"Workspace"}
                /\ e.label.suffix = i.profile}

Fitting(M, i) ==
  /\ M \in Seq(OurTask(i))
  /\ \A j, k \in 1..Len(M) : M[j].label = M[k].label => j = k
  /\ NeedsMet(M, LabelsIn(M))
  /\ \A c \in Components :
       i.kind[c] = "source" => build_task_label(c, i) \in LabelsIn(M)

(* Tasks with labels of a run are tasks of that run.                        *)
LEMMA TaskListOurs ==
  ASSUME NEW s, NEW L, NEW N, NEW i, TaskList(s, L, N),
         \A l \in L : /\ l.verb \in {"Configure", "Build"}
                      /\ l.of \in Components \cup {"Workspace"}
                      /\ l.suffix = i.profile
  PROVE  s \in Seq(OurTask(i))
  <1>1. TaskIn(L, N) \subseteq OurTask(i)
    BY DEF TaskIn, OurTask
  <1>2. s \in Seq(TaskIn(L, N))
    BY DEF TaskList
  <1> HIDE DEF TaskIn, OurTask
  <1> QED
    BY <1>1, <1>2, SeqMonotonic

(* What the elements of a list need is among what the list may need.        *)
LEMMA TaskListNeeds ==
  ASSUME NEW s, NEW L, NEW N, NEW labels, TaskList(s, L, N),
         N \subseteq labels \cup {None}
  PROVE  NeedsMet(s, labels) /\ s \in Seq(Task)
  <1>1. s \in Seq(TaskIn(L, N))
    BY DEF TaskList
  <1>2. \A k \in 1..Len(s) : s[k] \in TaskIn(L, N)
    BY <1>1, ElementOfSeq
  <1>3. TaskIn(L, N) \subseteq Task
    BY DEF TaskIn
  <1>4. s \in Seq(Task)
    BY <1>1, <1>3, SeqMonotonic
  <1> QED
    BY <1>2, <1>4 DEF TaskIn, NeedsMet

(* Without a workspace: two lists, each with what it needs.                 *)
LEMMA SeparateTasksFit ==
  ASSUME NEW i \in Input, ~i.cmake
  PROVE  Fitting(ManagedTasks(i), i)
  <1> DEFINE A == TasksOf("client", i)
             B == TasksOf("server", i)
             L1 == LabelsOf("client", i)
             L2 == LabelsOf("server", i)
             N1 == {None, configure_task_label("client", i)}
             N2 == {None, configure_task_label("server", i)}
             M == A \o B
  <1>1. /\ TaskList(A, L1, N1) /\ (A # << >> => A[1].label = configure_task_label("client", i))
        /\ TaskList(B, L2, N2) /\ (B # << >> => B[1].label = configure_task_label("server", i))
        /\ i.kind["client"] = "source" => build_task_label("client", i) \in LabelsIn(A)
        /\ i.kind["server"] = "source" => build_task_label("server", i) \in LabelsIn(B)
    BY TasksOfShape DEF Components, LabelsIn
  <1>2. ManagedTasks(i) = M
    BY DEF ManagedTasks
  <1> HIDE DEF A, B
  <1>3. L1 \cap L2 = {}
    BY DEF LabelsOf, configure_task_label, build_task_label, Label
  <1>4. /\ \A l \in L1 \cup L2 : /\ l.verb \in {"Configure", "Build"}
                                /\ l.of \in Components \cup {"Workspace"}
                                /\ l.suffix = i.profile
    BY DEF LabelsOf, configure_task_label, build_task_label, Label, Components
  <1> HIDE DEF L1, L2
  <1>5. TaskList(M, L1 \cup L2, N1 \cup N2)
    BY <1>1, <1>3, TaskListConcat
  <1>6. M \in Seq(OurTask(i))
    BY <1>4, <1>5, TaskListOurs
  <1>7. A \in Seq(Task) /\ B \in Seq(Task)
    BY <1>1, TaskListNeeds
  <1>8. LabelsIn(M) = LabelsIn(A) \cup LabelsIn(B)
    BY <1>7, ConcatNeeds
  <1>9. NeedsMet(A, LabelsIn(M))
    <2>1. CASE A = << >>
      BY <2>1 DEF NeedsMet
    <2>2. CASE A # << >>
      <3>1. A[1].label \in LabelsIn(A)
        BY <1>7, <2>2 DEF LabelsIn
      <3> QED
        BY <1>1, <1>8, <2>2, <3>1, TaskListNeeds
    <2> QED
      BY <2>1, <2>2
  <1>10. NeedsMet(B, LabelsIn(M))
    <2>1. CASE B = << >>
      BY <2>1 DEF NeedsMet
    <2>2. CASE B # << >>
      <3>1. B[1].label \in LabelsIn(B)
        BY <1>7, <2>2 DEF LabelsIn
      <3> QED
        BY <1>1, <1>8, <2>2, <3>1, TaskListNeeds
    <2> QED
      BY <2>1, <2>2
  <1>11. NeedsMet(M, LabelsIn(M))
    BY <1>7, <1>9, <1>10, ConcatNeeds
  <1> QED
    BY <1>1, <1>2, <1>5, <1>6, <1>8, <1>11 DEF Fitting, TaskList, Components

(* With a workspace: its configuration, which all need, comes first.        *)
LEMMA WorkspaceTasksFit ==
  ASSUME NEW i \in Input, i.cmake
  PROVE  Fitting(ManagedTasks(i), i)
  <1> DEFINE A == TasksOf("client", i)
             B == TasksOf("server", i)
             C == A \o B
             l1 == build_task_label("client", i)
             l2 == build_task_label("server", i)
             cw == configure_workspace_task_label(i)
             bw == build_workspace_task_label(i)
             first == << configure_workspace_task(i) >>
             last == << build_workspace_task(i) >>
             N == {None, cw}
             M == (first \o C) \o last
  <1>1. /\ TaskList(A, {l1}, {cw}) /\ TaskList(B, {l2}, {cw})
        /\ i.kind["client"] = "source" => l1 \in LabelsIn(A)
        /\ i.kind["server"] = "source" => l2 \in LabelsIn(B)
    BY TasksOfShape DEF Components, LabelsIn
  <1>2. ManagedTasks(i) = M
    BY DEF ManagedTasks
  <1>3. /\ l1 # l2 /\ cw \notin {l1, l2} /\ bw \notin {cw, l1, l2}
        /\ \A l \in {cw, l1, l2, bw} : /\ l \in TaskLabel
                                     /\ l.verb \in {"Configure", "Build"}
                                     /\ l.of \in Components \cup {"Workspace"}
                                     /\ l.suffix = i.profile
    BY DEF build_task_label, configure_workspace_task_label,
           build_workspace_task_label, Label, Components, TaskLabel, Suffixes, Input
  <1>4. /\ configure_workspace_task(i) \in TaskIn({cw}, {None})
        /\ build_workspace_task(i) \in TaskIn({bw}, {cw})
        /\ configure_workspace_task(i).label = cw
    BY <1>3 DEF TaskIn, Task, NewTask, configure_workspace_task, build_workspace_task
  <1>5. TaskList(first, {cw}, {None}) /\ TaskList(last, {bw}, {cw})
    BY <1>4, TaskListSmall, Zenon
  <1>6. cw \in LabelsIn(first)
    <2>1. 1 \in 1..Len(first) /\ first[1] = configure_workspace_task(i)
      OBVIOUS
    <2> QED
      BY <1>4, <2>1, Zenon DEF LabelsIn
  <1> HIDE DEF A, B, l1, l2, cw, bw, first, last
  <1>7. TaskList(C, {l1} \cup {l2}, {cw} \cup {cw})
    <2>1. {l1} \cap {l2} = {}
      BY <1>3
    <2> QED
      BY <1>1, <2>1, TaskListConcat
  <1>8. TaskList(first \o C, {cw} \cup ({l1} \cup {l2}), {None} \cup ({cw} \cup {cw}))
    <2>1. {cw} \cap ({l1} \cup {l2}) = {}
      BY <1>3
    <2> HIDE DEF C
    <2> QED
      BY <1>5, <1>7, <2>1, TaskListConcat
  <1> DEFINE L == ({cw} \cup ({l1} \cup {l2})) \cup {bw}
             K == ({None} \cup ({cw} \cup {cw})) \cup {cw}
  <1>9. TaskList(M, L, K)
    <2>1. ({cw} \cup ({l1} \cup {l2})) \cap {bw} = {}
      BY <1>3
    <2> DEFINE D == first \o C
    <2>2. TaskList(D, {cw} \cup ({l1} \cup {l2}), {None} \cup ({cw} \cup {cw}))
      BY <1>8
    <2> HIDE DEF D
    <2>3. TaskList(D \o last, L, K)
      BY <1>5, <2>1, <2>2, TaskListConcat
    <2> QED
      BY <2>3 DEF D
  <1>10. M \in Seq(OurTask(i))
    <2>1. \A l \in L : l \in {cw, l1, l2, bw}
      OBVIOUS
    <2> HIDE DEF M, L
    <2> QED
      BY <1>3, <1>9, <2>1, TaskListOurs
  <1>11. LabelsIn(M) = (LabelsIn(first) \cup (LabelsIn(A) \cup LabelsIn(B))) \cup LabelsIn(last)
    <2>1. /\ A \in Seq(Task) /\ B \in Seq(Task) /\ C \in Seq(Task) /\ first \o C \in Seq(Task)
          /\ first \in Seq(Task) /\ last \in Seq(Task)
      <3> HIDE DEF C
      <3>1. {None} \subseteq {} \cup {None}
        OBVIOUS
      <3>2. A \in Seq(Task) /\ B \in Seq(Task) /\ last \in Seq(Task)
        BY <1>1, <1>5, TaskListNeeds, {cw} \subseteq {cw} \cup {None}
      <3>3. first \in Seq(Task)
        BY <1>5, TaskListNeeds, <3>1
      <3>4. C \in Seq(Task)
        BY <3>2 DEF C
      <3> QED
        BY <3>2, <3>3, <3>4
    <2>2. LabelsIn(C) = LabelsIn(A) \cup LabelsIn(B)
      BY <2>1, ConcatNeeds
    <2> HIDE DEF C
    <2>3. LabelsIn(first \o C) = LabelsIn(first) \cup LabelsIn(C)
      BY <2>1, ConcatNeeds
    <2> DEFINE D == first \o C
    <2>4. LabelsIn(D \o last) = LabelsIn(D) \cup LabelsIn(last)
      <3>1. D \in Seq(Task)
        BY <2>1
      <3> HIDE DEF D
      <3> QED
        BY <2>1, <3>1, ConcatNeeds
    <2> QED
      BY <2>2, <2>3, <2>4
  <1>12. NeedsMet(M, LabelsIn(M))
    <2>1. K \subseteq LabelsIn(M) \cup {None}
      BY <1>6, <1>11
    <2> HIDE DEF M, L, K
    <2> QED
      BY <1>9, <2>1, TaskListNeeds
  <1>13. \A c \in Components :
           i.kind[c] = "source" => build_task_label(c, i) \in LabelsIn(M)
    BY <1>1, <1>11 DEF Components, l1, l2
  <1> HIDE DEF M
  <1> QED
    BY <1>2, <1>9, <1>10, <1>12, <1>13 DEF Fitting, TaskList

(* The tasks of a run fit together, whatever the layout is.                 *)
LEMMA ManagedTasksShape ==
  ASSUME NEW i \in Input
  PROVE  Fitting(ManagedTasks(i), i)
  BY SeparateTasksFit, WorkspaceTasksFit

-----------------------------------------------------------------------------
(* A file that is written *)

RewrittenLaunch(file, i) ==
  Valid(remove_managed_configurations(file.entries) \o ManagedConfigs(i))

RewrittenTasks(file, i) ==
  Valid(remove_managed_tasks(file.entries) \o ManagedTasks(i))

(***************************************************************************)
(* To remove what is not the user's and to add entries of the program      *)
(* keeps the user's entries, and what has been done once changes nothing   *)
(* when it is done again.  K is what the program leaves in a file with the *)
(* entries s, U is what is certainly the user's, and M, of O, are its own. *)
(***************************************************************************)
Rewrites(T, K, U, O, s, M) ==
  /\ s \in Seq(T) /\ M \in Seq(T) /\ M \in Seq(O)
  /\ U \subseteq K /\ O \cap K = {}

(* So the rewriting keeps what is the user's, and comes to rest.            *)
LEMMA Rewriting ==
  ASSUME NEW T, NEW K, NEW U, NEW O, NEW s, NEW M, Rewrites(T, K, U, O, s, M)
  PROVE  /\ Retain(s, K) \o M \in Seq(T)
         /\ Retain(Retain(s, K) \o M, K) = Retain(s, K)
         /\ Retain(Retain(s, K) \o M, U) = Retain(s, U)
  <1> USE DEF Rewrites
  <1> DEFINE r == Retain(s, K)
  <1>1. r \in Seq(T)
    BY RetainSub
  <1>2. Retain(r, K) = r /\ Retain(r, U) = Retain(s, U)
    <2>1. K \cap K = K /\ K \cap U = U
      OBVIOUS
    <2>2. Retain(Retain(s, K), K) = Retain(s, K \cap K)
      BY RetainTwice
    <2>3. Retain(Retain(s, K), U) = Retain(s, K \cap U)
      BY RetainTwice
    <2> QED
      BY <2>1, <2>2, <2>3, Zenon
  <1>3. Retain(M, K) = << >> /\ Retain(M, U) = << >>
    <2>1. O \cap U = {}
      OBVIOUS
    <2> QED
      BY <2>1, RetainNone
  <1> HIDE DEF r
  <1>4. \A S : Retain(r \o M, S) = Retain(r, S) \o Retain(M, S)
    BY <1>1, RetainConcat
  <1>5. /\ r \o M \in Seq(T)
        /\ r \o << >> = r
    BY <1>1
  <1>6. Retain(r, U) \o << >> = Retain(r, U)
    <2>1. Retain(r, U) \in Seq(T)
      BY <1>1, RetainSub
    <2> QED
      BY <2>1, ConcatEmptySeq
  <1> QED
    BY <1>2, <1>3, <1>4, <1>5, <1>6, Zenon DEF r

(* What is written into launch.json.                                        *)
LEMMA RewriteLaunch ==
  ASSUME NEW file, FileOK(file, Config), NEW i \in Input
  PROVE  LET new == RewrittenLaunch(file, i) IN
         /\ FileOK(new, Config) /\ new.state = "valid"
         /\ Own(new, UserConfig) = Own(file, UserConfig)
         /\ RewrittenLaunch(new, i) = new
  <1> DEFINE K == {e \in Config : ~is_managed_launch_name(e.name)}
             M == ManagedConfigs(i)
             w == Retain(file.entries, K) \o M
             O == OurConfig(i)
  <1>1. file.entries \in Seq(Config) /\ M \in Seq(O)
    BY ManagedConfigsShape DEF FileOK
  <1>2. O \subseteq Config /\ O \cap K = {} /\ UserConfig \subseteq K
    BY DEF OurConfig, ConfigFor, is_managed_launch_name, UserConfig, Components
  <1>3. M \in Seq(Config)
    BY <1>1, <1>2, SeqMonotonic
  <1>4. RewrittenLaunch(file, i) = Valid(w)
    BY DEF RewrittenLaunch, remove_managed_configurations
  <1>5. RewrittenLaunch(Valid(w), i) = Valid(Retain(w, K) \o M)
    BY DEF RewrittenLaunch, remove_managed_configurations, Valid
  <1> HIDE DEF K, M, O
  <1>6. /\ w \in Seq(Config) /\ Retain(w, K) = Retain(file.entries, K)
        /\ Retain(w, UserConfig) = Retain(file.entries, UserConfig)
    <2> DEFINE s == file.entries
    <2>1. s \in Seq(Config)
      BY <1>1
    <2> HIDE DEF s
    <2>2. /\ Retain(s, K) \o M \in Seq(Config)
          /\ Retain(Retain(s, K) \o M, K) = Retain(s, K)
          /\ Retain(Retain(s, K) \o M, UserConfig) = Retain(s, UserConfig)
      <3>1. Rewrites(Config, K, UserConfig, O, s, M)
        BY <1>1, <1>2, <1>3, <2>1 DEF Rewrites
      <3> QED
        BY <3>1, Rewriting
    <2> QED
      BY <2>2 DEF w, s
  <1>7. RewrittenLaunch(Valid(w), i) = Valid(w)
    BY <1>5, <1>6
  <1> HIDE DEF w
  <1>8. Valid(w).state = "valid" /\ Valid(w).entries = w
    BY DEF Valid
  <1> QED
    BY <1>4, <1>6, <1>7, <1>8 DEF FileOK, Unusual, Own

(* What is written into tasks.json.                                         *)
LEMMA RewriteTasks ==
  ASSUME NEW file, FileOK(file, Task), NEW i \in Input
  PROVE  LET new == RewrittenTasks(file, i) IN
         /\ FileOK(new, Task) /\ new.state = "valid"
         /\ Own(new, UserTask) = Own(file, UserTask)
         /\ RewrittenTasks(new, i) = new
  <1> DEFINE K == {e \in Task : ~is_managed_task_label(e.label)}
             M == ManagedTasks(i)
             w == Retain(file.entries, K) \o M
             O == OurTask(i)
  <1>1. file.entries \in Seq(Task) /\ M \in Seq(O)
    BY ManagedTasksShape DEF FileOK, Fitting
  <1>2. O \subseteq Task /\ O \cap K = {} /\ UserTask \subseteq K
    BY DEF OurTask, is_managed_task_label, UserTask, Components
  <1>3. M \in Seq(Task)
    BY <1>1, <1>2, SeqMonotonic
  <1>4. RewrittenTasks(file, i) = Valid(w)
    BY DEF RewrittenTasks, remove_managed_tasks
  <1>5. RewrittenTasks(Valid(w), i) = Valid(Retain(w, K) \o M)
    BY DEF RewrittenTasks, remove_managed_tasks, Valid
  <1> HIDE DEF K, M, O
  <1>6. /\ w \in Seq(Task) /\ Retain(w, K) = Retain(file.entries, K)
        /\ Retain(w, UserTask) = Retain(file.entries, UserTask)
    <2> DEFINE s == file.entries
    <2>1. s \in Seq(Task)
      BY <1>1
    <2> HIDE DEF s
    <2>2. /\ Retain(s, K) \o M \in Seq(Task)
          /\ Retain(Retain(s, K) \o M, K) = Retain(s, K)
          /\ Retain(Retain(s, K) \o M, UserTask) = Retain(s, UserTask)
      <3>1. Rewrites(Task, K, UserTask, O, s, M)
        BY <1>1, <1>2, <1>3, <2>1 DEF Rewrites
      <3> QED
        BY <3>1, Rewriting
    <2> QED
      BY <2>2 DEF w, s
  <1>7. RewrittenTasks(Valid(w), i) = Valid(w)
    BY <1>5, <1>6
  <1> HIDE DEF w
  <1>8. Valid(w).state = "valid" /\ Valid(w).entries = w
    BY DEF Valid
  <1> QED
    BY <1>4, <1>6, <1>7, <1>8 DEF FileOK, Unusual, Own

(* An entry of a written file is one of the first part, or of the second.   *)
LEMMA TwoParts ==
  ASSUME NEW A, NEW B, NEW s \in Seq(A), NEW t \in Seq(B), NEW k \in 1..Len(s \o t)
  PROVE  \/ (s \o t)[k] \in A
         \/ /\ k - Len(s) \in 1..Len(t) /\ (s \o t)[k] = t[k - Len(s)]
            /\ t[k - Len(s)] \in B
  <1> DEFINE T == A \cup B
             a == Len(s)
             b == Len(t)
             r == s \o t
  <1>1. s \in Seq(T) /\ t \in Seq(T)
    BY SeqMonotonic, A \subseteq T, B \subseteq T
  <1>2. /\ a \in Nat /\ b \in Nat /\ Len(r) = a + b
        /\ \A n \in 1..(a + b) : r[n] = IF n <= a THEN s[n] ELSE t[n - a]
        /\ \A n \in 1..a : s[n] \in A
        /\ \A n \in 1..b : t[n] \in B
    <2> HIDE DEF T
    <2> QED
      BY <1>1, ConcatProperties, ElementOfSeq, LenProperties
  <1>3. k \in 1..(a + b)
    BY <1>2
  <1> HIDE DEF a, b, r
  <1>4. CASE k <= a
    <2>1. k \in 1..a
      BY <1>2, <1>3, <1>4
    <2> QED
      BY <1>2, <1>3, <1>4, <2>1 DEF r
  <1>5. CASE ~(k <= a)
    <2>1. k - a \in 1..b
      BY <1>2, <1>3, <1>5
    <2>2. r[k] = t[k - a] /\ t[k - a] \in B
      BY <1>2, <1>3, <1>5, <2>1
    <2> QED
      BY <2>1, <2>2 DEF r, a, b
  <1> QED
    BY <1>4, <1>5

(***************************************************************************)
(* Whatever was in the two files, they fit together once they are written. *)
(***************************************************************************)
LEMMA WrittenFit ==
  ASSUME NEW f, FileOK(f, Config), NEW g, FileOK(g, Task), NEW i \in Input
  PROVE  FitTogether(RewrittenLaunch(f, i).entries, RewrittenTasks(g, i).entries, i)
  <1> DEFINE own == remove_managed_configurations(f.entries)
             M == ManagedConfigs(i)
             configs == own \o M
             ownTasks == remove_managed_tasks(g.entries)
             N == ManagedTasks(i)
             list == ownTasks \o N
             mine == {k \in 1..Len(configs) : configs[k].name.of # "other"}
             myTasks == {k \in 1..Len(list) :
                           list[k].label.verb # "other" /\ list[k].label.of # "other"}
             labels == {list[k].label : k \in 1..Len(list)}
  <1> DEFINE KC == {e \in Config : ~is_managed_launch_name(e.name)}
             KT == {e \in Task : ~is_managed_task_label(e.label)}
  <1>1. own \in Seq(KC) /\ ownTasks \in Seq(KT)
    BY RetainSub DEF FileOK, remove_managed_configurations, remove_managed_tasks
  <1>2. /\ M \in Seq(OurConfig(i))
        /\ \A j, k \in 1..Len(M) : M[j].name = M[k].name => j = k
    BY ManagedConfigsShape
  <1>3. Fitting(N, i)
    BY ManagedTasksShape
  <1>4. \A k \in mine : /\ k - Len(own) \in 1..Len(M)
                       /\ configs[k] = M[k - Len(own)]
                       /\ configs[k] \in OurConfig(i)
    <2>1. \A e \in KC : e.name.of = "other"
      BY DEF Config, ConfigName, is_managed_launch_name
    <2> HIDE DEF own, M, KC
    <2> QED
      BY <1>1, <1>2, <2>1, TwoParts
  <1>5. \A k \in myTasks : /\ k - Len(ownTasks) \in 1..Len(N)
                          /\ list[k] = N[k - Len(ownTasks)]
                          /\ list[k] \in OurTask(i)
    <2>1. \A e \in KT : e.label.verb = "other" \/ e.label.of = "other"
      BY DEF Task, TaskLabel, is_managed_task_label
    <2> HIDE DEF ownTasks, N, KT
    <2> QED
      BY <1>1, <1>3, <2>1, TwoParts DEF Fitting
  <1>6. LabelsIn(N) \subseteq labels
    <2>1. ownTasks \in Seq(Task) /\ N \in Seq(Task)
      <3>1. KT \subseteq Task /\ OurTask(i) \subseteq Task
        BY DEF OurTask
      <3> HIDE DEF ownTasks, N, KT
      <3> QED
        BY <1>1, <1>3, <3>1, SeqMonotonic DEF Fitting
    <2> HIDE DEF ownTasks, N
    <2>2. LabelsIn(ownTasks \o N) = LabelsIn(ownTasks) \cup LabelsIn(N)
      BY <2>1, ConcatNeeds
    <2> QED
      BY <2>2 DEF LabelsIn
  <1>7. Len(own) \in Nat /\ Len(ownTasks) \in Nat
    BY <1>1, LenProperties
  <1> HIDE DEF own, M, ownTasks, N, KC, KT, labels
  <1>8. ASSUME NEW k \in mine
        PROVE  /\ configs[k].preLaunchTask \in labels \cup {None}
               /\ configs[k].endpoint \in {i.endpoint, None}
               /\ configs[k].name.suffix = i.profile
               /\ i.kind[configs[k].name.of] # "missing"
               /\ \A j \in mine : configs[j].name = configs[k].name => j = k
    <2>1. PICK c \in Components : configs[k] \in ConfigFor(c, i)
      BY <1>4 DEF OurConfig
    <2>2. configs[k].preLaunchTask \in labels \cup {None}
      BY <1>3, <1>6, <2>1 DEF ConfigFor, Fitting
    <2>3. \A j \in mine : configs[j].name = configs[k].name => j = k
      <3> SUFFICES ASSUME NEW j \in mine, configs[j].name = configs[k].name
                   PROVE  j = k
        OBVIOUS
      <3>1. j - Len(own) = k - Len(own)
        BY <1>2, <1>4
      <3>2. j \in Int /\ k \in Int
        OBVIOUS
      <3> QED
        BY <1>7, <3>1, <3>2
    <2> QED
      BY <2>1, <2>2, <2>3 DEF ConfigFor
  <1>9. ASSUME NEW k \in myTasks
        PROVE  /\ list[k].dependsOn \in labels \cup {None}
               /\ list[k].label.suffix = i.profile
               /\ \A j \in myTasks : list[j].label = list[k].label => j = k
    <2>1. list[k].dependsOn \in labels \cup {None}
      BY <1>3, <1>5, <1>6 DEF Fitting, NeedsMet
    <2>2. list[k].label.suffix = i.profile
      BY <1>5 DEF OurTask
    <2>3. \A j \in myTasks : list[j].label = list[k].label => j = k
      <3> SUFFICES ASSUME NEW j \in myTasks, list[j].label = list[k].label
                   PROVE  j = k
        OBVIOUS
      <3>1. j - Len(ownTasks) = k - Len(ownTasks)
        BY <1>3, <1>5 DEF Fitting
      <3>2. j \in Int /\ k \in Int
        OBVIOUS
      <3> QED
        BY <1>7, <3>1, <3>2
    <2> QED
      BY <2>1, <2>2, <2>3
  <1>10. /\ RewrittenLaunch(f, i).entries = configs
         /\ RewrittenTasks(g, i).entries = list
    BY DEF RewrittenLaunch, RewrittenTasks, Valid, own, M, ownTasks, N
  <1>11. FitTogether(configs, list, i)
    <2> HIDE DEF configs, list
    <2>1. \A k \in mine :
            /\ configs[k].preLaunchTask \in labels \cup {None}
            /\ configs[k].endpoint \in {i.endpoint, None}
            /\ configs[k].name.suffix = i.profile
            /\ i.kind[configs[k].name.of] # "missing"
            /\ \A j \in mine : configs[j].name = configs[k].name => j = k
      BY <1>8
    <2>2. \A k \in myTasks :
            /\ list[k].dependsOn \in labels \cup {None}
            /\ list[k].label.suffix = i.profile
            /\ \A j \in myTasks : list[j].label = list[k].label => j = k
      BY <1>9
    <2> QED
      BY <2>1, <2>2 DEF FitTogether, labels
  <1> HIDE DEF configs, list
  <1> QED
    BY <1>10, <1>11

-----------------------------------------------------------------------------
(* The states of a start *)

(* A file that has lost its entries, and what a torn write leaves.          *)
LEMMA TornOK ==
  ASSUME NEW Entry
  PROVE  /\ \A state \in Unusual : FileOK(Blank(state), Entry)
         /\ \A file : FileOK(file, Entry) =>
              \A new \in Torn(file) :
                FileOK(new, Entry) /\ (new = file \/ new.state \in Unusual)
  <1>1. << >> \in Seq(Entry)
    OBVIOUS
  <1>2. \A state : Blank(state).state = state /\ Blank(state).entries = << >>
    BY DEF Blank
  <1>3. \A state \in Unusual : FileOK(Blank(state), Entry)
    BY <1>1, <1>2, Zenon DEF FileOK
  <1> QED
    BY <1>2, <1>3 DEF Torn, Unusual

(* What an edit leaves.                                                     *)
LEMMA EditedOK ==
  ASSUME NEW Entry, NEW file, FileOK(file, Entry),
         NEW own \in SUBSET Entry, NEW new \in Edited(file, own)
  PROVE  FileOK(new, Entry)
  <1> DEFINE s == file.entries
  <1>1. s \in Seq(Entry)
    BY DEF FileOK
  <1>2. ASSUME NEW t \in Seq(Entry)
        PROVE  FileOK(Valid(t), Entry)
    BY DEF FileOK, Valid, Unusual
  <1> HIDE DEF s
  <1>3. CASE new \in {Blank(state) : state \in Unusual}
    BY <1>3, TornOK
  <1>4. CASE new \in {Valid(<< >>)}
    <2>1. << >> \in Seq(Entry)
      OBVIOUS
    <2> QED
      BY <1>2, <1>4, <2>1
  <1>5. CASE new \in {Valid(Append(s, e)) : e \in own \ InFile(file)}
    <2>1. \A e \in own : Append(s, e) \in Seq(Entry)
      BY <1>1
    <2> QED
      BY <1>2, <1>5, <2>1
  <1>6. CASE new \in {Valid(Retain(s, InFile(file) \ {gone})) :
                       gone \in own \cap InFile(file)}
    <2>1. \A S : Retain(s, S) \in Seq(Entry)
      BY <1>1, RetainSub
    <2> QED
      BY <1>2, <1>6, <2>1
  <1> QED
    BY <1>3, <1>4, <1>5, <1>6, Zenon DEF Edited, s

(***************************************************************************)
(* What a start remembers of the files: both are as it found them until it *)
(* has written the first; that one reads, and is its result from what it   *)
(* has found.                                                              *)
(***************************************************************************)
Remembers ==
  /\ pc = "launch" => found = files
  /\ pc = "tasks" => /\ found[1].state # "invalid"
                     /\ found = <<found[1], tasks>>
                     /\ launch = RewrittenLaunch(found[1], input)

(* Files that a start with input i would leave exactly as they are.         *)
AtRest(pair, i) ==
  /\ pair[1] = RewrittenLaunch(pair[1], i)
  /\ pair[2] = RewrittenTasks(pair[2], i)

(* After a start the files are at rest for its input; while another is      *)
(* under way, the ones it has found were.                                   *)
SettledInv ==
  settled # None => AtRest(IF Starting THEN found ELSE files, settled)

LaunchInv == LaunchTypeOK /\ Remembers /\ SettledInv

(* The invariant holds before the first start. *)
LEMMA LaunchInit == Init => LaunchInv
  <1>1. FileOK(Blank("absent"), Config) /\ FileOK(Blank("absent"), Task)
    BY TornOK DEF Unusual
  <1> QED
    BY <1>1 DEF Init, LaunchInv, LaunchTypeOK, Remembers, SettledInv, Starting

(* The two writes, from what a start remembers.                             *)
LEMMA WriteLaunchStep ==
  ASSUME LaunchInv, WriteLaunch
  PROVE  /\ LaunchInv'
         /\ Own(launch', UserConfig) = Own(found[1], UserConfig)
  <1> USE DEF LaunchInv, WriteLaunch
  <1>1. /\ Starting /\ Starting' /\ found = files /\ input \in Input
        /\ FileOK(launch, Config) /\ launch' = RewrittenLaunch(launch, input)
    BY LaunchAssumptions
       DEF Starting, Remembers, LaunchTypeOK, RewrittenLaunch
  <1>2. FileOK(launch', Config) /\ Own(launch', UserConfig) = Own(launch, UserConfig)
    BY <1>1, RewriteLaunch
  <1>3. LaunchTypeOK'
    BY <1>1, <1>2 DEF LaunchTypeOK, Starting
  <1>4. Remembers'
    BY <1>1 DEF Remembers, files, Loads
  <1>5. SettledInv'
    BY <1>1 DEF SettledInv
  <1> QED
    BY <1>1, <1>2, <1>3, <1>4, <1>5 DEF files

(* The step that completes a start: all that the properties say of it. *)
LEMMA WriteTasksStep ==
  ASSUME LaunchInv, WriteTasks
  PROVE  /\ LaunchInv'
         /\ Coherent'
         /\ Own(launch', UserConfig) = Own(found[1], UserConfig)
         /\ Own(tasks', UserTask) = Own(found[2], UserTask)
         /\ settled = input => files' = found
  <1> USE DEF LaunchInv, WriteTasks
  <1> DEFINE f == found[1]
  <1>1. /\ Starting /\ ~Starting' /\ found = <<f, tasks>> /\ found[2] = tasks
        /\ input \in Inputs /\ input \in Input /\ input # None
        /\ FileOK(f, Config) /\ FileOK(launch, Config) /\ FileOK(tasks, Task)
        /\ launch' = launch /\ launch = RewrittenLaunch(f, input)
        /\ tasks' = RewrittenTasks(tasks, input)
    BY LaunchAssumptions
       DEF Starting, Remembers, LaunchTypeOK, RewrittenTasks
  <1> HIDE DEF f
  <1>2. /\ Own(launch, UserConfig) = Own(f, UserConfig)
        /\ RewrittenLaunch(launch, input) = launch
    BY <1>1, RewriteLaunch
  <1>3. /\ FileOK(tasks', Task) /\ Own(tasks', UserTask) = Own(tasks, UserTask)
        /\ RewrittenTasks(tasks', input) = tasks'
    BY <1>1, RewriteTasks
  <1>4. LaunchTypeOK'
    BY <1>1, <1>3 DEF LaunchTypeOK, Starting
  <1>5. Remembers'
    BY DEF Remembers
  <1>6. SettledInv'
    BY <1>1, <1>2, <1>3 DEF SettledInv, AtRest, files
  <1>7. Coherent'
    <2>1. FitTogether(launch'.entries, tasks'.entries, input)
      BY <1>1, WrittenFit
    <2> QED
      BY <2>1 DEF Coherent
  <1>8. settled = input => files' = found
    <2> SUFFICES ASSUME settled = input
                 PROVE  files' = found
      OBVIOUS
    <2>1. AtRest(found, input)
      BY <1>1 DEF SettledInv
    <2> QED
      BY <1>1, <2>1 DEF AtRest, files, f
  <1> QED
    BY <1>1, <1>2, <1>3, <1>4, <1>5, <1>6, <1>7, <1>8 DEF f

(***************************************************************************)
(* One step from LaunchInv: the invariant stays, and the step does what    *)
(* the action properties say of it.                                        *)
(***************************************************************************)
LEMMA LaunchStep ==
  ASSUME LaunchInv, [Next]_vars
  PROVE  /\ LaunchInv'
         /\ Completes => Coherent'
         /\ Completes /\ settled = input => files' = found
         /\ Starting =>
              \/ UNCHANGED vars
              \/ /\ \/ Own(launch', UserConfig) = Own(found[1], UserConfig)
                    \/ launch'.state \in Unusual /\ pc' = "off"
                 /\ \/ Own(tasks', UserTask) = Own(found[2], UserTask)
                    \/ tasks'.state \in Unusual /\ pc' = "off"
         /\ Starting =>
              \/ UNCHANGED vars
              \/ /\ found[1].state = "invalid" => UNCHANGED files /\ pc' = "off"
                 /\ found[2].state = "invalid" => UNCHANGED tasks /\ pc' # "running"
  <1> DEFINE Kept ==
               /\ \/ Own(launch', UserConfig) = Own(found[1], UserConfig)
                  \/ launch'.state \in Unusual /\ pc' = "off"
               /\ \/ Own(tasks', UserTask) = Own(found[2], UserTask)
                  \/ tasks'.state \in Unusual /\ pc' = "off"
             Untouched ==
               /\ found[1].state = "invalid" => UNCHANGED files /\ pc' = "off"
               /\ found[2].state = "invalid" => UNCHANGED tasks /\ pc' # "running"
             Goal ==
               /\ LaunchInv'
               /\ Completes => Coherent'
               /\ Completes /\ settled = input => files' = found
               /\ Starting => UNCHANGED vars \/ Kept
               /\ Starting => UNCHANGED vars \/ Untouched
  <1> SUFFICES Goal
    OBVIOUS
  <1> USE LaunchAssumptions DEF LaunchInv
  <1> HIDE DEF Kept, Untouched
  <1>0. /\ FileOK(launch, Config) /\ FileOK(tasks, Task)
        /\ Own(launch, UserConfig) = Own(found[1], UserConfig)
             \/ ~Starting
        /\ Own(tasks, UserTask) = Own(found[2], UserTask) \/ ~Starting
    <2>1. FileOK(launch, Config) /\ FileOK(tasks, Task)
      BY DEF LaunchTypeOK
    <2>2. CASE pc = "launch"
      BY <2>1, <2>2 DEF Remembers, files
    <2>3. CASE pc = "tasks"
      <3>1. /\ FileOK(found[1], Config) /\ input \in Input
            /\ launch = RewrittenLaunch(found[1], input) /\ found[2] = tasks
        BY <2>3 DEF LaunchTypeOK, Starting, Remembers
      <3> QED
        BY <2>1, <3>1, RewriteLaunch
    <2> QED
      BY <2>1, <2>2, <2>3 DEF Starting
  <1>1. CASE UNCHANGED vars
    BY <1>1 DEF vars, LaunchTypeOK, Remembers, SettledInv, Starting, Completes, files
  <1>2. ASSUME NEW i \in Inputs, Start(i)
        PROVE  Goal
    BY <1>2, <1>0 DEF Start, LaunchTypeOK, Remembers, SettledInv, Starting, Completes, files
  <1>3. CASE WriteLaunch
    <2>1. Kept
      BY <1>0, <1>3, WriteLaunchStep DEF WriteLaunch, Kept, Starting
    <2>2. Untouched
      BY <1>3 DEF WriteLaunch, Loads, Remembers, files, Untouched
    <2> QED
      BY <1>3, <2>1, <2>2, WriteLaunchStep DEF WriteLaunch, Completes
  <1>4. CASE WriteTasks
    <2>1. Kept
      BY <1>4, WriteTasksStep DEF Kept
    <2>2. Untouched
      BY <1>4 DEF WriteTasks, Loads, Remembers, Untouched
    <2> QED
      BY <1>4, <2>1, <2>2, WriteTasksStep
  <1>5. CASE Abort /\ Starting /\ vscode /\ FileOK(launch', Config) /\ FileOK(tasks', Task)
             /\ Kept /\ Untouched
    BY <1>5 DEF Abort, LaunchTypeOK, Remembers, SettledInv, Starting, Completes
  <1>6. CASE LaunchUnreadable \/ TasksUnreadable
    <2>1. /\ Abort /\ Starting /\ UNCHANGED files /\ vscode
      BY <1>6 DEF LaunchUnreadable, TasksUnreadable, Starting, LaunchTypeOK
    <2>2. Kept /\ Untouched
      BY <1>0, <2>1, <1>6 DEF Kept, Untouched, files, Abort, Remembers, TasksUnreadable,
                              LaunchUnreadable
    <2> QED
      BY <1>0, <1>5, <2>1, <2>2 DEF files
  <1>7. CASE WriteLaunchTorn
    <2>1. /\ Abort /\ Starting /\ launch' \in Torn(launch) /\ tasks' = tasks /\ vscode
          /\ Loads(launch) /\ found = files
      BY <1>7 DEF WriteLaunchTorn, Starting, LaunchTypeOK, Remembers
    <2>2. FileOK(launch', Config) /\ (launch' = launch \/ launch'.state \in Unusual)
      BY <1>0, <2>1, TornOK
    <2>3. Kept
      BY <1>0, <2>1, <2>2 DEF Kept, Abort
    <2>4. Untouched
      BY <2>1 DEF Untouched, Abort, Loads, files
    <2> QED
      BY <1>0, <1>5, <2>1, <2>2, <2>3, <2>4
  <1>8. CASE WriteTasksTorn
    <2>1. /\ Abort /\ Starting /\ tasks' \in Torn(tasks) /\ launch' = launch /\ vscode
          /\ Loads(tasks) /\ found[1].state # "invalid" /\ found[2] = tasks
      BY <1>8 DEF WriteTasksTorn, Starting, LaunchTypeOK, Remembers
    <2>2. FileOK(tasks', Task) /\ (tasks' = tasks \/ tasks'.state \in Unusual)
      BY <1>0, <2>1, TornOK
    <2>3. Kept
      BY <1>0, <2>1, <2>2 DEF Kept, Abort
    <2>4. Untouched
      BY <2>1 DEF Untouched, Abort, Loads
    <2> QED
      BY <1>0, <1>5, <2>1, <2>2, <2>3, <2>4
  <1>9. CASE Stop
    BY <1>9 DEF Stop, LaunchTypeOK, Remembers, SettledInv, Starting, Completes, files
  <1>10. CASE UserStep
    <2>1. FileOK(launch', Config) /\ FileOK(tasks', Task)
      <3>1. CASE Edit
        BY <1>0, <3>1, EditedOK DEF Edit
      <3>2. CASE Directory
        BY <3>2, TornOK DEF Directory, Unusual
      <3> QED
        BY <1>10, <3>1, <3>2 DEF UserStep
    <2>2. /\ pc \in {"off", "running"} /\ UNCHANGED <<pc, input, found>>
          /\ settled' = None /\ vscode' \in BOOLEAN
      BY <1>10 DEF UserStep, Edit, Directory, LaunchTypeOK
    <2> QED
      BY <2>1, <2>2 DEF LaunchTypeOK, Remembers, SettledInv, Starting, Completes
  <1> QED
    BY <1>1, <1>2, <1>3, <1>4, <1>6, <1>7, <1>8, <1>9, <1>10 DEF Next, ProgramStep

(* LaunchInv holds throughout.                                              *)
LEMMA LaunchInvariance == Spec => []LaunchInv
  <1>1. LaunchInv /\ [Next]_vars => LaunchInv'
    BY LaunchStep
  <1> QED
    BY <1>1, LaunchInit, PTL DEF Spec

-----------------------------------------------------------------------------
(* The properties *)

(***************************************************************************)
(* The type invariant: a start is under way only where there is a          *)
(* directory, and the files hold configurations and tasks.                 *)
(***************************************************************************)
THEOREM LaunchTypeCorrect == Spec => []LaunchTypeOK
  <1>1. LaunchInv => LaunchTypeOK
    BY DEF LaunchInv
  <1> QED
    BY <1>1, LaunchInvariance, PTL

(***************************************************************************)
(* Every start that completes leaves the two files coherent, whatever it   *)
(* has found in them.                                                      *)
(***************************************************************************)
THEOREM StartedCoherentCorrect == Spec => StartedCoherent
  <1>1. LaunchInv /\ [Next]_vars => [Completes => Coherent']_vars
    BY LaunchStep
  <1> QED
    BY <1>1, LaunchInvariance, PTL DEF Spec, StartedCoherent

(***************************************************************************)
(* The user's own entries survive every start that completes, and one that *)
(* does not leaves each file with all of them, or empty or invalid.        *)
(***************************************************************************)
THEOREM OwnEntriesKeptCorrect == Spec => OwnEntriesKept
  <1>1. LaunchInv /\ [Next]_vars =>
          [Starting =>
             /\ \/ Own(launch', UserConfig) = Own(found[1], UserConfig)
                \/ launch'.state \in Unusual /\ pc' = "off"
             /\ \/ Own(tasks', UserTask) = Own(found[2], UserTask)
                \/ tasks'.state \in Unusual /\ pc' = "off"]_vars
    BY LaunchStep
  <1> QED
    BY <1>1, LaunchInvariance, PTL DEF Spec, OwnEntriesKept

(***************************************************************************)
(* A file that cannot be read is never overwritten, and an unreadable      *)
(* launch.json ends the start before tasks.json is touched.                *)
(***************************************************************************)
THEOREM UnreadableKeptCorrect == Spec => UnreadableKept
  <1>1. LaunchInv /\ [Next]_vars =>
          [Starting =>
             /\ found[1].state = "invalid" => UNCHANGED files /\ pc' = "off"
             /\ found[2].state = "invalid" => UNCHANGED tasks /\ pc' # "running"]_vars
    BY LaunchStep
  <1> QED
    BY <1>1, LaunchInvariance, PTL DEF Spec, UnreadableKept

(***************************************************************************)
(* A start in the situation of the last one changes nothing.               *)
(***************************************************************************)
THEOREM SettledStaysCorrect == Spec => SettledStays
  <1>1. LaunchInv /\ [Next]_vars =>
          [Completes /\ settled = input => files' = found]_vars
    BY LaunchStep
  <1> QED
    BY <1>1, LaunchInvariance, PTL DEF Spec, SettledStays

=============================================================================
