---------------------------- MODULE DriverProofs ----------------------------
(***************************************************************************)
(* Theorems about Driver, for every set of command lines and old outputs.  *)
(***************************************************************************)
EXTENDS Driver, FiniteSetTheorems, SequenceTheorems, TLAPS

(***************************************************************************)
(* The invariants.                                                         *)
(***************************************************************************)
Whole(content) == content \notin {<<"missing">>, <<"empty">>, <<"partial">>}

\* The inputs among the first n that the driver gives to the linker, the place of
\* each, and what the linker is to put together of them.
Going(n) ==
  {m \in 1..n : IsLinkerInput(cmd.inputs[m]) \/ (Type(cmd.inputs[m]) = "c" /\ Linking)}
Nth(k) == CHOOSE m \in Going(Len(cmd.inputs)) : Cardinality(Going(m)) = k
Given ==
  [k \in 1..Cardinality(Going(Len(cmd.inputs))) |-> Object(cmd.inputs[Nth(k)])]

\* The file by which input n reaches the linker, and every file its children are
\* to make, with what it will hold.
Path(n) ==
  IF IsLinkerInput(cmd.inputs[n]) THEN Source(cmd.inputs[n]) ELSE <<"tmp", n, 2>>
Goal(n) ==
  Promised(cmd.inputs[n])
    \cup (IF n \in Going(n) THEN {<<Path(n), Object(cmd.inputs[n])>>} ELSE {})

\* Are the children of the input before at still at work?
Pending == jobs # <<>> /\ ~linked

\* The linker gets the inputs that go to it, in order.
Order ==
  /\ ld_args \in Seq({Path(n) : n \in DOMAIN cmd.inputs})
  /\ Len(ld_args) = Cardinality(Going(at - 1))
  /\ \A k \in 1..Len(ld_args) :
       \E m \in Going(at - 1) : Cardinality(Going(m)) = k /\ ld_args[k] = Path(m)
  /\ \A n \in 1..(at - 1) : Type(cmd.inputs[n]) # "unknown"

TypeOK ==
  /\ cmd \in Commands /\ at \in 1..(Len(cmd.inputs) + 1)
  /\ linked \in BOOLEAN /\ (linked => at = Len(cmd.inputs) + 1)
  /\ status \in {"running", "ok", "error", "exit 1"}

\* One child that reads one file; a compiler and an assembler that reads what it
\* made; or the linker.
Shape ==
  \/ jobs = <<>>
  \/ /\ Pending /\ at > 1 /\ Len(jobs) = 1 /\ jobs = <<jobs[1]>>
     /\ jobs[1].tool \in {"cpp", "cc1", "as"} /\ jobs[1].from = <<jobs[1].from[1]>>
  \/ /\ Pending /\ at > 1 /\ Len(jobs) = 2 /\ jobs = <<jobs[1], jobs[2]>>
     /\ jobs[1].tool = "cc1" /\ jobs[1].from = <<jobs[1].from[1]>>
     /\ jobs[1].to = <<"tmp", at - 1, 1>>
     /\ jobs[2].tool = "as" /\ jobs[2].from = <<jobs[1].to>>
  \/ /\ linked /\ at > Len(cmd.inputs) /\ ld_args # <<>>
     /\ jobs = <<Job("ld", ld_args, LinkOutput)>>

\* Every temporary file there is is held, and none but those is written.
Held ==
  /\ \A p \in tmpfiles : \E n \in 1..(at - 1), i \in {1, 2} : p = <<"tmp", n, i>>
  /\ \A p \in DOMAIN fs : p[1] = "tmp" => p \in tmpfiles
  /\ \A k \in DOMAIN jobs : jobs[k].to[1] # "tmp" \/ jobs[k].to \in tmpfiles

\* What will be read is complete, or is what the last child will write.
Ready ==
  /\ \A n \in DOMAIN cmd.inputs : Whole(Content(Source(cmd.inputs[n])))
  /\ jobs # <<>> => \A k \in DOMAIN Head(jobs).from : Whole(Content(Head(jobs).from[k]))
  /\ \A k \in DOMAIN ld_args : \/ Whole(Content(ld_args[k]))
                               \/ Pending /\ jobs[Len(jobs)].to = ld_args[k]

\* The inputs that are done have what they promise, the one at work will have it,
\* and the others are as they were.
Goals ==
  /\ \A n \in DOMAIN cmd.inputs :
       n >= at => Content(Source(cmd.inputs[n])) = <<"source", Source(cmd.inputs[n])>>
  /\ \A n \in 1..(at - 1) :
       (Pending /\ n = at - 1) \/ \A g \in Goal(n) : Content(g[1]) = g[2]
  /\ Pending => /\ \/ jobs[Len(jobs)].to \in {g[1] : g \in Goal(at - 1)}
                   \/ jobs[Len(jobs)].to = <<"stdout">> /\ cmd.opt_o = None
                /\ Len(jobs) = 1 => \A g \in Goal(at - 1) : g = <<jobs[1].to, Made(jobs[1])>>
                /\ Len(jobs) = 2 =>
                     \A g \in Goal(at - 1) : g = <<jobs[2].to, <<"obj", Made(jobs[1])>>>>
  /\ linked /\ jobs = <<>> => Content(LinkOutput) = <<"exe", Given>>

RunningInv == Order /\ Shape /\ Held /\ Ready /\ (NamesDiffer => Goals)

IInv ==
  /\ TypeOK
  /\ status = "running" => RunningInv
  /\ CompleteOnSuccess
  /\ TmpfilesRemoved

(***************************************************************************)
(* Command lines.                                                          *)
(***************************************************************************)
LEMMA InputsAre ==
  ASSUME TypeOK
  PROVE  /\ Len(cmd.inputs) \in Nat /\ DOMAIN cmd.inputs = 1..Len(cmd.inputs)
         /\ Len(cmd.inputs) # 0
         /\ at \in Nat /\ at >= 1
         /\ \A n \in DOMAIN cmd.inputs :
              /\ n \in Nat
              /\ Type(cmd.inputs[n]) \in {"c", "asm", "obj", "lib", "unknown"}
              /\ cmd.inputs[n].type \in {"c", "asm", "obj", "lib", "unknown"}
              /\ cmd.inputs[n].base # "tmp"
         /\ {cmd.opt_c, cmd.opt_s, cmd.opt_e} \subseteq BOOLEAN
         /\ cmd.opt_o = None \/ cmd.opt_o[1] # "tmp"
<1>1. PICK c \in Commands : c = cmd
  BY DEF TypeOK
<1>2. /\ {c.opt_c, c.opt_s, c.opt_e} \subseteq BOOLEAN
      /\ c.opt_o = None \/ c.opt_o[1] # "tmp"
      /\ c.opt_x \in {"none", "c", "asm"}
      /\ Len(c.inputs) \in Nat \ {0} /\ DOMAIN c.inputs = 1..Len(c.inputs)
      /\ \A n \in DOMAIN c.inputs :
           /\ c.inputs[n].type \in {"c", "asm", "obj", "lib", "unknown"}
           /\ c.inputs[n].base # "tmp"
  BY CommandsAssumption
<1>3. Len(cmd.inputs) \in Nat
  BY <1>1, <1>2
<1>4. at \in Nat /\ at >= 1
  <2>1. at \in 1..(Len(cmd.inputs) + 1)
    BY DEF TypeOK
  <2> QED BY ONLY <1>3, <2>1
<1>5. ASSUME NEW n \in DOMAIN c.inputs
      PROVE  Type(c.inputs[n]) \in {"c", "asm", "obj", "lib", "unknown"}
  BY <1>1, <1>2 DEF Type
<1> QED BY <1>1, <1>2, <1>4, <1>5

\* The names that are not temporary.
LEMMA NotTemporary ==
  ASSUME TypeOK
  PROVE  /\ LinkOutput[1] # "tmp"
         /\ \A n \in DOMAIN cmd.inputs :
              /\ Source(cmd.inputs[n])[1] # "tmp" /\ Source(cmd.inputs[n]) # <<"stdout">>
              /\ \A extn : /\ Output(cmd.inputs[n], extn)[1] # "tmp"
                           /\ cmd.opt_o = None => Output(cmd.inputs[n], extn) # <<"stdout">>
<1>1. LinkOutput[1] # "tmp"
  BY InputsAre DEF LinkOutput
<1>2. ASSUME NEW n \in DOMAIN cmd.inputs
      PROVE  Source(cmd.inputs[n])[1] # "tmp" /\ Source(cmd.inputs[n]) # <<"stdout">>
  <2>1. PICK e : Source(cmd.inputs[n]) = <<cmd.inputs[n].base, e>>
    BY DEF Source
  <2> QED BY <2>1, InputsAre
<1>3. ASSUME NEW n \in DOMAIN cmd.inputs, NEW extn
      PROVE  /\ Output(cmd.inputs[n], extn)[1] # "tmp"
             /\ cmd.opt_o = None => Output(cmd.inputs[n], extn) # <<"stdout">>
  BY InputsAre DEF Output
<1> QED BY <1>1, <1>2, <1>3

\* What is to be made of an input, mode by mode.
LEMMA PromisedIs ==
  ASSUME NEW input
  PROVE  /\ Type(input) = "asm" /\ cmd.opt_s => Promised(input) = {}
         /\ Type(input) = "asm" /\ ~cmd.opt_s =>
              Promised(input) = {<<Output(input, ".o"), <<"obj", <<"source", Source(input)>>>>>>}
         /\ Type(input) = "c" /\ cmd.opt_e /\ cmd.opt_o = None => Promised(input) = {}
         /\ Type(input) = "c" /\ cmd.opt_e /\ cmd.opt_o # None =>
              Promised(input) = {<<cmd.opt_o, <<"text", <<"source", Source(input)>>>>>>}
         /\ Type(input) = "c" /\ ~cmd.opt_e /\ cmd.opt_s =>
              Promised(input) = {<<Output(input, ".s"), <<"asm", <<"source", Source(input)>>>>>>}
         /\ Type(input) = "c" /\ ~cmd.opt_e /\ ~cmd.opt_s /\ cmd.opt_c =>
              Promised(input)
                = {<<Output(input, ".o"), <<"obj", <<"asm", <<"source", Source(input)>>>>>>>>}
         /\ Type(input) = "c" /\ ~cmd.opt_e /\ ~cmd.opt_s /\ ~cmd.opt_c => Promised(input) = {}
         /\ Type(input) \in {"obj", "lib", "unknown"} => Promised(input) = {}
<1>1. Type(input) = "c" => Object(input) = <<"obj", <<"asm", <<"source", Source(input)>>>>>>
  BY DEF Object
<1>2. Type(input) = "asm" => Object(input) = <<"obj", <<"source", Source(input)>>>>
  BY DEF Object
<1> QED BY <1>1, <1>2 DEF Promised

\* A promised file has a name of its input's, or one given with -o.
LEMMA PromisedNames ==
  ASSUME TypeOK, NEW n \in DOMAIN cmd.inputs, NEW g \in Promised(cmd.inputs[n])
  PROVE  g[1][1] # "tmp" /\ (cmd.opt_o = None => g[1] # <<"stdout">>)
<1> DEFINE input == cmd.inputs[n]
<1>1. Type(input) \in {"c", "asm", "obj", "lib", "unknown"}
  BY InputsAre
<1>2. \/ \E extn : g[1] = Output(input, extn)
      \/ g[1] = cmd.opt_o /\ cmd.opt_o # None
  BY <1>1, PromisedIs
<1> QED BY <1>2, NotTemporary, InputsAre

\* The linker is given something only when an executable is asked for or the
\* command line has files for it.
LEMMA GivenMeans ==
  ASSUME TypeOK, Given # <<>>
  PROVE  Linking \/ \E n \in DOMAIN cmd.inputs : IsLinkerInput(cmd.inputs[n])
<1> SUFFICES ASSUME ~Linking, \A n \in DOMAIN cmd.inputs : ~IsLinkerInput(cmd.inputs[n])
             PROVE  FALSE
  OBVIOUS
<1>1. Going(Len(cmd.inputs)) = {}
  BY InputsAre DEF Going
<1>2. Cardinality(Going(Len(cmd.inputs))) = 0
  BY <1>1, FS_EmptySet
<1>3. Given = [k \in 1..0 |-> Object(cmd.inputs[Nth(k)])]
  BY <1>2 DEF Given
<1>4. Given = <<>>
  BY <1>3
<1> QED BY <1>4

\* The names of the files that input n is to have.
LEMMA GoalNames ==
  ASSUME TypeOK, NamesDiffer, NEW n \in DOMAIN cmd.inputs, NEW g \in Goal(n)
  PROVE  /\ g[1][1] = "tmp" => g[1] = <<"tmp", n, 2>>
         /\ cmd.opt_o = None => g[1] # <<"stdout">>
         /\ Given # <<>> => g[1] # LinkOutput
         /\ \A m \in DOMAIN cmd.inputs :
              m # n => /\ g[1] # Source(cmd.inputs[m])
                       /\ \A h \in Goal(m) : g[1] # h[1]
<1> DEFINE named(m) == {p[1] : p \in Promised(cmd.inputs[m])} \cup {Source(cmd.inputs[m])}
<1>1. /\ \A l, m \in DOMAIN cmd.inputs : l # m => named(l) \cap named(m) = {}
      /\ \A m \in DOMAIN cmd.inputs : Given # <<>> => LinkOutput \notin named(m)
  BY GivenMeans DEF NamesDiffer
<1>2. ASSUME NEW m \in DOMAIN cmd.inputs, NEW h \in Goal(m)
      PROVE  \/ h[1] \in named(m) /\ h[1][1] # "tmp" /\ (cmd.opt_o = None => h[1] # <<"stdout">>)
             \/ h[1] = <<"tmp", m, 2>>
  <2>1. CASE h \in Promised(cmd.inputs[m])
    BY <2>1, PromisedNames
  <2>2. CASE h = <<Path(m), Object(cmd.inputs[m])>>
    BY <2>2, NotTemporary DEF Path
  <2> QED BY <2>1, <2>2 DEF Goal
<1>3. \A m \in DOMAIN cmd.inputs : Source(cmd.inputs[m]) \in named(m)
  OBVIOUS
<1>4. \A m \in DOMAIN cmd.inputs : named(m) \cap {<<"tmp", l, 2>> : l \in Nat} = {}
  BY PromisedNames, NotTemporary
<1>5. \A m \in DOMAIN cmd.inputs : m \in Nat
  BY InputsAre
<1> HIDE DEF named
<1>6. g[1][1] = "tmp" => g[1] = <<"tmp", n, 2>>
  BY <1>2
<1>7. cmd.opt_o = None => g[1] # <<"stdout">>
  BY <1>2
<1>8. Given # <<>> => g[1] # LinkOutput
  BY <1>1, <1>2, NotTemporary
<1>9. ASSUME NEW m \in DOMAIN cmd.inputs, m # n
      PROVE  g[1] # Source(cmd.inputs[m])
  <2>1. CASE g[1] = <<"tmp", n, 2>>
    BY ONLY <1>3, <1>4, <1>5, <2>1, n \in DOMAIN cmd.inputs, m \in DOMAIN cmd.inputs
  <2>2. CASE g[1] \in named(n)
    BY ONLY <1>1, <1>3, <1>9, <2>2, n \in DOMAIN cmd.inputs, m \in DOMAIN cmd.inputs
  <2> QED BY <1>2, <2>1, <2>2
<1>10. ASSUME NEW m \in DOMAIN cmd.inputs, m # n, NEW h \in Goal(m)
       PROVE  g[1] # h[1]
  <2>1. CASE g[1] = <<"tmp", n, 2>>
    BY <1>2, <1>4, <1>5, <1>10, <2>1
  <2>2. CASE g[1] \in named(n)
    BY <1>1, <1>2, <1>4, <1>5, <1>10, <2>2
  <2> QED BY <1>2, <2>1, <2>2
<1> QED BY <1>6, <1>7, <1>8, <1>9, <1>10

(***************************************************************************)
(* Files.                                                                  *)
(***************************************************************************)
LEMMA PutContent ==
  ASSUME NEW paths, NEW content, fs' = Put(paths, content)
  PROVE  /\ DOMAIN fs' = DOMAIN fs \cup paths
         /\ \A p : Content(p)' = IF p \in paths THEN content ELSE Content(p)
<1>1. DOMAIN fs' = DOMAIN fs \cup paths
  BY DEF Put
<1>2. \A p \in DOMAIN fs' : fs'[p] = IF p \in paths THEN content ELSE fs[p]
  BY DEF Put
<1> QED BY <1>1, <1>2 DEF Content

LEMMA RemoveContent ==
  ASSUME NEW paths, fs' = Remove(paths)
  PROVE  /\ DOMAIN fs' = DOMAIN fs \ paths
         /\ \A p : p \notin paths => Content(p)' = Content(p)
BY DEF Remove, Content

\* What a child writes is complete.
LEMMA MadeIs ==
  ASSUME NEW job, job.tool \in {"cpp", "cc1", "as", "ld"}
  PROVE  /\ Whole(Made(job))
         /\ job.tool = "cpp" => Made(job) = <<"text", Content(job.from[1])>>
         /\ job.tool = "cc1" => Made(job) = <<"asm", Content(job.from[1])>>
         /\ job.tool = "as" => Made(job) = <<"obj", Content(job.from[1])>>
         /\ job.tool = "ld" => Made(job) = <<"exe", [n \in DOMAIN job.from |-> Content(job.from[n])]>>
<1>1. /\ job.tool = "cpp" => Made(job) = <<"text", Content(job.from[1])>>
      /\ job.tool = "cc1" => Made(job) = <<"asm", Content(job.from[1])>>
      /\ job.tool = "as" => Made(job) = <<"obj", Content(job.from[1])>>
      /\ job.tool = "ld" => Made(job) = <<"exe", [n \in DOMAIN job.from |-> Content(job.from[n])]>>
  BY DEF Made
<1>2. \A tag, c : Whole(<<tag, c>>)
  BY DEF Whole
<1> QED BY <1>1, <1>2

LEMMA SameCommand ==
  ASSUME cmd' = cmd
  PROVE  /\ \A input : /\ Source(input)' = Source(input)
                       /\ \A extn : Output(input, extn)' = Output(input, extn)
                       /\ Object(input)' = Object(input)
                       /\ Promised(input)' = Promised(input)
         /\ \A n : /\ Going(n)' = Going(n) /\ Path(n)' = Path(n) /\ Goal(n)' = Goal(n)
         /\ LinkOutput' = LinkOutput /\ Given' = Given /\ NamesDiffer' = NamesDiffer
         /\ Objects' = Objects /\ Linking' = Linking /\ LeftOut' = LeftOut
         /\ \A input : Type(input)' = Type(input)
<1>0. /\ \A input : Type(input)' = Type(input)
      /\ Linking' = Linking
  BY DEF Type, Linking
<1>1. \A input : /\ Source(input)' = Source(input)
                 /\ \A extn : Output(input, extn)' = Output(input, extn)
                 /\ IsLinkerInput(input)' = IsLinkerInput(input)
  BY <1>0 DEF Source, Output, IsLinkerInput
<1>2. \A input : Object(input)' = Object(input)
  BY <1>0, <1>1 DEF Object
<1>3. \A input : Promised(input)' = Promised(input)
  BY <1>0, <1>1, <1>2 DEF Promised
<1>4. \A n : Going(n)' = Going(n)
  BY <1>0, <1>1 DEF Going
<1>5. \A n : Path(n)' = Path(n)
  BY <1>1 DEF Path
<1>6. \A n : Goal(n)' = Goal(n)
  BY <1>2, <1>3, <1>4, <1>5 DEF Goal
<1>7. LinkOutput' = LinkOutput
  BY DEF LinkOutput
<1>8. Given' = Given
  <2>1. Len(cmd.inputs)' = Len(cmd.inputs) /\ Going(Len(cmd.inputs))' = Going(Len(cmd.inputs))
    BY <1>4
  <2>2. \A k : Nth(k)' = Nth(k)
    BY <1>4, <2>1 DEF Nth
  <2>3. \A k : Object(cmd.inputs[Nth(k)])' = Object(cmd.inputs[Nth(k)])
    BY <1>2, <2>2
  <2> QED BY <2>1, <2>3 DEF Given
<1>9. NamesDiffer' = NamesDiffer
  BY <1>0, <1>1, <1>3, <1>7 DEF NamesDiffer
<1>10. Objects' = Objects /\ LeftOut' = LeftOut
  BY <1>0, <1>2 DEF Objects, LeftOut
<1> QED BY <1>0, <1>1, <1>2, <1>3, <1>4, <1>5, <1>6, <1>7, <1>8, <1>9, <1>10

(***************************************************************************)
(* The order of the linker's inputs.                                       *)
(***************************************************************************)
LEMMA GoingFinite ==
  ASSUME NEW n \in Nat
  PROVE  /\ IsFiniteSet(Going(n)) /\ Cardinality(Going(n)) \in Nat
         /\ \A m \in Going(n) : m \in 1..n
<1>1. Going(n) \subseteq 1..n
  BY DEF Going
<1>2. IsFiniteSet(1..n)
  BY FS_Interval
<1>3. IsFiniteSet(Going(n))
  BY <1>1, <1>2, FS_Subset
<1> QED BY <1>1, <1>3, FS_CardinalityType

\* Each input that goes to the linker makes one more.
LEMMA GoingNext ==
  ASSUME NEW n \in Nat
  PROVE  /\ n + 1 \notin Going(n + 1) => Going(n + 1) = Going(n)
         /\ n + 1 \in Going(n + 1) =>
              /\ Going(n + 1) = Going(n) \cup {n + 1}
              /\ Cardinality(Going(n + 1)) = Cardinality(Going(n)) + 1
<1>1. 1..(n + 1) = (1..n) \cup {n + 1} /\ n + 1 \notin 1..n
  OBVIOUS
<1>2. /\ n + 1 \notin Going(n + 1) => Going(n + 1) = Going(n)
      /\ n + 1 \in Going(n + 1) => Going(n + 1) = Going(n) \cup {n + 1}
      /\ n + 1 \notin Going(n)
  BY <1>1 DEF Going
<1> QED BY <1>2, GoingFinite, FS_AddElement

\* So the place of an input determines it.
LEMMA OnePlace ==
  ASSUME NEW N \in Nat, NEW l \in Going(N), NEW m \in Going(N),
         Cardinality(Going(l)) = Cardinality(Going(m))
  PROVE  l = m
<1>1. ASSUME NEW i \in Going(N), NEW j \in Going(N), i < j
      PROVE  Cardinality(Going(i)) # Cardinality(Going(j))
  <2>1. i \in 1..N /\ j \in 1..N /\ i \in Nat /\ j \in Nat
    BY GoingFinite
  <2>2. Going(i) \subseteq Going(j) /\ j \in Going(j) /\ j \notin Going(i)
    BY <1>1, <2>1 DEF Going
  <2>3. IsFiniteSet(Going(j)) /\ IsFiniteSet(Going(i))
    BY <2>1, GoingFinite
  <2> QED BY <2>2, <2>3, FS_Subset
<1>2. l \in Nat /\ m \in Nat
  BY GoingFinite
<1> QED BY <1>1, <1>2

LEMMA OrderKept ==
  ASSUME Order, cmd' = cmd, at' = at, ld_args' = ld_args
  PROVE  Order'
<1>1. /\ \A n : Going(n)' = Going(n) /\ Path(n)' = Path(n)
      /\ \A input : Type(input)' = Type(input)
  BY SameCommand
<1> QED BY <1>1 DEF Order

LEMMA OrderTaken ==
  ASSUME TypeOK, Order, at \in DOMAIN cmd.inputs, cmd' = cmd, at' = at + 1,
         \/ at \notin Going(at) /\ ld_args' = ld_args
         \/ at \in Going(at) /\ ld_args' = Append(ld_args, Path(at)),
         Type(cmd.inputs[at]) # "unknown"
  PROVE  Order'
<1>1. /\ \A n : Going(n)' = Going(n) /\ Path(n)' = Path(n)
      /\ \A input : Type(input)' = Type(input)
  BY SameCommand
<1>2. at - 1 \in Nat /\ (at - 1) + 1 = at /\ at' - 1 = at
  BY InputsAre
<1> DEFINE T == {Path(n) : n \in DOMAIN cmd.inputs}
           N == Len(ld_args)
<1>3. /\ ld_args \in Seq(T) /\ N = Cardinality(Going(at - 1)) /\ N \in Nat
      /\ \A k \in 1..N : \E m \in Going(at - 1) : Cardinality(Going(m)) = k /\ ld_args[k] = Path(m)
  BY DEF Order
<1>4. SUFFICES /\ ld_args' \in Seq(T) /\ Len(ld_args') = Cardinality(Going(at))
               /\ \A k \in 1..Len(ld_args') :
                    \E m \in Going(at) : Cardinality(Going(m)) = k /\ ld_args'[k] = Path(m)
  <2>1. \A n \in 1..at : Type(cmd.inputs[n]) # "unknown"
    <3>1. \A n \in 1..at : n \in 1..(at - 1) \/ n = at
      BY <1>2
    <3> QED BY <3>1 DEF Order
  <2> QED BY <1>1, <1>2, <2>1 DEF Order
<1>5. CASE at \notin Going(at) /\ ld_args' = ld_args
  BY <1>2, <1>3, <1>5, GoingNext
<1>6. CASE at \in Going(at) /\ ld_args' = Append(ld_args, Path(at))
  <2>1. /\ Going(at) = Going(at - 1) \cup {at}
        /\ Cardinality(Going(at)) = N + 1
    BY <1>2, <1>3, <1>6, GoingNext
  <2>2. /\ Append(ld_args, Path(at)) \in Seq(T) /\ Len(Append(ld_args, Path(at))) = N + 1
        /\ \A k \in 1..N : Append(ld_args, Path(at))[k] = ld_args[k]
        /\ Append(ld_args, Path(at))[N + 1] = Path(at)
    <3>1. Path(at) \in T
      OBVIOUS
    <3> HIDE DEF T
    <3> QED BY <1>3, <3>1
  <2>3. ASSUME NEW k \in 1..(N + 1)
        PROVE  \E m \in Going(at) : Cardinality(Going(m)) = k /\ Append(ld_args, Path(at))[k] = Path(m)
    <3>1. CASE k = N + 1
      BY <2>1, <2>2, <3>1
    <3>2. CASE k # N + 1
      <4>1. k \in 1..N
        BY <1>3, <3>2
      <4> QED BY <1>3, <2>1, <2>2, <4>1
    <3> QED BY <3>1, <3>2
  <2> QED BY <1>6, <2>1, <2>2, <2>3
<1> QED BY <1>5, <1>6

(***************************************************************************)
(* The driver takes the input it is at.                                    *)
(***************************************************************************)
LEMMA WholeKinds ==
  ASSUME NEW tag, NEW c
  PROVE  Whole(<<tag, c>>)
BY DEF Whole

\* What input n is to have, by its type and the mode.
LEMMA GoalIs ==
  ASSUME NEW n \in Nat, n >= 1
  PROVE  /\ n \in Going(n) <=> \/ IsLinkerInput(cmd.inputs[n])
                               \/ Type(cmd.inputs[n]) = "c" /\ ~(cmd.opt_e \/ cmd.opt_s \/ cmd.opt_c)
         /\ n \notin Going(n) => Goal(n) = Promised(cmd.inputs[n])
         /\ n \in Going(n) => Goal(n) = Promised(cmd.inputs[n])
                                          \cup {<<Path(n), Object(cmd.inputs[n])>>}
<1>1. n \in 1..n
  OBVIOUS
<1> QED BY <1>1 DEF Going, Goal, Linking

\* What every action that takes an input does, to make the temporary files made.
Takes(made) ==
  /\ AtInput /\ cmd' = cmd /\ at' = at + 1 /\ linked' = linked /\ status' = status
  /\ made \subseteq {<<"tmp", at, 1>>, <<"tmp", at, 2>>}
  /\ DOMAIN fs' = DOMAIN fs \cup made /\ tmpfiles' = tmpfiles \cup made
  /\ \A p : Content(p)' = IF p \in made THEN <<"empty">> ELSE Content(p)
  /\ \/ at \notin Going(at) /\ ld_args' = ld_args
     \/ at \in Going(at) /\ ld_args' = Append(ld_args, Path(at))
  /\ Type(cmd.inputs[at]) # "unknown"

\* Files are only added that belong to the input taken: nothing else changes, for
\* it or for the others.
LEMMA InputTaken ==
  ASSUME TypeOK, RunningInv, NEW made, Takes(made)
  PROVE  /\ at \in DOMAIN cmd.inputs /\ ~linked /\ ~Pending
         /\ TypeOK' /\ Order'
         /\ \A p \in tmpfiles' : \E n \in 1..at, i \in {1, 2} : p = <<"tmp", n, i>>
         /\ \A p \in DOMAIN fs' : p[1] = "tmp" => p \in tmpfiles'
         /\ \A n \in DOMAIN cmd.inputs :
              Content(Source(cmd.inputs[n]))' = Content(Source(cmd.inputs[n]))
         /\ \A n \in DOMAIN cmd.inputs : Whole(Content(Source(cmd.inputs[n])))
         /\ \A k \in DOMAIN ld_args' : \/ Whole(Content(ld_args[k]))'
                                       \/ at \in Going(at) /\ ld_args'[k] = Path(at)
         /\ NamesDiffer =>
              /\ \A n \in DOMAIN cmd.inputs : n >= at =>
                   /\ Content(Source(cmd.inputs[n])) = <<"source", Source(cmd.inputs[n])>>
                   /\ Content(Source(cmd.inputs[n]))' = <<"source", Source(cmd.inputs[n])>>
              /\ \A n \in 1..(at - 1) : \A g \in Goal(n) : Content(g[1])' = g[2]
         /\ at \in Nat /\ at >= 1 /\ at' - 1 = at
<1>1. at \in DOMAIN cmd.inputs /\ ~linked /\ jobs = <<>> /\ ~Pending
  BY InputsAre DEF Takes, AtInput, TypeOK, Pending
<1>2. TypeOK'
  <2>1. at + 1 \in 1..(Len(cmd.inputs) + 1)
    <3>1. at \in 1..Len(cmd.inputs) /\ Len(cmd.inputs) \in Nat
      BY <1>1, InputsAre
    <3> QED BY ONLY <3>1
  <2> QED BY <1>1, <2>1 DEF Takes, TypeOK
<1>3. Order'
  BY <1>1, OrderTaken DEF Takes, RunningInv
<1>4. /\ DOMAIN fs' = DOMAIN fs \cup made
      /\ \A p : Content(p)' = IF p \in made THEN <<"empty">> ELSE Content(p)
  BY DEF Takes
<1>5. at \in Nat /\ at >= 1 /\ at' - 1 = at /\ at - 1 \in Nat /\ \A n \in 1..(at - 1) : n \in 1..at /\ n # at
  BY InputsAre DEF Takes
<1>6. /\ \A p \in tmpfiles' : \E n \in 1..at, i \in {1, 2} : p = <<"tmp", n, i>>
      /\ \A p \in DOMAIN fs' : p[1] = "tmp" => p \in tmpfiles'
  BY <1>4, <1>5 DEF Takes, RunningInv, Held
<1>7. \A p : p[1] # "tmp" => Content(p)' = Content(p)
  BY <1>4 DEF Takes
<1>8. \A n \in DOMAIN cmd.inputs :
        /\ Content(Source(cmd.inputs[n]))' = Content(Source(cmd.inputs[n]))
        /\ Whole(Content(Source(cmd.inputs[n])))
  BY <1>7, NotTemporary DEF Takes, RunningInv, Ready
<1>9. ASSUME NEW n \in 1..(at - 1)
      PROVE  Path(n) \notin made
  <2>1. n \in DOMAIN cmd.inputs
    BY <1>1, InputsAre
  <2> QED BY <1>5, <2>1, NotTemporary DEF Takes, Path
<1>10. ASSUME NEW k \in DOMAIN ld_args
       PROVE  Whole(Content(ld_args[k]))'
  <2>1. PICK m \in Going(at - 1) : ld_args[k] = Path(m)
    BY DEF RunningInv, Order
  <2>2. m \in 1..(at - 1)
    BY <1>5, <2>1, GoingFinite
  <2>3. ld_args[k] \notin made
    BY <1>9, <2>1, <2>2
  <2>4. Whole(Content(ld_args[k]))
    BY <1>1 DEF RunningInv, Ready
  <2>5. ld_args'[k] = ld_args[k]
    BY DEF Takes, RunningInv, Order
  <2> QED BY <1>4, <2>3, <2>4, <2>5 DEF Whole
<1>11. ASSUME NamesDiffer
       PROVE  /\ \A n \in DOMAIN cmd.inputs : n >= at =>
                   /\ Content(Source(cmd.inputs[n])) = <<"source", Source(cmd.inputs[n])>>
                   /\ Content(Source(cmd.inputs[n]))' = <<"source", Source(cmd.inputs[n])>>
              /\ \A n \in 1..(at - 1) : \A g \in Goal(n) : Content(g[1])' = g[2]
  <2>1. Goals
    BY <1>11 DEF RunningInv
  <2>2. ASSUME NEW n \in 1..(at - 1), NEW g \in Goal(n)
        PROVE  Content(g[1])' = g[2]
    <3>1. n \in DOMAIN cmd.inputs
      BY <1>1, InputsAre
    <3>2. Content(g[1]) = g[2]
      BY <1>1, <2>1 DEF Goals
    <3>3. g[1][1] = "tmp" => g[1] = <<"tmp", n, 2>>
      BY <1>11, <3>1, GoalNames
    <3>4. g[1] \notin made
      BY <1>5, <3>3 DEF Takes
    <3> QED BY <1>4, <3>2, <3>4
  <2>3. \A n \in DOMAIN cmd.inputs : n >= at =>
          Content(Source(cmd.inputs[n])) = <<"source", Source(cmd.inputs[n])>>
    BY <2>1 DEF Goals
  <2> QED BY <1>8, <2>2, <2>3
<1>12. /\ Len(ld_args) \in Nat /\ DOMAIN ld_args = 1..Len(ld_args)
       /\ ld_args \in Seq({Path(n) : n \in DOMAIN cmd.inputs})
  BY DEF RunningInv, Order
<1>13. Path(at) \in {Path(n) : n \in DOMAIN cmd.inputs}
  BY <1>1
<1>14. ASSUME NEW k \in DOMAIN ld_args'
       PROVE  \/ k \in DOMAIN ld_args
              \/ at \in Going(at) /\ ld_args'[k] = Path(at)
  <2>1. CASE ld_args' = ld_args
    BY <2>1
  <2>2. CASE at \in Going(at) /\ ld_args' = Append(ld_args, Path(at))
    BY <1>12, <1>13, <2>2
  <2> QED BY <2>1, <2>2 DEF Takes
<1>15. ASSUME NEW k \in DOMAIN ld_args'
       PROVE  \/ Whole(Content(ld_args[k]))'
              \/ at \in Going(at) /\ ld_args'[k] = Path(at)
  <2>1. CASE k \in DOMAIN ld_args
    BY <1>10, <2>1
  <2> QED BY <1>14, <2>1
<1> QED BY ONLY <1>1, <1>2, <1>3, <1>5, <1>6, <1>8, <1>11, <1>15

\* It needs no child: it goes to the linker as it is, or nothing is made of it.
LEMMA TakesNone ==
  ASSUME TypeOK, RunningInv, Takes({}), jobs' = <<>>,
         \/ at \notin Going(at) /\ Goal(at) = {}
         \/ /\ Path(at) = Source(cmd.inputs[at])
            /\ Goal(at) = {<<Path(at), <<"source", Path(at)>>>>}
  PROVE  TypeOK' /\ RunningInv'
<1>1. /\ at \in DOMAIN cmd.inputs /\ at \in Nat /\ at' - 1 = at /\ cmd' = cmd /\ ~linked'
  BY InputTaken DEF Takes
<1>2. /\ \A n : Path(n)' = Path(n) /\ Goal(n)' = Goal(n)
      /\ \A n \in DOMAIN cmd.inputs : n \in Nat /\ (n >= at' => n >= at)
      /\ \A n \in 1..at : n = at \/ n \in 1..(at - 1)
      /\ ~Pending'
  BY <1>1, SameCommand, InputsAre DEF Takes, Pending
<1>3. TypeOK' /\ Order' /\ Shape'
  BY InputTaken DEF Shape
<1>4. Held'
  BY <1>1, InputTaken DEF Held
<1>5. Ready'
  <2>1. \A n \in DOMAIN cmd'.inputs : Whole(Content(Source(cmd.inputs[n])))'
    BY <1>1, InputTaken DEF Whole
  <2>2. \A k \in DOMAIN ld_args' : Whole(Content(ld_args[k]))'
    <3> SUFFICES ASSUME NEW k \in DOMAIN ld_args', at \in Going(at), ld_args'[k] = Path(at)
                 PROVE  Whole(Content(ld_args[k]))'
      BY InputTaken
    <3>1. Path(at) = Source(cmd.inputs[at])
      OBVIOUS
    <3> QED BY <1>1, <2>1, <3>1
  <2> QED BY <2>1, <2>2 DEF Ready
<1>6. ASSUME NamesDiffer
      PROVE  Goals'
  <2>1. \A n \in DOMAIN cmd'.inputs : n >= at' =>
          Content(Source(cmd.inputs[n]))' = <<"source", Source(cmd.inputs[n])>>'
    BY <1>1, <1>2, <1>6, InputTaken
  <2>2. ASSUME NEW g \in Goal(at)
        PROVE  Content(g[1])' = g[2]
    <3>1. PICK i \in DOMAIN cmd.inputs : i = at
      BY <1>1
    <3>2. g[1] = Source(cmd.inputs[i]) /\ g[2] = <<"source", Source(cmd.inputs[i])>>
      BY <3>1
    <3>3. Content(Source(cmd.inputs[i]))' = <<"source", Source(cmd.inputs[i])>>
      BY <1>1, <1>6, <3>1, InputTaken
    <3> QED BY <1>1, <3>2, <3>3
  <2>3. \A n \in 1..at : \A g \in Goal(n) : Content(g[1])' = g[2]
    BY <1>1, <1>2, <1>6, <2>2, InputTaken
  <2> QED BY <1>1, <1>2, <2>1, <2>3 DEF Goals
<1>7. NamesDiffer' = NamesDiffer
  BY <1>1, SameCommand
<1> QED BY <1>3, <1>4, <1>5, <1>6, <1>7 DEF RunningInv

\* One child reads the input.
LEMMA TakesOne ==
  ASSUME TypeOK, RunningInv, Takes({}), at \notin Going(at),
         NEW tool \in {"cpp", "cc1", "as"}, NEW from, NEW to, NEW tag,
         from = Source(cmd.inputs[at]), to[1] # "tmp",
         jobs' = <<Job(tool, <<from>>, to)>>,
         Made(Job(tool, <<from>>, to))' = <<tag, Content(from)'>>,
         \/ Goal(at) = {<<to, <<tag, <<"source", from>>>>>>}
         \/ Goal(at) = {} /\ to = <<"stdout">> /\ cmd.opt_o = None
  PROVE  TypeOK' /\ RunningInv'
<1>1. /\ at \in DOMAIN cmd.inputs /\ at \in Nat /\ at >= 1 /\ at' - 1 = at /\ cmd' = cmd
      /\ ~linked' /\ at' = at + 1
  BY InputTaken DEF Takes
<1>2. /\ \A n : Path(n)' = Path(n) /\ Goal(n)' = Goal(n)
      /\ \A n \in DOMAIN cmd.inputs : n \in Nat /\ (n >= at' => n >= at)
      /\ \A n \in 1..at : n = at \/ n \in 1..(at - 1)
  BY <1>1, SameCommand, InputsAre
<1> DEFINE job == Job(tool, <<from>>, to)
<1>3. /\ job.tool = tool /\ job.from = <<from>> /\ job.to = to
      /\ job.from = <<job.from[1]>> /\ job.from[1] = from
  BY DEF Job
<1>4. /\ Len(jobs') = 1 /\ jobs'[1] = job /\ DOMAIN jobs' = {1} /\ Head(jobs') = job
      /\ jobs' # <<>> /\ jobs' = <<jobs'[1]>>
  OBVIOUS
<1> HIDE DEF job
<1>5. Pending'
  BY <1>1, <1>4 DEF Pending
<1>6. TypeOK' /\ Order'
  BY InputTaken
<1>7. Shape'
  <2>1. at' > 1
    BY <1>1
  <2> QED BY <1>3, <1>4, <1>5, <2>1 DEF Shape
<1>8. Held'
  BY <1>1, <1>3, <1>4, InputTaken DEF Held
<1>9. Ready'
  <2>1. \A n \in DOMAIN cmd'.inputs : Whole(Content(Source(cmd.inputs[n])))'
    BY <1>1, InputTaken DEF Whole
  <2>2. \A k \in DOMAIN ld_args' : Whole(Content(ld_args[k]))'
    BY InputTaken
  <2>3. Whole(Content(from)')
    BY <1>1, InputTaken DEF Whole
  <2>4. \A k \in DOMAIN Head(jobs').from : Whole(Content(Head(jobs).from[k]))'
    BY <1>3, <1>4, <2>3
  <2> QED BY <2>1, <2>2, <2>4 DEF Ready
<1>10. ASSUME NamesDiffer
       PROVE  Goals'
  <2>1. \A n \in DOMAIN cmd'.inputs : n >= at' =>
          Content(Source(cmd.inputs[n]))' = <<"source", Source(cmd.inputs[n])>>'
    BY <1>1, <1>2, <1>10, InputTaken
  <2>2. \A n \in 1..at : n = at \/ \A g \in Goal(n) : Content(g[1])' = g[2]
    BY <1>1, <1>2, <1>10, InputTaken
  <2>3. Content(from)' = <<"source", from>>
    BY <1>1, <1>2, <1>10, InputTaken
  <2>4. Made(job)' = <<tag, <<"source", from>>>>
    BY <2>3 DEF job
  <2>5. \A g \in Goal(at) : g = <<to, Made(job)'>>
    BY <2>4
  <2>6. \/ to \in {g[1] : g \in Goal(at)}
        \/ to = <<"stdout">> /\ cmd.opt_o = None
    <3>1. CASE Goal(at) = {<<to, <<tag, <<"source", from>>>>>>}
      BY <3>1
    <3> QED BY <3>1
  <2>7. Made(jobs[1])' = Made(job)'
    BY <1>4 DEF Made
  <2>8. /\ jobs'[Len(jobs')].to = to /\ jobs'[1].to = to
    BY <1>3, <1>4
  <2>9. Goal(at - 1)' = Goal(at)
    BY <1>1, <1>2
  <2> QED BY <1>1, <1>2, <1>4, <1>5, <2>1, <2>2, <2>5, <2>6, <2>7, <2>8, <2>9 DEF Goals
<1>11. NamesDiffer' = NamesDiffer
  BY <1>1, SameCommand
<1> QED BY <1>6, <1>7, <1>8, <1>9, <1>10, <1>11 DEF RunningInv

\* A compiler reads the input, and an assembler what it made.
LEMMA TakesTwo ==
  ASSUME TypeOK, RunningInv, NEW made, Takes(made), NEW from, NEW middle, NEW to,
         from = Source(cmd.inputs[at]), middle = <<"tmp", at, 1>>, middle \in made,
         to[1] # "tmp" \/ to \in made,
         jobs' = <<Job("cc1", <<from>>, middle), Job("as", <<middle>>, to)>>,
         at \in Going(at) => Path(at) = to,
         Goal(at) = {<<to, <<"obj", <<"asm", <<"source", from>>>>>>>>}
  PROVE  TypeOK' /\ RunningInv'
<1>1. /\ at \in DOMAIN cmd.inputs /\ at \in Nat /\ at >= 1 /\ at' - 1 = at /\ cmd' = cmd
      /\ ~linked' /\ at' = at + 1 /\ made \subseteq tmpfiles'
  BY InputTaken DEF Takes
<1>2. /\ \A n : Path(n)' = Path(n) /\ Goal(n)' = Goal(n)
      /\ \A n \in DOMAIN cmd.inputs : n \in Nat /\ (n >= at' => n >= at)
      /\ \A n \in 1..at : n = at \/ n \in 1..(at - 1)
  BY <1>1, SameCommand, InputsAre
<1> DEFINE cc1 == Job("cc1", <<from>>, middle)
           as == Job("as", <<middle>>, to)
<1>3. /\ cc1.tool = "cc1" /\ cc1.from = <<from>> /\ cc1.to = middle /\ cc1.from = <<cc1.from[1]>>
      /\ cc1.from[1] = from
      /\ as.tool = "as" /\ as.from = <<middle>> /\ as.to = to
  BY DEF Job
<1>4. /\ Len(jobs') = 2 /\ jobs'[1] = cc1 /\ jobs'[2] = as /\ DOMAIN jobs' = {1, 2}
      /\ Head(jobs') = cc1 /\ jobs' # <<>> /\ jobs' = <<jobs'[1], jobs'[2]>>
  OBVIOUS
<1> HIDE DEF cc1, as
<1>5. Pending'
  BY <1>1, <1>4 DEF Pending
<1>6. TypeOK' /\ Order'
  BY InputTaken
<1>7. Shape'
  <2>1. at' > 1 /\ middle = <<"tmp", at' - 1, 1>>
    BY <1>1
  <2> QED BY <1>3, <1>4, <1>5, <2>1 DEF Shape
<1>8. Held'
  <2>1. \A k \in DOMAIN jobs' : jobs'[k].to[1] # "tmp" \/ jobs'[k].to \in tmpfiles'
    BY <1>1, <1>3, <1>4
  <2> QED BY <1>1, <2>1, InputTaken DEF Held
<1>9. Ready'
  <2>1. \A n \in DOMAIN cmd'.inputs : Whole(Content(Source(cmd.inputs[n])))'
    BY <1>1, InputTaken DEF Whole
  <2>2. \A k \in DOMAIN ld_args' : \/ Whole(Content(ld_args[k]))'
                                   \/ Pending' /\ jobs'[Len(jobs')].to = ld_args'[k]
    BY <1>3, <1>4, <1>5, InputTaken
  <2>3. Whole(Content(from)')
    BY <1>1, InputTaken DEF Whole
  <2>4. \A k \in DOMAIN Head(jobs').from : Whole(Content(Head(jobs).from[k]))'
    BY <1>3, <1>4, <2>3
  <2> QED BY <2>1, <2>2, <2>4 DEF Ready
<1>10. ASSUME NamesDiffer
       PROVE  Goals'
  <2>1. \A n \in DOMAIN cmd'.inputs : n >= at' =>
          Content(Source(cmd.inputs[n]))' = <<"source", Source(cmd.inputs[n])>>'
    BY <1>1, <1>2, <1>10, InputTaken
  <2>2. \A n \in 1..at : n = at \/ \A g \in Goal(n) : Content(g[1])' = g[2]
    BY <1>1, <1>2, <1>10, InputTaken
  <2>3. Content(from)' = <<"source", from>>
    BY <1>1, <1>2, <1>10, InputTaken
  <2>4. Made(cc1)' = <<"asm", <<"source", from>>>>
    BY <1>3, <2>3 DEF Made
  <2>5. \A g \in Goal(at) : g = <<to, <<"obj", Made(cc1)'>>>>
    BY <2>4
  <2>6. to \in {g[1] : g \in Goal(at)}
    OBVIOUS
  <2>7. Made(jobs[1])' = Made(cc1)'
    BY <1>4 DEF Made
  <2>8. /\ jobs'[Len(jobs')].to = to /\ jobs'[2].to = to
    BY <1>3, <1>4
  <2>9. Goal(at - 1)' = Goal(at)
    BY <1>1, <1>2
  <2> QED BY <1>1, <1>2, <1>4, <1>5, <2>1, <2>2, <2>5, <2>6, <2>7, <2>8, <2>9 DEF Goals
<1>11. NamesDiffer' = NamesDiffer
  BY <1>1, SameCommand
<1> QED BY <1>6, <1>7, <1>8, <1>9, <1>10, <1>11 DEF RunningInv

LEMMA NothingMade ==
  ASSUME AtInput, cmd' = cmd, at' = at + 1, UNCHANGED <<linked, status, tmpfiles, fs>>,
         \/ at \notin Going(at) /\ ld_args' = ld_args
         \/ at \in Going(at) /\ ld_args' = Append(ld_args, Path(at)),
         Type(Input) # "unknown"
  PROVE  Takes({})
<1>1. \A p : Content(p)' = Content(p)
  BY DEF Content
<1> QED BY <1>1 DEF Takes, Input

\* The input is of one type, and its goal that of its type and of the mode.
LEMMA AtGoal ==
  ASSUME TypeOK, AtInput
  PROVE  /\ at \in Nat /\ at >= 1 /\ at \in DOMAIN cmd.inputs /\ Input = cmd.inputs[at]
         /\ {cmd.opt_c, cmd.opt_s, cmd.opt_e} \subseteq BOOLEAN
         /\ cmd.opt_o = None \/ cmd.opt_o[1] # "tmp"
         /\ Source(Input)[1] # "tmp"
         /\ \A extn : Output(Input, extn)[1] # "tmp"
<1>1. at \in 1..Len(cmd.inputs) /\ DOMAIN cmd.inputs = 1..Len(cmd.inputs) /\ at \in Nat /\ at >= 1
  BY InputsAre DEF AtInput
<1> QED BY <1>1, InputsAre, NotTemporary DEF Input

LEMMA ToLinkerStep ==
  ASSUME TypeOK, RunningInv, ToLinker
  PROVE  TypeOK' /\ RunningInv'
<1>1. AtInput /\ cmd' = cmd /\ at' = at + 1 /\ UNCHANGED <<jobs, linked, tmpfiles, fs, status>>
  BY DEF ToLinker
<1>2. Type(Input) \in {"obj", "lib"} /\ IsLinkerInput(cmd.inputs[at]) /\ at \in Nat /\ at >= 1
  BY <1>1, AtGoal DEF ToLinker, IsLinkerInput
<1>3. at \in Going(at) /\ Path(at) = Source(Input)
  BY <1>2, AtGoal, GoalIs DEF Path, Input
<1>4. Promised(Input) = {} /\ Object(Input) = <<"source", Source(Input)>>
  BY <1>2, PromisedIs DEF Object
<1>5. Goal(at) = {<<Path(at), <<"source", Path(at)>>>>}
  BY <1>2, <1>3, <1>4, GoalIs DEF Input
<1>6. Takes({})
  BY <1>1, <1>2, <1>3, NothingMade DEF ToLinker
<1>7. jobs' = <<>>
  BY <1>1 DEF AtInput
<1> QED BY <1>3, <1>5, <1>6, <1>7, TakesNone DEF Input

LEMMA AssembleStep ==
  ASSUME TypeOK, RunningInv, Assemble
  PROVE  TypeOK' /\ RunningInv'
<1>1. AtInput /\ cmd' = cmd /\ at' = at + 1 /\ UNCHANGED <<ld_args, linked, tmpfiles, fs, status>>
  BY DEF Assemble, Run
<1>2. /\ Type(Input) = "asm" /\ ~IsLinkerInput(cmd.inputs[at]) /\ at \in Nat /\ at >= 1
      /\ Input = cmd.inputs[at] /\ cmd.opt_s \in BOOLEAN
  BY <1>1, AtGoal DEF Assemble, IsLinkerInput
<1>3. at \notin Going(at) /\ Goal(at) = Promised(Input)
  BY <1>2, GoalIs
<1>4. Takes({})
  BY <1>1, <1>2, <1>3, NothingMade
<1>5. CASE cmd.opt_s
  <2>1. Goal(at) = {} /\ jobs' = <<>>
    BY <1>2, <1>3, <1>5, PromisedIs DEF Assemble, Run
  <2> QED BY <1>3, <1>4, <2>1, TakesNone
<1>6. CASE ~cmd.opt_s
  <2>1. PICK from, to : from = Source(Input) /\ to = Output(Input, ".o")
    OBVIOUS
  <2>2. Goal(at) = {<<to, <<"obj", <<"source", from>>>>>>}
    BY <1>2, <1>3, <1>6, <2>1, PromisedIs
  <2>3. jobs' = <<Job("as", <<from>>, to)>> /\ to[1] # "tmp"
    BY <1>1, <1>6, <2>1, AtGoal DEF Assemble, Run
  <2>4. Made(Job("as", <<from>>, to))' = <<"obj", Content(from)'>>
    BY DEF Made, Job
  <2> QED BY <1>2, <1>3, <1>4, <2>1, <2>2, <2>3, <2>4, TakesOne
<1> QED BY <1>2, <1>5, <1>6

LEMMA PreprocessOnlyStep ==
  ASSUME TypeOK, RunningInv, PreprocessOnly
  PROVE  TypeOK' /\ RunningInv'
<1>1. AtInput /\ cmd' = cmd /\ at' = at + 1 /\ UNCHANGED <<ld_args, linked, tmpfiles, fs, status>>
  BY DEF PreprocessOnly, Run
<1>2. /\ Type(Input) = "c" /\ cmd.opt_e /\ ~IsLinkerInput(cmd.inputs[at]) /\ at \in Nat /\ at >= 1
      /\ Input = cmd.inputs[at]
  BY <1>1, AtGoal DEF PreprocessOnly, IsLinkerInput
<1>3. at \notin Going(at) /\ Goal(at) = Promised(Input)
  BY <1>2, GoalIs
<1>4. Takes({})
  BY <1>1, <1>2, <1>3, NothingMade
<1>5. PICK from, to : /\ from = Source(Input)
                      /\ to = IF cmd.opt_o = None THEN <<"stdout">> ELSE cmd.opt_o
  OBVIOUS
<1>6. \/ Goal(at) = {<<to, <<"text", <<"source", from>>>>>>}
      \/ Goal(at) = {} /\ to = <<"stdout">> /\ cmd.opt_o = None
  BY <1>2, <1>3, <1>5, PromisedIs
<1>7. jobs' = <<Job("cpp", <<from>>, to)>> /\ to[1] # "tmp"
  BY <1>1, <1>5, AtGoal DEF PreprocessOnly, Run
<1>8. Made(Job("cpp", <<from>>, to))' = <<"text", Content(from)'>>
  BY DEF Made, Job
<1> QED BY <1>2, <1>3, <1>4, <1>5, <1>6, <1>7, <1>8, TakesOne

LEMMA CompileOnlyStep ==
  ASSUME TypeOK, RunningInv, CompileOnly
  PROVE  TypeOK' /\ RunningInv'
<1>1. AtInput /\ cmd' = cmd /\ at' = at + 1 /\ UNCHANGED <<ld_args, linked, tmpfiles, fs, status>>
  BY DEF CompileOnly, Run
<1>2. /\ Type(Input) = "c" /\ ~cmd.opt_e /\ cmd.opt_s /\ ~IsLinkerInput(cmd.inputs[at])
      /\ at \in Nat /\ at >= 1 /\ Input = cmd.inputs[at]
  BY <1>1, AtGoal DEF CompileOnly, IsLinkerInput
<1>3. at \notin Going(at) /\ Goal(at) = Promised(Input)
  BY <1>2, GoalIs
<1>4. Takes({})
  BY <1>1, <1>2, <1>3, NothingMade
<1>5. PICK from, to : from = Source(Input) /\ to = Output(Input, ".s")
  OBVIOUS
<1>6. Goal(at) = {<<to, <<"asm", <<"source", from>>>>>>}
  BY <1>2, <1>3, <1>5, PromisedIs
<1>7. jobs' = <<Job("cc1", <<from>>, to)>> /\ to[1] # "tmp"
  BY <1>1, <1>5, AtGoal DEF CompileOnly, Run
<1>8. Made(Job("cc1", <<from>>, to))' = <<"asm", Content(from)'>>
  BY DEF Made, Job
<1> QED BY <1>2, <1>3, <1>4, <1>5, <1>6, <1>7, <1>8, TakesOne

LEMMA CompileAndAssembleStep ==
  ASSUME TypeOK, RunningInv, CompileAndAssemble
  PROVE  TypeOK' /\ RunningInv'
<1> DEFINE made == {<<"tmp", at, 1>>}
<1>1. /\ AtInput /\ cmd' = cmd /\ at' = at + 1 /\ UNCHANGED <<ld_args, linked, status>>
      /\ tmpfiles' = tmpfiles \cup made /\ fs' = Put(made, <<"empty">>)
  BY DEF CompileAndAssemble, Run, CreateTmpfiles, Tmp
<1>2. /\ Type(Input) = "c" /\ ~cmd.opt_e /\ ~cmd.opt_s /\ cmd.opt_c
      /\ ~IsLinkerInput(cmd.inputs[at]) /\ at \in Nat /\ at >= 1 /\ Input = cmd.inputs[at]
  BY <1>1, AtGoal DEF CompileAndAssemble, IsLinkerInput
<1>3. at \notin Going(at) /\ Goal(at) = Promised(Input)
  BY <1>2, GoalIs
<1>4. Takes(made)
  BY <1>1, <1>2, <1>3, PutContent DEF Takes
<1>5. PICK from, to, middle : /\ from = Source(Input) /\ to = Output(Input, ".o")
                              /\ middle = <<"tmp", at, 1>>
  OBVIOUS
<1>6. Goal(at) = {<<to, <<"obj", <<"asm", <<"source", from>>>>>>>>}
  BY <1>2, <1>3, <1>5, PromisedIs
<1>7. jobs' = <<Job("cc1", <<from>>, middle), Job("as", <<middle>>, to)>> /\ to[1] # "tmp"
  BY <1>1, <1>5, AtGoal DEF CompileAndAssemble, Run, Tmp
<1> QED BY <1>2, <1>3, <1>4, <1>5, <1>6, <1>7, TakesTwo

LEMMA CompileForLinkStep ==
  ASSUME TypeOK, RunningInv, CompileForLink
  PROVE  TypeOK' /\ RunningInv'
<1> DEFINE made == {<<"tmp", at, 1>>, <<"tmp", at, 2>>}
<1>1. /\ AtInput /\ cmd' = cmd /\ at' = at + 1 /\ UNCHANGED <<linked, status>>
      /\ tmpfiles' = tmpfiles \cup made /\ fs' = Put(made, <<"empty">>)
      /\ ld_args' = Append(ld_args, <<"tmp", at, 2>>)
  BY DEF CompileForLink, Run, CreateTmpfiles, Tmp
<1>2. /\ Type(Input) = "c" /\ ~cmd.opt_e /\ ~cmd.opt_s /\ ~cmd.opt_c
      /\ ~IsLinkerInput(cmd.inputs[at]) /\ at \in Nat /\ at >= 1 /\ Input = cmd.inputs[at]
  BY <1>1, AtGoal DEF CompileForLink, IsLinkerInput
<1>3. at \in Going(at) /\ Path(at) = <<"tmp", at, 2>>
  BY <1>2, GoalIs DEF Path
<1>4. Takes(made)
  BY <1>1, <1>2, <1>3, PutContent DEF Takes
<1>5. PICK from, to, middle : /\ from = Source(Input) /\ to = <<"tmp", at, 2>>
                              /\ middle = <<"tmp", at, 1>>
  OBVIOUS
<1>6. Goal(at) = {<<to, <<"obj", <<"asm", <<"source", from>>>>>>>>}
  <2>1. Promised(Input) = {} /\ Object(Input) = <<"obj", <<"asm", <<"source", from>>>>>>
    BY <1>2, <1>5, PromisedIs DEF Object
  <2> QED BY <1>2, <1>3, <1>5, <2>1, GoalIs
<1>7. jobs' = <<Job("cc1", <<from>>, middle), Job("as", <<middle>>, to)>>
  BY <1>1, <1>5 DEF CompileForLink, Run, Tmp
<1>8. to \in made /\ middle \in made /\ Path(at) = to
  BY <1>3, <1>5
<1> HIDE DEF made
<1> QED BY <1>2, <1>4, <1>5, <1>6, <1>7, <1>8, TakesTwo

(***************************************************************************)
(* A child ends.                                                           *)
(***************************************************************************)
\* Its output is whole and everything else is as it was.
LEMMA ChildWrites ==
  ASSUME TypeOK, RunningInv, ChildSucceeds
  PROVE  /\ TypeOK' /\ Order' /\ status' = status
         /\ cmd' = cmd /\ at' = at /\ ld_args' = ld_args /\ linked' = linked
         /\ tmpfiles' = tmpfiles /\ jobs' = Tail(jobs)
         /\ \E to, made :
              /\ to = Head(jobs).to /\ made = Made(Head(jobs)) /\ Whole(made)
              /\ \A p : Content(p)' = IF p = to THEN made ELSE Content(p)
              /\ DOMAIN fs' = DOMAIN fs \cup {to}
         /\ \A n \in DOMAIN cmd.inputs : Whole(Content(Source(cmd.inputs[n])))'
         /\ NamesDiffer' = NamesDiffer
         /\ \A n : Path(n)' = Path(n) /\ Goal(n)' = Goal(n)
<1>1. /\ status' = status /\ cmd' = cmd /\ at' = at /\ ld_args' = ld_args /\ linked' = linked
      /\ tmpfiles' = tmpfiles /\ jobs' = Tail(jobs) /\ jobs # <<>>
      /\ fs' = Put({Head(jobs).to}, Made(Head(jobs)))
  BY DEF ChildSucceeds
<1>2. TypeOK'
  BY <1>1 DEF TypeOK
<1>3. Order'
  BY <1>1, OrderKept DEF RunningInv
<1>4. PICK to, made : to = Head(jobs).to /\ made = Made(Head(jobs))
  OBVIOUS
<1>5. /\ DOMAIN fs' = DOMAIN fs \cup {to}
      /\ \A p : Content(p)' = IF p = to THEN made ELSE Content(p)
  <2>1. fs' = Put({to}, made)
    BY <1>1, <1>4
  <2> QED BY <2>1, PutContent
<1>6. Head(jobs).tool \in {"cpp", "cc1", "as", "ld"}
  <2>1. CASE Len(jobs) = 1 /\ jobs[1].tool \in {"cpp", "cc1", "as"} /\ jobs = <<jobs[1]>>
    BY <2>1
  <2>2. CASE jobs = <<jobs[1], jobs[2]>> /\ jobs[1].tool = "cc1"
    BY <2>2
  <2>3. CASE jobs = <<Job("ld", ld_args, LinkOutput)>>
    BY <2>3 DEF Job
  <2> QED BY <1>1, <2>1, <2>2, <2>3 DEF RunningInv, Shape
<1>7. Whole(made)
  BY <1>4, <1>6, MadeIs
<1>8. \A n \in DOMAIN cmd.inputs : Whole(Content(Source(cmd.inputs[n])))'
  BY <1>1, <1>5, <1>7 DEF RunningInv, Ready, Whole
<1>9. NamesDiffer' = NamesDiffer /\ \A n : Path(n)' = Path(n) /\ Goal(n)' = Goal(n)
  BY <1>1, SameCommand
<1> QED BY <1>1, <1>2, <1>3, <1>4, <1>5, <1>7, <1>8, <1>9

\* The input before at is made, then.
LEMMA LastChildSucceeds ==
  ASSUME TypeOK, RunningInv, ChildSucceeds, Pending, Len(jobs) = 1
  PROVE  TypeOK' /\ RunningInv'
<1>1. PICK to, made :
        /\ to = Head(jobs).to /\ made = Made(Head(jobs)) /\ Whole(made)
        /\ \A p : Content(p)' = IF p = to THEN made ELSE Content(p)
        /\ DOMAIN fs' = DOMAIN fs \cup {to}
  BY ChildWrites
<1>2. at > 1 /\ ~linked /\ jobs = <<jobs[1]>>
  BY DEF RunningInv, Shape, Pending
<1>3. Head(jobs) = jobs[1] /\ Tail(jobs) = <<>> /\ jobs[Len(jobs)] = jobs[1] /\ 1 \in DOMAIN jobs
  <2>1. PICK a : jobs = <<a>>
    BY <1>2
  <2> QED BY <2>1
<1>4. at - 1 \in DOMAIN cmd.inputs /\ at - 1 \in 1..(at - 1)
  <2>1. at \in 1..(Len(cmd.inputs) + 1)
    BY DEF TypeOK
  <2>2. at - 1 \in 1..Len(cmd.inputs)
    BY <1>2, <2>1, InputsAre
  <2> QED BY <1>2, <2>2, InputsAre
<1>5. jobs' = <<>> /\ ~Pending' /\ Shape'
  BY <1>3, ChildWrites DEF Pending, Shape
<1>6. Held'
  BY <1>1, <1>3, <1>5, ChildWrites DEF RunningInv, Held
<1>7. Ready'
  <2>1. ASSUME NEW k \in DOMAIN ld_args
        PROVE  Whole(Content(ld_args[k])')
    <3>1. PICK p : p = ld_args[k] /\ p = ld_args'[k]
      BY ChildWrites
    <3>2. Whole(Content(p)) \/ to = p
      BY <1>1, <1>3, <3>1 DEF RunningInv, Ready
    <3> QED BY <1>1, <3>1, <3>2 DEF Whole
  <2> QED BY <1>5, <2>1, ChildWrites DEF Ready, Whole
<1>8. ASSUME NamesDiffer
      PROVE  Goals'
  <2>1. /\ \/ to \in {g[1] : g \in Goal(at - 1)}
           \/ to = <<"stdout">> /\ cmd.opt_o = None
        /\ \A g \in Goal(at - 1) : g = <<to, made>>
        /\ \A n \in DOMAIN cmd.inputs :
             n >= at => Content(Source(cmd.inputs[n])) = <<"source", Source(cmd.inputs[n])>>
        /\ \A n \in 1..(at - 1) : n = at - 1 \/ \A g \in Goal(n) : Content(g[1]) = g[2]
    BY <1>1, <1>3, <1>8 DEF RunningInv, Goals
  <2>2. ASSUME NEW n \in DOMAIN cmd.inputs, n # at - 1
        PROVE  to # Source(cmd.inputs[n]) /\ \A g \in Goal(n) : to # g[1]
    BY <1>4, <1>8, <2>1, <2>2, GoalNames, NotTemporary
  <2>3. \A n \in DOMAIN cmd.inputs :
          n >= at => Content(Source(cmd.inputs[n]))' = <<"source", Source(cmd.inputs[n])>>
    BY <1>1, <1>4, <2>1, <2>2, InputsAre, ChildWrites
  <2>4. \A n \in 1..(at - 1) : \A g \in Goal(n) : Content(g[1])' = g[2]
    <3> SUFFICES ASSUME NEW n \in 1..(at - 1), NEW g \in Goal(n)
                 PROVE  Content(g[1])' = g[2]
      OBVIOUS
    <3>1. CASE n = at - 1
      BY <1>1, <2>1, <3>1
    <3>2. CASE n # at - 1
      BY <1>1, <1>4, <2>1, <2>2, <3>2, InputsAre
    <3> QED BY <3>1, <3>2
  <2> QED BY <1>2, <1>5, <2>3, <2>4, ChildWrites DEF Goals
<1> QED BY <1>5, <1>6, <1>7, <1>8, ChildWrites DEF RunningInv

\* The assembler is next and reads what was made.
LEMMA FirstChildSucceeds ==
  ASSUME TypeOK, RunningInv, ChildSucceeds, Pending, Len(jobs) = 2
  PROVE  TypeOK' /\ RunningInv'
<1>1. PICK to, made :
        /\ to = Head(jobs).to /\ made = Made(Head(jobs)) /\ Whole(made)
        /\ \A p : Content(p)' = IF p = to THEN made ELSE Content(p)
        /\ DOMAIN fs' = DOMAIN fs \cup {to}
  BY ChildWrites
<1>2. /\ at > 1 /\ ~linked /\ jobs = <<jobs[1], jobs[2]>>
      /\ jobs[1].to = <<"tmp", at - 1, 1>>
      /\ jobs[2].tool = "as" /\ jobs[2].from = <<jobs[1].to>>
  BY DEF RunningInv, Shape, Pending
<1>3. PICK as : /\ as = jobs[2] /\ as.tool = "as" /\ as.from = <<to>> /\ as.from[1] = to
                /\ jobs' = <<as>> /\ Head(jobs) = jobs[1] /\ jobs[Len(jobs)] = as
                /\ DOMAIN jobs = {1, 2}
  <2>1. PICK a, b : jobs = <<a, b>>
    BY <1>2
  <2>2. Tail(jobs) = <<b>> /\ Head(jobs) = a /\ jobs[2] = b /\ jobs[1] = a
    BY <2>1
  <2> QED BY <1>1, <1>2, <2>1, <2>2, ChildWrites
<1>4. /\ jobs' # <<>> /\ Len(jobs') = 1 /\ jobs'[1] = as /\ jobs'[Len(jobs')] = as
      /\ Head(jobs') = as /\ DOMAIN jobs' = {1} /\ jobs' = <<jobs'[1]>>
  BY <1>3
<1>5. to = <<"tmp", at - 1, 1>>
  BY <1>1, <1>2, <1>3
<1>6. Pending'
  BY <1>2, <1>4, ChildWrites DEF Pending
<1>7. Shape'
  <2>1. as.from = <<as.from[1]>>
    BY <1>3
  <2> QED BY <1>2, <1>3, <1>4, <1>6, <2>1, ChildWrites DEF Shape
<1>8. Held'
  BY <1>1, <1>3, <1>4, ChildWrites DEF RunningInv, Held
<1>9. Ready'
  <2>1. ASSUME NEW k \in DOMAIN ld_args
        PROVE  \/ Whole(Content(ld_args[k])')
               \/ Pending' /\ jobs'[Len(jobs')].to = ld_args'[k]
    <3>1. PICK p : p = ld_args[k] /\ p = ld_args'[k]
      BY ChildWrites
    <3>2. Whole(Content(p)) \/ as.to = p
      BY <1>3, <3>1 DEF RunningInv, Ready
    <3> QED BY <1>1, <1>4, <1>6, <3>1, <3>2 DEF Whole
  <2>2. \A k \in DOMAIN Head(jobs').from : Whole(Content(Head(jobs).from[k]))'
    <3>1. DOMAIN as.from = {1}
      BY <1>3
    <3> QED BY <1>1, <1>3, <1>4, <3>1
  <2> QED BY <2>1, <2>2, ChildWrites DEF Ready, Whole
<1>10. ASSUME NamesDiffer
       PROVE  Goals'
  <2>1. /\ \/ as.to \in {g[1] : g \in Goal(at - 1)}
           \/ as.to = <<"stdout">> /\ cmd.opt_o = None
        /\ \A g \in Goal(at - 1) : g = <<as.to, <<"obj", made>>>>
        /\ \A n \in DOMAIN cmd.inputs :
             n >= at => Content(Source(cmd.inputs[n])) = <<"source", Source(cmd.inputs[n])>>
        /\ \A n \in 1..(at - 1) : n = at - 1 \/ \A g \in Goal(n) : Content(g[1]) = g[2]
    BY <1>1, <1>3, <1>10 DEF RunningInv, Goals
  <2>2. Made(as)' = <<"obj", made>>
    BY <1>1, <1>3 DEF Made
  <2>3. Made(jobs[1])' = Made(as)'
    BY <1>4 DEF Made
  <2>4. ASSUME NEW n \in DOMAIN cmd.inputs
        PROVE  to # Source(cmd.inputs[n]) /\ \A g \in Goal(n) : to # g[1]
    BY <1>5, <1>10, GoalNames, NotTemporary
  <2>5. \A n \in DOMAIN cmd.inputs :
          n >= at => Content(Source(cmd.inputs[n]))' = <<"source", Source(cmd.inputs[n])>>
    BY <1>1, <2>1, <2>4, ChildWrites
  <2>6. \A n \in 1..(at - 1) : n = at - 1 \/ \A g \in Goal(n) : Content(g[1])' = g[2]
    <3>1. \A n \in 1..(at - 1) : n \in DOMAIN cmd.inputs
      <4>1. at \in 1..(Len(cmd.inputs) + 1)
        BY DEF TypeOK
      <4> QED BY <4>1, InputsAre
    <3> QED BY <1>1, <2>1, <2>4, <3>1
  <2>7. at' = at /\ cmd' = cmd /\ ~linked' /\ \A n : Goal(n)' = Goal(n)
    BY <1>2, ChildWrites
  <2>8. Goal(at - 1)' = Goal(at - 1)
    BY <2>7
  <2>9. \A g \in Goal(at - 1)' : g = <<jobs'[1].to, Made(jobs[1])'>>
    BY <1>4, <2>1, <2>2, <2>3, <2>8
  <2>10. \/ jobs'[Len(jobs')].to \in {g[1] : g \in Goal(at - 1)}'
         \/ jobs'[Len(jobs')].to = <<"stdout">> /\ cmd'.opt_o = None
    BY <1>4, <2>1, <2>7, <2>8
  <2>11. (Len(jobs) = 1 => \A g \in Goal(at - 1) : g = <<jobs[1].to, Made(jobs[1])>>)'
    BY <2>9
  <2>12. (\A n \in DOMAIN cmd.inputs :
            n >= at => Content(Source(cmd.inputs[n])) = <<"source", Source(cmd.inputs[n])>>)'
    BY <2>5, <2>7
  <2>13. (\A n \in 1..(at - 1) :
            (Pending /\ n = at - 1) \/ \A g \in Goal(n) : Content(g[1]) = g[2])'
    BY <1>6, <2>6, <2>7
  <2>14. (Len(jobs) # 2 /\ ~linked)'
    BY <1>4, <2>7
  <2>15. (Pending => /\ \/ jobs[Len(jobs)].to \in {g[1] : g \in Goal(at - 1)}
                        \/ jobs[Len(jobs)].to = <<"stdout">> /\ cmd.opt_o = None
                     /\ Len(jobs) = 1 => \A g \in Goal(at - 1) : g = <<jobs[1].to, Made(jobs[1])>>
                     /\ Len(jobs) = 2 =>
                          \A g \in Goal(at - 1) : g = <<jobs[2].to, <<"obj", Made(jobs[1])>>>>)'
    BY ONLY <2>10, <2>11, <2>14
  <2> QED BY ONLY <2>12, <2>13, <2>14, <2>15 DEF Goals
<1> QED BY <1>7, <1>8, <1>9, <1>10, ChildWrites DEF RunningInv

\* What the linker is given, in order, is what is to be put together.
LEMMA GivenObjects ==
  ASSUME TypeOK, Order, linked \/ at > Len(cmd.inputs)
  PROVE  /\ Len(ld_args) = Cardinality(Going(Len(cmd.inputs)))
         /\ ld_args = <<>> <=> Given = <<>>
         /\ \A k \in DOMAIN ld_args :
              /\ Nth(k) \in DOMAIN cmd.inputs /\ Nth(k) \in Going(Nth(k))
              /\ ld_args[k] = Path(Nth(k))
<1> DEFINE N == Len(cmd.inputs)
<1>1. at - 1 = N /\ N \in Nat /\ DOMAIN cmd.inputs = 1..N
  <2>1. at \in 1..(Len(cmd.inputs) + 1) /\ (linked => at = Len(cmd.inputs) + 1)
    BY DEF TypeOK
  <2> QED BY <2>1, InputsAre
<1>2. /\ ld_args \in Seq({Path(n) : n \in DOMAIN cmd.inputs})
      /\ Len(ld_args) = Cardinality(Going(N)) /\ Len(ld_args) \in Nat
      /\ \A k \in 1..Len(ld_args) : \E m \in Going(N) : Cardinality(Going(m)) = k /\ ld_args[k] = Path(m)
  BY <1>1 DEF Order
<1>3. ld_args = <<>> <=> Given = <<>>
  <2>1. ld_args = <<>> <=> Len(ld_args) = 0
    BY <1>2
  <2>2. PICK c \in Nat : c = Cardinality(Going(N))
    BY <1>2
  <2>3. Given = [k \in 1..c |-> Object(cmd.inputs[Nth(k)])]
    BY <2>2 DEF Given
  <2>4. c = 0 => Given = <<>>
    BY <2>3
  <2>5. c # 0 => 1 \in DOMAIN Given
    BY <2>3
  <2> QED BY <1>2, <2>1, <2>2, <2>4, <2>5
<1>4. ASSUME NEW k \in DOMAIN ld_args
      PROVE  /\ Nth(k) \in DOMAIN cmd.inputs /\ Nth(k) \in Going(Nth(k))
             /\ ld_args[k] = Path(Nth(k))
  <2>1. PICK m \in Going(N) : Cardinality(Going(m)) = k /\ ld_args[k] = Path(m)
    BY <1>2
  <2>2. Nth(k) \in Going(N) /\ Cardinality(Going(Nth(k))) = k
    BY <2>1 DEF Nth
  <2>3. Nth(k) = m
    BY <1>1, <2>1, <2>2, OnePlace
  <2>4. m \in 1..N /\ m \in 1..m
    BY <1>1, <2>1, GoingFinite
  <2>5. m \in Going(m)
    BY <2>1, <2>4 DEF Going
  <2> QED BY <1>1, <2>1, <2>3, <2>4, <2>5
<1> QED BY <1>2, <1>3, <1>4

\* When all is to be linked and nothing is left out, it is given everything.
LEMMA AllGiven ==
  ASSUME TypeOK, Order, at > Len(cmd.inputs), Linking, ~LeftOut
  PROVE  Given = Objects /\ Given # <<>>
<1> DEFINE N == Len(cmd.inputs)
<1>1. at - 1 = N /\ N \in Nat /\ N # 0 /\ DOMAIN cmd.inputs = 1..N
  <2>1. at \in 1..(Len(cmd.inputs) + 1)
    BY DEF TypeOK
  <2> QED BY <2>1, InputsAre
<1>2. ASSUME NEW m \in 1..N
      PROVE  IsLinkerInput(cmd.inputs[m]) \/ Type(cmd.inputs[m]) = "c"
  <2>1. Type(cmd.inputs[m]) \in {"c", "asm", "obj", "lib", "unknown"}
    BY <1>1, InputsAre
  <2>2. Type(cmd.inputs[m]) # "unknown"
    BY <1>1 DEF Order
  <2>3. Type(cmd.inputs[m]) # "asm"
    BY <1>1 DEF LeftOut
  <2> QED BY <2>1, <2>2, <2>3 DEF IsLinkerInput
<1> HIDE DEF N
<1>3. ASSUME NEW n \in 1..N
      PROVE  Going(n) = 1..n /\ Cardinality(Going(n)) = n
  <2>1. n \in Nat /\ n >= 1 /\ \A m \in 1..n : m \in 1..N
    BY <1>1
  <2>2. Going(n) = 1..n
    BY <1>2, <2>1 DEF Going
  <2>3. Cardinality(1..n) = n
    <3>1. Cardinality(1..n) = IF 1 > n THEN 0 ELSE n - 1 + 1
      BY <2>1, FS_Interval
    <3> QED BY <2>1, <3>1
  <2> QED BY <2>2, <2>3
<1>4. N \in 1..N
  BY <1>1
<1>5. ASSUME NEW k \in 1..N
      PROVE  Nth(k) = k
  <2>1. k \in Going(N) /\ Cardinality(Going(k)) = k
    BY <1>3, <1>4
  <2>2. Nth(k) \in Going(N) /\ Cardinality(Going(Nth(k))) = k
    BY <2>1 DEF Nth, N
  <2> QED BY <1>3, <1>4, <2>2
<1>6. Given = [k \in 1..N |-> Object(cmd.inputs[Nth(k)])]
  BY <1>3, <1>4 DEF Given, N
<1>7. Given = [k \in 1..N |-> Object(cmd.inputs[k])]
  BY <1>5, <1>6
<1>8. N \in DOMAIN Given
  BY <1>4, <1>7
<1> QED BY <1>1, <1>7, <1>8 DEF Objects

LEMMA LinkerSucceeds ==
  ASSUME TypeOK, RunningInv, ChildSucceeds, linked
  PROVE  TypeOK' /\ RunningInv'
<1>1. PICK to, made :
        /\ to = Head(jobs).to /\ made = Made(Head(jobs)) /\ Whole(made)
        /\ \A p : Content(p)' = IF p = to THEN made ELSE Content(p)
        /\ DOMAIN fs' = DOMAIN fs \cup {to}
  BY ChildWrites
<1>2. jobs = <<Job("ld", ld_args, LinkOutput)>> /\ ld_args # <<>>
  BY DEF ChildSucceeds, RunningInv, Shape, Pending
<1>3. /\ Head(jobs) = Job("ld", ld_args, LinkOutput) /\ Tail(jobs) = <<>> /\ 1 \in DOMAIN jobs
      /\ jobs[1] = Head(jobs)
  BY <1>2
<1>4. to = LinkOutput /\ made = <<"exe", [k \in DOMAIN ld_args |-> Content(ld_args[k])]>>
  BY <1>1, <1>3 DEF Made, Job
<1>5. jobs' = <<>> /\ ~Pending /\ ~Pending' /\ Shape' /\ linked'
  BY <1>3, ChildWrites DEF Pending, Shape
<1>6. Held'
  BY <1>1, <1>3, <1>5, ChildWrites DEF RunningInv, Held
<1>7. Ready'
  <2>1. ASSUME NEW k \in DOMAIN ld_args
        PROVE  Whole(Content(ld_args[k])')
    <3>1. PICK p : p = ld_args[k] /\ p = ld_args'[k]
      BY ChildWrites
    <3>2. Whole(Content(p))
      BY <1>5, <3>1 DEF RunningInv, Ready
    <3> QED BY <1>1, <3>1, <3>2 DEF Whole
  <2> QED BY <1>5, <2>1, ChildWrites DEF Ready, Whole
<1>8. ASSUME NamesDiffer
      PROVE  Goals'
  <2>1. /\ at = Len(cmd.inputs) + 1 /\ Len(cmd.inputs) \in Nat
        /\ DOMAIN cmd.inputs = 1..(at - 1) /\ \A n \in DOMAIN cmd.inputs : ~(n >= at)
    <3>1. /\ at = Len(cmd.inputs) + 1 /\ Len(cmd.inputs) \in Nat
          /\ DOMAIN cmd.inputs = 1..Len(cmd.inputs)
      BY InputsAre DEF TypeOK
    <3> QED BY <3>1
  <2>2. \A n \in DOMAIN cmd.inputs : \A g \in Goal(n) : Content(g[1]) = g[2]
    BY <1>5, <1>8, <2>1 DEF RunningInv, Goals
  <2>3. Given # <<>>
    BY <1>2, GivenObjects DEF RunningInv
  <2>4. \A n \in DOMAIN cmd.inputs : \A g \in Goal(n) : Content(g[1])' = g[2]
    BY <1>1, <1>4, <1>8, <2>2, <2>3, GoalNames
  <2>5. \A k \in DOMAIN ld_args : Content(ld_args[k]) = Object(cmd.inputs[Nth(k)])
    <3> SUFFICES ASSUME NEW k \in DOMAIN ld_args
                 PROVE  Content(ld_args[k]) = Object(cmd.inputs[Nth(k)])
      OBVIOUS
    <3>1. /\ Nth(k) \in DOMAIN cmd.inputs /\ Nth(k) \in Going(Nth(k))
          /\ ld_args[k] = Path(Nth(k))
      BY GivenObjects DEF RunningInv
    <3>2. <<Path(Nth(k)), Object(cmd.inputs[Nth(k)])>> \in Goal(Nth(k))
      BY <3>1 DEF Goal
    <3> QED BY <2>2, <3>1, <3>2
  <2>6. DOMAIN ld_args = 1..Cardinality(Going(Len(cmd.inputs)))
    BY GivenObjects DEF RunningInv, Order
  <2>7. made = <<"exe", Given>>
    BY <1>4, <2>5, <2>6 DEF Given
  <2>8. LinkOutput' = LinkOutput /\ Given' = Given
    BY ChildWrites, SameCommand
  <2>9. Content(LinkOutput)' = <<"exe", Given>>'
    BY <1>1, <1>4, <2>7, <2>8
  <2>10. (\A n \in DOMAIN cmd.inputs : ~(n >= at))'
    BY <2>1, ChildWrites
  <2>11. (\A n \in 1..(at - 1) : \A g \in Goal(n) : Content(g[1]) = g[2])'
    BY <2>1, <2>4, ChildWrites
  <2> QED BY <1>5, <2>9, <2>10, <2>11 DEF Goals
<1> QED BY <1>5, <1>6, <1>7, <1>8, ChildWrites DEF RunningInv

LEMMA ChildSucceedsStep ==
  ASSUME TypeOK, RunningInv, ChildSucceeds
  PROVE  TypeOK' /\ RunningInv'
<1>1. jobs # <<>>
  BY DEF ChildSucceeds
<1>2. linked \/ (Pending /\ Len(jobs) = 1) \/ (Pending /\ Len(jobs) = 2)
  BY <1>1 DEF RunningInv, Shape
<1> QED BY <1>2, LinkerSucceeds, LastChildSucceeds, FirstChildSucceeds

(***************************************************************************)
(* The linker, and the ends.                                               *)
(***************************************************************************)
LEMMA LinkStep ==
  ASSUME TypeOK, RunningInv, Link
  PROVE  TypeOK' /\ RunningInv'
<1>1. /\ cmd' = cmd /\ at' = at /\ ld_args' = ld_args /\ tmpfiles' = tmpfiles /\ fs' = fs
      /\ status' = status /\ linked' /\ jobs' = <<Job("ld", ld_args, LinkOutput)>>
      /\ jobs = <<>> /\ at > Len(cmd.inputs) /\ ld_args # <<>> /\ linked' = TRUE /\ ~Pending
  BY DEF Link, AllInputsDone, Pending
<1>2. \A p : Content(p)' = Content(p)
  BY <1>1 DEF Content
<1>3. /\ Head(jobs') = Job("ld", ld_args, LinkOutput) /\ DOMAIN jobs' = {1} /\ jobs' # <<>>
      /\ jobs'[1] = Job("ld", ld_args, LinkOutput)
      /\ jobs'[1].to = LinkOutput /\ Head(jobs').from = ld_args
  BY <1>1 DEF Job
<1>4. /\ LinkOutput' = LinkOutput /\ NamesDiffer' = NamesDiffer
      /\ \A n : Path(n)' = Path(n) /\ Goal(n)' = Goal(n)
  BY <1>1, SameCommand
<1>5. TypeOK'
  <2>1. at \in 1..(Len(cmd.inputs) + 1) /\ at = Len(cmd.inputs) + 1
    <3>1. at \in 1..(Len(cmd.inputs) + 1) /\ Len(cmd.inputs) \in Nat
      BY InputsAre DEF TypeOK
    <3> QED BY <1>1, <3>1
  <2> QED BY <1>1, <2>1 DEF TypeOK
<1>6. Order' /\ Shape' /\ ~Pending'
  BY <1>1, <1>4, OrderKept DEF RunningInv, Shape, Pending
<1>7. Held'
  BY <1>1, <1>3, NotTemporary DEF RunningInv, Held
<1>8. Ready'
  <2>1. \A k \in DOMAIN ld_args : Whole(Content(ld_args[k]))
    BY <1>1 DEF RunningInv, Ready
  <2>2. \A k \in DOMAIN ld_args' : Whole(Content(ld_args[k]))'
    BY <1>1, <1>2, <2>1 DEF Whole
  <2>3. \A k \in DOMAIN Head(jobs').from : Whole(Content(Head(jobs).from[k]))'
    BY <1>1, <1>2, <1>3, <2>1 DEF Whole
  <2>4. \A n \in DOMAIN cmd'.inputs : Whole(Content(Source(cmd.inputs[n])))'
    BY <1>1, <1>2 DEF RunningInv, Ready, Whole
  <2> QED BY <2>2, <2>3, <2>4 DEF Ready
<1>9. ASSUME NamesDiffer
      PROVE  Goals'
  <2>1. (\A n \in DOMAIN cmd.inputs :
           n >= at => Content(Source(cmd.inputs[n])) = <<"source", Source(cmd.inputs[n])>>)'
    BY <1>1, <1>2, <1>9 DEF RunningInv, Goals
  <2>2. (\A n \in 1..(at - 1) : \A g \in Goal(n) : Content(g[1]) = g[2])'
    BY <1>1, <1>2, <1>4, <1>9 DEF RunningInv, Goals
  <2> QED BY <1>1, <1>6, <2>1, <2>2 DEF Goals
<1> QED BY <1>4, <1>5, <1>6, <1>7, <1>8, <1>9 DEF RunningInv

LEMMA DoneStep ==
  ASSUME TypeOK, RunningInv, Done
  PROVE  TypeOK' /\ status' = "ok" /\ CompleteOnSuccess' /\ TmpfilesRemoved'
<1>1. /\ cmd' = cmd /\ at' = at /\ ld_args' = ld_args /\ jobs' = jobs /\ linked' = linked
      /\ status' = "ok" /\ fs' = Remove(tmpfiles)
      /\ jobs = <<>> /\ at > Len(cmd.inputs) /\ (linked \/ ld_args = <<>>) /\ ~Pending
  BY DEF Done, AllInputsDone, Return, progress, Pending
<1>2. TypeOK'
  BY <1>1 DEF TypeOK
<1>3. DOMAIN fs' = DOMAIN fs \ tmpfiles /\ \A p : p \notin tmpfiles => Content(p)' = Content(p)
  BY <1>1, RemoveContent
<1>4. TmpfilesRemoved'
  BY <1>3 DEF RunningInv, Held, TmpfilesRemoved
<1>5. \A p : p[1] # "tmp" => Content(p)' = Content(p)
  BY <1>3 DEF RunningInv, Held
<1>6. /\ \A input : Promised(input)' = Promised(input)
      /\ LinkOutput' = LinkOutput /\ Objects' = Objects /\ NamesDiffer' = NamesDiffer
      /\ Linking' = Linking /\ LeftOut' = LeftOut
  BY <1>1, SameCommand
<1>7. ASSUME NamesDiffer, ~LeftOut
      PROVE  /\ \A n \in DOMAIN cmd.inputs : \A g \in Promised(cmd.inputs[n]) : Content(g[1])' = g[2]
             /\ Linking => Content(LinkOutput)' = <<"exe", Objects>>
  <2>1. Goals
    BY <1>7 DEF RunningInv
  <2>2. \A n \in DOMAIN cmd.inputs : n \in 1..(at - 1)
    <3>1. at \in 1..(Len(cmd.inputs) + 1)
      BY DEF TypeOK
    <3> QED BY <1>1, <3>1, InputsAre
  <2>3. ASSUME NEW n \in DOMAIN cmd.inputs, NEW g \in Promised(cmd.inputs[n])
        PROVE  Content(g[1])' = g[2]
    <3>1. Content(g[1]) = g[2]
      BY <1>1, <2>1, <2>2 DEF Goals, Goal
    <3>2. g[1][1] # "tmp"
      BY PromisedNames
    <3> QED BY <1>5, <3>1, <3>2
  <2>4. ASSUME Linking
        PROVE  Content(LinkOutput)' = <<"exe", Objects>>
    <3>1. Given = Objects /\ Given # <<>>
      BY <1>1, <1>7, <2>4, AllGiven DEF RunningInv
    <3>2. linked
      BY <1>1, <3>1, GivenObjects DEF RunningInv
    <3>3. Content(LinkOutput) = <<"exe", Objects>>
      BY <1>1, <2>1, <3>1, <3>2 DEF Goals
    <3>4. PICK p : p = LinkOutput
      OBVIOUS
    <3>5. Content(p)' = Content(p)
      BY <1>5, <3>4, NotTemporary
    <3> QED BY <1>6, <3>3, <3>4, <3>5
  <2> QED BY <2>3, <2>4
<1>8. CompleteOnSuccess'
  <2> SUFFICES ASSUME NamesDiffer, ~LeftOut
               PROVE  /\ (\A n \in DOMAIN cmd.inputs :
                            \A p \in Promised(cmd.inputs[n]) : Content(p[1]) = p[2])'
                      /\ (Linking => Content(LinkOutput) = <<"exe", Objects>>)'
    BY <1>6 DEF CompleteOnSuccess
  <2> QED BY <1>1, <1>6, <1>7
<1> QED BY <1>1, <1>2, <1>4, <1>8

\* The driver gives up, or process::exit ends it.
LEMMA ReturnStep ==
  ASSUME TypeOK, RunningInv, Return("error")
  PROVE  TypeOK' /\ status' = "error" /\ CompleteOnSuccess' /\ TmpfilesRemoved'
<1>1. /\ cmd' = cmd /\ at' = at /\ linked' = linked /\ status' = "error" /\ fs' = Remove(tmpfiles)
  BY DEF Return, progress
<1>2. DOMAIN fs' = DOMAIN fs \ tmpfiles
  BY <1>1, RemoveContent
<1>3. TmpfilesRemoved'
  BY <1>2 DEF RunningInv, Held, TmpfilesRemoved
<1>4. TypeOK'
  BY <1>1 DEF TypeOK
<1>5. CompleteOnSuccess'
  BY <1>1 DEF CompleteOnSuccess
<1> QED BY <1>1, <1>3, <1>4, <1>5

(***************************************************************************)
(* The invariant.                                                          *)
(***************************************************************************)
LEMMA InitIInv == Init => IInv
<1> SUFFICES ASSUME Init
             PROVE  IInv
  OBVIOUS
<1>1. /\ cmd \in Commands /\ at = 1 /\ jobs = <<>> /\ ld_args = <<>> /\ linked = FALSE
      /\ tmpfiles = {} /\ status = "running"
  BY DEF Init
<1>2. Len(cmd.inputs) \in Nat /\ DOMAIN cmd.inputs = 1..Len(cmd.inputs)
  BY <1>1, CommandsAssumption
<1>3. TypeOK
  <2>1. at \in 1..(Len(cmd.inputs) + 1)
    BY <1>1, <1>2
  <2> QED BY <1>1, <2>1 DEF TypeOK
<1> DEFINE sources == {Source(cmd.inputs[n]) : n \in DOMAIN cmd.inputs}
<1>4. PICK old \in SUBSET OldFiles :
        fs = [p \in old \cup sources |-> IF p \in sources THEN <<"source", p>> ELSE <<"old">>]
  BY DEF Init
<1>5. \A n \in DOMAIN cmd.inputs :
        Content(Source(cmd.inputs[n])) = <<"source", Source(cmd.inputs[n])>>
  BY <1>4 DEF Content
<1>6. Order
  <2>1. Going(0) = {}
    BY DEF Going
  <2>2. Cardinality(Going(0)) = 0
    BY <2>1, FS_EmptySet
  <2> QED BY <1>1, <2>2 DEF Order
<1>7. Shape /\ ~Pending
  BY <1>1 DEF Shape, Pending
<1>8. Held
  <2>1. \A p \in sources : p[1] # "tmp"
    BY <1>3, NotTemporary
  <2>2. \A p \in DOMAIN fs : p[1] # "tmp"
    BY <1>4, <2>1, CommandsAssumption
  <2> QED BY <1>1, <2>2 DEF Held
<1>9. Ready
  BY <1>1, <1>5, WholeKinds DEF Ready
<1>10. Goals
  BY <1>1, <1>5, <1>7 DEF Goals
<1> QED BY <1>1, <1>3, <1>6, <1>7, <1>8, <1>9, <1>10
        DEF IInv, RunningInv, CompleteOnSuccess, TmpfilesRemoved

LEMMA Stutter ==
  ASSUME IInv, UNCHANGED vars
  PROVE  IInv'
<1>1. /\ cmd' = cmd /\ at' = at /\ jobs' = jobs /\ ld_args' = ld_args /\ linked' = linked
      /\ tmpfiles' = tmpfiles /\ fs' = fs /\ status' = status
  BY DEF vars, progress
<1>2. /\ \A p : Content(p)' = Content(p)
      /\ \A job : Made(job)' = Made(job)
  BY <1>1 DEF Content, Made
<1>3. /\ LinkOutput' = LinkOutput /\ Given' = Given /\ NamesDiffer' = NamesDiffer
      /\ \A input : Promised(input)' = Promised(input)
      /\ \A n : Goal(n)' = Goal(n)
      /\ Objects' = Objects /\ Linking' = Linking /\ LeftOut' = LeftOut
  BY <1>1, SameCommand
<1>4. TypeOK' /\ CompleteOnSuccess' /\ TmpfilesRemoved'
  BY <1>1, <1>2, <1>3 DEF IInv, TypeOK, CompleteOnSuccess, TmpfilesRemoved
<1>5. ASSUME RunningInv
      PROVE  RunningInv'
  <2>1. Order'
    BY <1>1, <1>5, OrderKept DEF RunningInv
  <2>2. Pending' = Pending
    BY <1>1 DEF Pending
  <2>3. Shape'
    BY <1>1, <1>3, <1>5, <2>2 DEF RunningInv, Shape
  <2>4. Held'
    BY <1>1, <1>5 DEF RunningInv, Held
  <2>5. Ready'
    BY <1>1, <1>2, <1>5, <2>2 DEF RunningInv, Ready, Whole
  <2>6. ASSUME NamesDiffer
        PROVE  Goals'
    <3>1. Goals
      BY <1>5, <2>6 DEF RunningInv
    <3>2. Made(jobs[1])' = Made(jobs[1])
      BY <1>1, <1>2
    <3> QED BY <1>1, <1>2, <1>3, <2>2, <3>1, <3>2 DEF Goals
  <2> QED BY <1>3, <2>1, <2>3, <2>4, <2>5, <2>6 DEF RunningInv
<1> QED BY <1>1, <1>4, <1>5 DEF IInv

LEMMA NextIInv == IInv /\ [Next]_vars => IInv'
<1> SUFFICES ASSUME IInv, [Next]_vars
             PROVE  IInv'
  OBVIOUS
<1>1. TypeOK
  BY DEF IInv
<1>2. CASE UNCHANGED vars
  BY <1>2, Stutter
<1>3. ASSUME Next
      PROVE  status = "running" /\ RunningInv
  <2>1. status = "running"
    BY <1>3 DEF Next, RejectOutput, UnknownFileType, ToLinker, Assemble, PreprocessOnly, CompileOnly,
                CompileAndAssemble, CompileForLink, Link, Done, ChildSucceeds, ExecFails, ChildFails,
                AtInput, AllInputsDone
  <2> QED BY <2>1 DEF IInv
<1>4. ASSUME TypeOK', RunningInv', status' = "running"
      PROVE  IInv'
  BY <1>4 DEF IInv, CompleteOnSuccess, TmpfilesRemoved
<1>5. ASSUME TypeOK', status' # "running", CompleteOnSuccess', TmpfilesRemoved'
      PROVE  IInv'
  BY <1>5 DEF IInv
<1>6. CASE RejectOutput \/ UnknownFileType \/ ExecFails
  <2>1. Next /\ Return("error")
    BY <1>6 DEF Next, RejectOutput, UnknownFileType, ExecFails
  <2> QED BY <1>1, <1>3, <1>5, <2>1, ReturnStep
<1>7. CASE ToLinker
  BY <1>1, <1>3, <1>4, <1>7, ToLinkerStep DEF Next, ToLinker
<1>8. CASE Assemble
  BY <1>1, <1>3, <1>4, <1>8, AssembleStep DEF Next, Assemble, Run
<1>9. CASE PreprocessOnly
  BY <1>1, <1>3, <1>4, <1>9, PreprocessOnlyStep DEF Next, PreprocessOnly, Run
<1>10. CASE CompileOnly
  BY <1>1, <1>3, <1>4, <1>10, CompileOnlyStep DEF Next, CompileOnly, Run
<1>11. CASE CompileAndAssemble
  BY <1>1, <1>3, <1>4, <1>11, CompileAndAssembleStep DEF Next, CompileAndAssemble, Run
<1>12. CASE CompileForLink
  BY <1>1, <1>3, <1>4, <1>12, CompileForLinkStep DEF Next, CompileForLink, Run
<1>13. CASE Link
  BY <1>1, <1>3, <1>4, <1>13, LinkStep DEF Next, Link
<1>14. CASE Done
  BY <1>1, <1>3, <1>5, <1>14, DoneStep DEF Next
<1>15. CASE ChildSucceeds
  BY <1>1, <1>3, <1>4, <1>15, ChildSucceedsStep DEF Next, ChildSucceeds
<1>16. CASE ChildFails
  <2>1. cmd' = cmd /\ at' = at /\ linked' = linked /\ status' = "exit 1"
    BY <1>16 DEF ChildFails, progress
  <2> QED BY <1>1, <1>5, <2>1 DEF TypeOK, CompleteOnSuccess, TmpfilesRemoved
<1> QED BY <1>2, <1>6, <1>7, <1>8, <1>9, <1>10, <1>11, <1>12, <1>13, <1>14, <1>15, <1>16 DEF Next

LEMMA AlwaysIInv == Spec => []IInv
<1>1. Init => IInv
  BY InitIInv
<1>2. IInv /\ [Next]_vars => IInv'
  BY NextIInv
<1> QED BY <1>1, <1>2, PTL DEF Spec

(***************************************************************************)
(* What it gives.                                                          *)
(***************************************************************************)
\* Every child finds its inputs complete: run starts one only after the child
\* that writes what it reads has succeeded, for every command line.
THEOREM ChildrenAreReady == Spec => []ReadyToRun
<1>1. IInv => ReadyToRun
  BY DEF IInv, RunningInv, Ready, ReadyToRun, Whole
<1> QED BY <1>1, AlwaysIInv, PTL

\* When run returns Ok, all that the command line asks for is there and made in
\* this run, each file from its own source and the executable from every input
\* in the order of the command line, save where an .s input is to be linked, which
\* the code leaves out.
THEOREM SuccessIsComplete == Spec => []CompleteOnSuccess
<1>1. IInv => CompleteOnSuccess
  BY DEF IInv
<1> QED BY <1>1, AlwaysIInv, PTL

\* Whenever run returns, Ok or Err, the temporary files of create_tmpfile are
\* gone, whatever was started and whatever is written to them.
THEOREM NoTmpfilesLeft == Spec => []TmpfilesRemoved
<1>1. IInv => TmpfilesRemoved
  BY DEF IInv
<1> QED BY <1>1, AlwaysIInv, PTL
=============================================================================
