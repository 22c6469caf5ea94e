------------------------------- MODULE Driver ------------------------------
(***************************************************************************)
(* The compiler driver of src/src/main.rs (run): it walks the inputs and   *)
(* for each runs child processes one after another (itself as cc1, the     *)
(* assembler), then the linker on what it gathered.                        *)
(*                                                                         *)
(* A path is a tuple, temporary files being <<"tmp", input, number>>.  The *)
(* content of a file says how it was made: <<"asm", c>> was compiled from  *)
(* a file with content c, <<"obj", c>> assembled, <<"exe", s>> linked.     *)
(***************************************************************************)
EXTENDS Naturals, Sequences, FiniteSets

CONSTANTS
  Commands, \* the command lines considered: opt_c, opt_s, opt_e, opt_x, opt_o, inputs
  OldFiles  \* outputs of earlier runs that may be there

None == <<"none">>  \* no -o

\* No file has the name of a temporary one: mkstemp makes those anew.
ASSUME CommandsAssumption ==
  /\ \A c \in Commands :
       /\ {c.opt_c, c.opt_s, c.opt_e} \subseteq BOOLEAN
       /\ c.opt_x \in {"none", "c", "asm"}
       /\ c.opt_o = None \/ c.opt_o[1] # "tmp"
       /\ Len(c.inputs) \in Nat \ {0} /\ DOMAIN c.inputs = 1..Len(c.inputs)
       /\ \A n \in DOMAIN c.inputs :
            /\ c.inputs[n].type \in {"c", "asm", "obj", "lib", "unknown"}
            /\ c.inputs[n].base # "tmp"
  /\ \A p \in OldFiles : p[1] # "tmp"

VARIABLES
  cmd,      \* the command line
  at,       \* the input the loop is at
  jobs,     \* the children still to run for it
  ld_args,  \* what the linker will be given
  linked,   \* has the linker been set to work?
  tmpfiles, \* the temporary files held
  fs,       \* the files there are, with their contents
  status    \* "running", or how the driver ended

progress == <<at, jobs, ld_args, linked>>
vars == <<cmd, progress, tmpfiles, fs, status>>

Content(path) == IF path \in DOMAIN fs THEN fs[path] ELSE <<"missing">>
Put(paths, content) == [p \in DOMAIN fs \cup paths |-> IF p \in paths THEN content ELSE fs[p]]
Remove(paths) == [p \in DOMAIN fs \ paths |-> fs[p]]

Input == cmd.inputs[at]
\* get_file_type: input.type is that of the extension, "obj" for .o, .a and .so, or
\* "lib" for -l.  -x says what the others are to be taken for, and -E implies -xc.
Type(input) ==
  IF input.type = "lib" THEN "lib"
  ELSE IF cmd.opt_e THEN "c"
  ELSE IF cmd.opt_x # "none" THEN cmd.opt_x ELSE input.type
IsLinkerInput(input) == Type(input) \in {"obj", "lib"}
Source(input) == <<input.base, CASE input.type = "c" -> ".c" [] input.type = "asm" -> ".s"
                                 [] input.type = "obj" -> ".o" [] input.type = "lib" -> ".a"
                                 [] OTHER -> "">>
Output(input, extn) == IF cmd.opt_o = None THEN <<input.base, extn>> ELSE cmd.opt_o
LinkOutput == IF cmd.opt_o = None THEN <<"a", ".out">> ELSE cmd.opt_o

Job(tool, from, to) == [tool |-> tool, from |-> from, to |-> to]
Made(job) ==
  CASE job.tool = "cpp" -> <<"text", Content(job.from[1])>>
    [] job.tool = "cc1" -> <<"asm", Content(job.from[1])>>
    [] job.tool = "as"  -> <<"obj", Content(job.from[1])>>
    [] job.tool = "ld"  -> <<"exe", [n \in DOMAIN job.from |-> Content(job.from[n])]>>

\* The sources are there, and perhaps outputs of an earlier run.
Init ==
  /\ cmd \in Commands
  /\ at = 1 /\ jobs = <<>> /\ ld_args = <<>> /\ linked = FALSE /\ tmpfiles = {}
  /\ \E old \in SUBSET OldFiles :
       LET sources == {Source(cmd.inputs[n]) : n \in DOMAIN cmd.inputs} IN
       fs = [p \in old \cup sources |-> IF p \in sources THEN <<"source", p>> ELSE <<"old">>]
  /\ status = "running"

\* run returns, Ok or Err: the temporary files are dropped.
Return(how) ==
  /\ status' = how
  /\ fs' = Remove(tmpfiles) /\ tmpfiles' = {}
  /\ UNCHANGED <<cmd, progress>>

TooManyForOutput ==
  Len(cmd.inputs) > 1 /\ cmd.opt_o # None /\ (cmd.opt_c \/ cmd.opt_s \/ cmd.opt_e)

RejectOutput ==
  /\ status = "running" /\ at = 1 /\ jobs = <<>> /\ TooManyForOutput
  /\ Return("error")

AtInput == status = "running" /\ jobs = <<>> /\ at <= Len(cmd.inputs) /\ ~TooManyForOutput

UnknownFileType ==
  /\ AtInput /\ Type(Input) = "unknown"
  /\ Return("error")

ToLinker ==
  /\ AtInput /\ IsLinkerInput(Input)
  /\ ld_args' = Append(ld_args, Source(Input)) /\ at' = at + 1
  /\ UNCHANGED <<cmd, jobs, linked, tmpfiles, fs, status>>

\* The children for one input: each in turn must succeed.
Run(children) == jobs' = children /\ at' = at + 1 /\ UNCHANGED <<cmd, linked, status>>

Assemble ==
  /\ AtInput /\ Type(Input) = "asm"
  /\ Run(IF cmd.opt_s THEN <<>> ELSE <<Job("as", <<Source(Input)>>, Output(Input, ".o"))>>)
  /\ UNCHANGED <<ld_args, tmpfiles, fs>>

PreprocessOnly ==
  /\ AtInput /\ Type(Input) = "c" /\ cmd.opt_e
  /\ Run(<<Job("cpp", <<Source(Input)>>, IF cmd.opt_o = None THEN <<"stdout">> ELSE cmd.opt_o)>>)
  /\ UNCHANGED <<ld_args, tmpfiles, fs>>

CompileOnly ==
  /\ AtInput /\ Type(Input) = "c" /\ ~cmd.opt_e /\ cmd.opt_s
  /\ Run(<<Job("cc1", <<Source(Input)>>, Output(Input, ".s"))>>)
  /\ UNCHANGED <<ld_args, tmpfiles, fs>>

Tmp(n) == <<"tmp", at, n>>
\* Seeded fault: the files are not held, so nothing removes them.
CreateTmpfilesLeaking(paths) == UNCHANGED tmpfiles /\ fs' = Put(paths, <<"empty">>)
\* Seeded fault: the files of the input before are let go.
CreateTmpfilesDropping(paths) ==
  tmpfiles' = paths /\ fs' = [p \in (DOMAIN fs \ tmpfiles) \cup paths |->
                                IF p \in paths THEN <<"empty">> ELSE fs[p]]
\* create_tmpfile, once or twice; _tmpfiles holds them until run returns.
CreateTmpfiles(paths) == tmpfiles' = tmpfiles \cup paths /\ fs' = Put(paths, <<"empty">>)

CompileAndAssemble ==
  /\ AtInput /\ Type(Input) = "c" /\ ~cmd.opt_e /\ ~cmd.opt_s /\ cmd.opt_c
  /\ CreateTmpfiles({Tmp(1)})
  /\ Run(<<Job("cc1", <<Source(Input)>>, Tmp(1)), Job("as", <<Tmp(1)>>, Output(Input, ".o"))>>)
  /\ UNCHANGED ld_args

\* The object goes to the linker; ld_args is only read if both children succeed.
CompileForLink ==
  /\ AtInput /\ Type(Input) = "c" /\ ~cmd.opt_e /\ ~cmd.opt_s /\ ~cmd.opt_c
  /\ CreateTmpfiles({Tmp(1), Tmp(2)})
  /\ Run(<<Job("cc1", <<Source(Input)>>, Tmp(1)), Job("as", <<Tmp(1)>>, Tmp(2))>>)
  /\ ld_args' = Append(ld_args, Tmp(2))

AllInputsDone ==
  status = "running" /\ jobs = <<>> /\ at > Len(cmd.inputs) /\ ~TooManyForOutput

\* run_linker, whenever there is something for it.
Link ==
  /\ AllInputsDone /\ ~linked /\ ld_args # <<>>
  /\ linked' = TRUE
  /\ jobs' = <<Job("ld", ld_args, LinkOutput)>>
  /\ UNCHANGED <<cmd, at, ld_args, tmpfiles, fs, status>>

Done ==
  /\ AllInputsDone /\ (linked \/ ld_args = <<>>)
  /\ Return("ok")

(***************************************************************************)
(* The children.                                                           *)
(***************************************************************************)
ChildSucceeds ==
  /\ status = "running" /\ jobs # <<>>
  /\ fs' = Put({Head(jobs).to}, Made(Head(jobs)))
  /\ jobs' = Tail(jobs)
  /\ UNCHANGED <<cmd, at, ld_args, linked, tmpfiles, status>>

\* The child cannot be started: an Err like any other.
ExecFails ==
  /\ status = "running" /\ jobs # <<>>
  /\ Return("error")

\* Seeded fault: the driver goes on after a failure.
ChildFailsSilently ==
  /\ status = "running" /\ jobs # <<>>
  /\ jobs' = Tail(jobs)
  /\ UNCHANGED <<cmd, at, ld_args, linked, tmpfiles, fs, status>>

\* A child fails and process::exit(1) ends the driver on the spot.  cc1 opens
\* its output only after the code is made, so its file is as it was or, when
\* writing failed, cut short; the other tools may have removed theirs.
ChildFails ==
  /\ status = "running" /\ jobs # <<>>
  /\ LET to == Head(jobs).to IN
     fs' \in {fs, Put({to}, <<"partial">>)}
             \cup (IF Head(jobs).tool \in {"as", "ld"} THEN {Remove({to})} ELSE {})
  /\ status' = "exit 1"
  /\ UNCHANGED <<cmd, progress, tmpfiles>>

Next ==
  \/ RejectOutput \/ UnknownFileType \/ ToLinker \/ Assemble \/ PreprocessOnly
  \/ CompileOnly \/ CompileAndAssemble \/ CompileForLink \/ Link \/ Done
  \/ ChildSucceeds \/ ExecFails \/ ChildFails

Spec == Init /\ [][Next]_vars
-----------------------------------------------------------------------------
(***************************************************************************)
(* Properties.                                                             *)
(***************************************************************************)
\* What a child reads is complete when it starts: the sources, the file the
\* child before it wrote, and every object held for the linker since.
ReadyToRun ==
  status = "running" /\ jobs # <<>> =>
    \A n \in DOMAIN Head(jobs).from :
      Content(Head(jobs).from[n]) \notin {<<"missing">>, <<"empty">>, <<"partial">>}

\* What becomes of an input when all goes well.
Object(input) ==
  LET source == <<"source", Source(input)>> IN
  CASE Type(input) = "c"   -> <<"obj", <<"asm", source>>>>
    [] Type(input) = "asm" -> <<"obj", source>>
    [] OTHER               -> source

\* The files a command line asks for with -S, -c and -E, and what they hold.
Promised(input) ==
  CASE Type(input) = "asm" /\ ~cmd.opt_s -> {<<Output(input, ".o"), Object(input)>>}
    [] Type(input) = "c" /\ cmd.opt_e /\ cmd.opt_o # None ->
         {<<cmd.opt_o, <<"text", <<"source", Source(input)>>>>>>}
    [] Type(input) = "c" /\ ~cmd.opt_e /\ cmd.opt_s ->
         {<<Output(input, ".s"), Object(input)[2]>>}
    [] Type(input) = "c" /\ ~cmd.opt_e /\ ~cmd.opt_s /\ cmd.opt_c ->
         {<<Output(input, ".o"), Object(input)>>}
    [] OTHER -> {}

\* Without such an option every input is to be linked, in the order given.
Linking == ~(cmd.opt_e \/ cmd.opt_s \/ cmd.opt_c)
Objects == [n \in DOMAIN cmd.inputs |-> Object(cmd.inputs[n])]

\* The command lines the code does not do as asked: it assembles an .s input where
\* it should link, and never gives the object to the linker.
LeftOut == Linking /\ \E n \in DOMAIN cmd.inputs : Type(cmd.inputs[n]) = "asm"

\* Every file the run writes or reads has a name of its own.
NamesDiffer ==
  LET named(n) == {p[1] : p \in Promised(cmd.inputs[n])} \cup {Source(cmd.inputs[n])}
      links == Linking \/ \E n \in DOMAIN cmd.inputs : IsLinkerInput(cmd.inputs[n])
  IN  /\ \A m, n \in DOMAIN cmd.inputs : m # n => named(m) \cap named(n) = {}
      /\ links => \A n \in DOMAIN cmd.inputs : LinkOutput \notin named(n)

\* Exit status 0 means that every output asked for is there, made in this run
\* from its own source, and the executable from all the inputs in order; no
\* failure of a child goes unnoticed and no older output passes for a new one.
CompleteOnSuccess ==
  status = "ok" /\ NamesDiffer /\ ~LeftOut =>
    /\ \A n \in DOMAIN cmd.inputs : \A p \in Promised(cmd.inputs[n]) : Content(p[1]) = p[2]
    /\ Linking => Content(LinkOutput) = <<"exe", Objects>>

\* However run returns, no temporary file is left.  (When a child fails,
\* process::exit skips the destructors and they are.)
TmpfilesRemoved ==
  status \in {"ok", "error"} => \A p \in DOMAIN fs : p[1] # "tmp"
=============================================================================
