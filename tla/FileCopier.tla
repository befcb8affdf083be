----------------------------- MODULE FileCopier -----------------------------
(***************************************************************************)
(* FileCopier: copies files and directories from one file system to        *)
(* another.  An error handler is told of the errors and decides whether to *)
(* go on without what could not be copied.                                 *)
(*                                                                         *)
(* A call copies one thing after the other; each call of a file system     *)
(* that matters is a step.  copyDir() calls itself, so the directories on  *)
(* the way to the current one are a stack.  Directories keep their paths.  *)
(***************************************************************************)
EXTENDS SourceTree, FiniteSets

CONSTANTS
  Tags,         \* the attributes of files
  Attrs,        \* [Nodes -> sequence of the attributes of a file or directory]
  Compressed,   \* the files that are stored compressed
  Suffixed,     \* [Names -> the name with the extension of compressed files]
  NoMetadata,   \* whether the target file system may not support metadata
  Before,       \* what the target file system may hold at first
  Calls,        \* the calls of the user: of a function, with a path
  Faults,       \* the operations that may fail
  MaxFaults,    \* a bound: there are no more faults after so many in one call
  Answers,      \* what the error handler may say: go on or not
  Paths         \* the paths that the properties are about

Operations == {"open", "create", "mkdir", "read", "write", "enumattr", "setattr"}

Item == [kind : {"Directory", "File"}, size : Nat, attrs : SUBSET Tags]

Functions == {"copyDir", "copyFile", "copyAttributes"}

ASSUME CopierAssumption ==
  /\ DOMAIN Attrs = Nodes
  /\ \A n \in Nodes : Attrs[n] \in Seq(Tags)
  /\ Compressed \subseteq { n \in Nodes : Kind[n] = "File" }
  /\ Suffixed \in [Names -> Names]
  /\ NoMetadata \subseteq BOOLEAN
  /\ \A d \in Before : d \in [DOMAIN d -> Item] /\ <<>> \in DOMAIN d /\ DOMAIN d \subseteq Seq(Names)
  /\ \A c \in Calls : c.function \in Functions /\ c.path \in Seq(Names)
  /\ Faults \subseteq Operations \cup {"opendir", "readdir", "shortwrite"}
  /\ MaxFaults \in Nat
  /\ Answers \subseteq BOOLEAN
  /\ Paths \subseteq Seq(Names)

VARIABLES
  stack,     \* the calls of copyDir()
  job,       \* the call of copyFile() or copyAttributes() in progress
  result,    \* the result of the outermost call
  dst,       \* the target file system: [paths -> Item]
  dstAttr,   \* dstAttr: whether the target does not support metadata
  asked,     \* history: the outermost call
  told,      \* history: the errors the handler has been told of in this call
  declined,  \* history: the operations it declined to go on after
  silent     \* history: the paths of errors nobody was told of

vars == <<stack, job, result, dst, dstAttr, asked, told, declined, silent>>

NoJob == [phase |-> "none"]

\* The attributes of a directory are copied by a job, too.
Job(path, target, isFile) ==
  [phase |-> "source", path |-> path, target |-> target, isFile |-> isFile, next |-> 1]

Frame(path) == [path |-> path, phase |-> "opendir", open |-> FALSE, next |-> 1, todo |-> <<>>]

Current   == stack[Len(stack)]
Update(f) == stack' = [stack EXCEPT ![Len(stack)] = f]

Node(path) == Lookup(Top, path)

\* An operation fails that need not.
May(operation) ==
  operation \in Faults /\ Cardinality(told) + Cardinality(silent) < MaxFaults

(***************************************************************************)
(* Returning, and errors.                                                  *)
(***************************************************************************)

\* A job has succeeded, or its failure is ignored: its caller goes on.
Succeed ==
  /\ job' = NoJob
  /\ result' = IF stack = <<>> THEN "done" ELSE result
  /\ UNCHANGED stack

\* (mutation: the result of copyDir() is not looked at by its caller)
StopOneLevel ==
  /\ job' = NoJob
  /\ stack' = IF stack = <<>> THEN stack ELSE Front(stack)
  /\ result' = IF Len(stack) <= 1 THEN "stopped" ELSE result

\* Every caller returns false, and closes what it has opened.
Stop ==
  /\ job' = NoJob
  /\ stack' = <<>>
  /\ result' = "stopped"

\* handleError(): what the handler says.
Tell(operation, path, goOn) ==
  /\ told' = told \cup {[operation |-> operation, path |-> path]}
  /\ declined' = IF goOn THEN declined ELSE declined \cup {operation}

\* The job ends with an error.
Fail(operation, path) ==
  /\ \E goOn \in Answers :
       /\ Tell(operation, path, goOn)
       /\ IF goOn THEN Succeed ELSE Stop
  /\ UNCHANGED <<dst, dstAttr, asked, silent>>

Quiet == UNCHANGED <<dstAttr, asked, told, declined, silent>>

Proceed(j) == job' = j /\ UNCHANGED <<stack, result>>

(***************************************************************************)
(* copyFile() and copyAttributes().                                        *)
(***************************************************************************)
OpenSource ==
  /\ job.phase = "source"
  /\ \/ (Node(job.path) \notin Nodes \/ May("open")) /\ Fail("open", job.path)
     \/ /\ Node(job.path) \in Nodes
        /\ Proceed([job EXCEPT !.phase = IF job.isFile THEN "create" ELSE "target"])
        /\ UNCHANGED dst
        /\ Quiet

OpenTarget ==
  /\ job.phase = "target"
  /\ \/ (job.target \notin DOMAIN dst \/ May("open")) /\ Fail("open", job.target)
     \/ /\ job.target \in DOMAIN dst
        /\ Proceed([job EXCEPT !.phase = "attributes"])
        /\ UNCHANGED dst
        /\ Quiet

\* The target file system.
Exists(path)    == path \in DOMAIN dst
HasParent(path) == Exists(Front(path)) /\ dst[Front(path)].kind = "Directory"
CanCreate(path) ==
  IF Exists(path) THEN dst[path].kind = "File" ELSE path # <<>> /\ HasParent(path)
Store(path, item) == [p \in DOMAIN dst \cup {path} |-> IF p = path THEN item ELSE dst[p]]

NewFile(path) == [kind |-> "File", size |-> 0,
                  attrs |-> IF Exists(path) THEN dst[path].attrs ELSE {}]

CreateTarget ==
  /\ job.phase = "create"
  /\ \/ (~CanCreate(job.target) \/ May("create")) /\ Fail("create", job.target)
     \/ /\ CanCreate(job.target)
        /\ dst' = Store(job.target, NewFile(job.target))
        /\ Proceed([job EXCEPT !.phase = "data"])
        /\ Quiet

\* readContent() and its callback: a block is read and written.  That less is
\* written than was read goes unnoticed.
CopyBlock ==
  /\ job.phase = "data"
  /\ \/ May("read") /\ Fail("read", job.path)
     \/ /\ job.next <= Size[Node(job.path)]
        /\ \/ May("write") /\ Fail("write", job.target)
           \/ /\ dst' = [dst EXCEPT ![job.target].size = @ + 1]
              /\ Proceed([job EXCEPT !.next = @ + 1])
              /\ Quiet
           \/ /\ May("shortwrite")
              /\ silent' = silent \cup {job.path}
              /\ Proceed([job EXCEPT !.next = @ + 1])
              /\ UNCHANGED <<dst, dstAttr, asked, told, declined>>
     \/ /\ job.next > Size[Node(job.path)]
        /\ Proceed([job EXCEPT !.phase = "attributes", !.next = 1])
        /\ UNCHANGED dst
        /\ Quiet

\* The callback of enumAttributes(): when it returns false no more attributes are
\* enumerated, and nothing else stops.
AfterRefused(goOn) ==
  [job EXCEPT !.next = IF goOn THEN @ + 1 ELSE Len(Attrs[Node(job.path)]) + 1]

CopyAttribute ==
  LET attrs == Attrs[Node(job.path)] IN
  /\ job.phase = "attributes"
  /\ \/ May("enumattr") /\ Fail("enumattr", job.path)
     \/ /\ job.next <= Len(attrs)
        /\ \/ /\ ~dstAttr.NoMeta
              /\ dst' = [dst EXCEPT ![job.target].attrs = @ \cup {attrs[job.next]}]
              /\ Proceed([job EXCEPT !.next = @ + 1])
              /\ Quiet
           \/ /\ dstAttr.NoMeta \/ May("setattr")
              /\ \E goOn \in Answers :
                   /\ Tell("setattr", job.target, goOn)
                   /\ Proceed(AfterRefused(goOn))
              /\ UNCHANGED <<dst, dstAttr, asked, silent>>
     \/ /\ job.next > Len(attrs)
        /\ Succeed
        /\ UNCHANGED dst
        /\ Quiet

(***************************************************************************)
(* copyDir(): the files of a directory, then its directories.              *)
(***************************************************************************)
InDir(phase) == job = NoJob /\ stack # <<>> /\ Current.phase = phase

OpenDir ==
  /\ InDir("opendir")
  /\ \/ (~IsDir(Node(Current.path)) \/ May("opendir")) /\ Stop
     \/ /\ IsDir(Node(Current.path))
        /\ Update([Current EXCEPT !.phase = "entries", !.open = TRUE])
        /\ UNCHANGED <<job, result>>
  /\ UNCHANGED dst
  /\ Quiet

\* (mutation: the directory is left open until its directories are copied)
LeaveDir(f) == [f EXCEPT !.phase = "directories"]

CloseDir(f) == [f EXCEPT !.phase = "directories", !.open = FALSE]

\* (mutation: mount points are entered)
EnteredAll(kid) == <<kid.name>>

\* Mount points are not.
Entered(kid) == IF Kind[kid.node] = "Directory" THEN <<kid.name>> ELSE <<>>

\* (mutation: the extension is left out)
NoSuffix(kid) == kid.name

TargetName(kid) ==
  IF dstAttr.NoMeta /\ kid.node \in Compressed THEN Suffixed[kid.name] ELSE kid.name

NextEntry ==
  LET kids == Kids[Node(Current.path)]
      kid  == kids[Current.next]
      end  == Current.next > Len(kids)
      f    == [Current EXCEPT !.next = @ + 1]
  IN
  /\ InDir("entries")
  /\ \/ /\ end \/ May("readdir")
        /\ Update(CloseDir(Current))
        /\ silent' = IF end THEN silent ELSE silent \cup {Current.path}
        /\ UNCHANGED job
     \/ /\ ~end
        /\ IsDir(kid.node)
        /\ Update([f EXCEPT !.todo = @ \o Entered(kid)])
        /\ UNCHANGED <<job, silent>>
     \/ /\ ~end
        /\ ~IsDir(kid.node)
        /\ Update(f)
        /\ job' = Job(Append(f.path, kid.name), Append(f.path, TargetName(kid)), TRUE)
        /\ UNCHANGED silent
  /\ UNCHANGED <<result, dst, dstAttr, asked, told, declined>>

CanMkdir(path) == ~Exists(path) /\ HasParent(path)

NewDir == [kind |-> "Directory", size |-> 0, attrs |-> {}]

\* (mutation: the name is passed on, not the path)
EnterByName(path) ==
  /\ stack' = Append([stack EXCEPT ![Len(stack)].todo = Tail(@)], Frame(<<Last(path)>>))
  /\ job' = Job(path, path, FALSE)
  /\ UNCHANGED result

\* (mutation: the directory stays in the list)
EnterAgain(path) ==
  /\ stack' = Append(stack, Frame(path))
  /\ job' = Job(path, path, FALSE)
  /\ UNCHANGED result

EnterDirectory(path) ==
  /\ stack' = Append([stack EXCEPT ![Len(stack)].todo = Tail(@)], Frame(path))
  /\ job' = Job(path, path, FALSE)
  /\ UNCHANGED result

\* The time of a directory made is set apart from its attributes, errors ignored; here it
\* is one of those that copyAttributes() copies next.
NextDirectory ==
  LET path == Append(Current.path, Head(Current.todo)) IN
  /\ InDir("directories")
  /\ \/ /\ Current.todo = <<>>
        /\ stack' = Front(stack)
        /\ result' = IF Len(stack) = 1 THEN "done" ELSE result
        /\ UNCHANGED <<job, dst>>
        /\ Quiet
     \/ /\ Current.todo # <<>>
        /\ CanMkdir(path)
        /\ dst' = Store(path, NewDir)
        /\ EnterDirectory(path)
        /\ Quiet
     \/ /\ Current.todo # <<>>
        /\ ~CanMkdir(path) \/ May("mkdir")
        /\ \E goOn \in Answers :
             /\ Tell("mkdir", path, goOn)
             /\ IF goOn THEN EnterDirectory(path) ELSE Stop
        /\ UNCHANGED <<dst, dstAttr, asked, silent>>

-----------------------------------------------------------------------------
Begin(call) ==
  /\ result # "running"
  /\ result' = "running"
  /\ asked' = call
  /\ stack' = IF call.function = "copyDir" THEN <<Frame(call.path)>> ELSE <<>>
  /\ job' = Job(call.path, call.path, call.function = "copyFile")
  /\ told' = {}
  /\ declined' = {}
  /\ silent' = {}
  /\ UNCHANGED <<dst, dstAttr>>

Init ==
  /\ stack = <<>>
  /\ job = NoJob
  /\ result = "none"
  /\ dst \in Before
  /\ dstAttr \in [NoMeta : NoMetadata]
  /\ asked \in Calls
  /\ told = {}
  /\ declined = {}
  /\ silent = {}

Step == \/ OpenSource \/ OpenTarget \/ CreateTarget \/ CopyBlock \/ CopyAttribute
        \/ OpenDir \/ NextEntry \/ NextDirectory

Next == Step \/ \E call \in Calls : Begin(call)

Spec == Init /\ [][Next]_vars

\* A call that has begun goes on.
FairSpec == Spec /\ WF_vars(Step)
-----------------------------------------------------------------------------
(***************************************************************************)
(* Properties.                                                             *)
(***************************************************************************)
Jobs   == [phase : {"source", "target", "create", "data", "attributes"},
           path : Seq(Names), target : Seq(Names), isFile : BOOLEAN, next : Nat \ {0}]
Frames == [path : Seq(Names), phase : {"opendir", "entries", "directories"},
           open : BOOLEAN, next : Nat \ {0}, todo : Seq(Names)]

\* Each call of copyDir() is for a directory of the one that called it.
StackOK ==
  /\ stack \in Seq(Frames)
  /\ \A i \in 1..Len(stack) : stack[i].phase # "opendir" => Node(stack[i].path) \in Nodes
  /\ \A i \in 2..Len(stack) : Front(stack[i].path) = stack[i - 1].path

\* What a job reads from and writes to exists.
JobOK ==
  /\ job = NoJob \/ job \in Jobs
  /\ job.phase \in {"target", "create", "data", "attributes"} => Node(job.path) \in Nodes
  /\ job.phase \in {"data", "attributes"} => Exists(job.target)

StoreOK == dst \in [DOMAIN dst -> Item] /\ DOMAIN dst \subseteq Seq(Names)

HistoryOK ==
  /\ asked \in Calls
  /\ dstAttr \in [NoMeta : NoMetadata]
  /\ told \subseteq [operation : Operations, path : Seq(Names)]
  /\ declined \subseteq Operations

ResultOK ==
  /\ result \in {"none", "running", "done", "stopped"}
  /\ result # "running" => job = NoJob /\ stack = <<>>

\* The type invariant, of the copier's state and of what is known of the call.
TypeOK == StackOK /\ JobOK /\ StoreOK /\ HistoryOK /\ ResultOK

\* A path that is to be copied: mount points are left out, unless asked for.
IsWanted(path) ==
  /\ Node(path) \in Nodes
  /\ \A k \in (Len(asked.path) + 1)..Len(path) : Kind[Node(SubSeq(path, 1, k))] # "MountPoint"

InScope(path) ==
  CASE asked.function = "copyDir" -> IsPrefix(asked.path, path) /\ IsWanted(path)
    [] OTHER -> path = asked.path

\* Where it goes.
Target(path) ==
  IF asked.function = "copyDir" /\ path # asked.path /\ dstAttr.NoMeta /\ Node(path) \in Compressed
  THEN Append(Front(path), Suffixed[Last(path)]) ELSE path

Copied(path) ==
  asked.function # "copyAttributes" =>
    /\ Exists(Target(path))
    /\ dst[Target(path)].kind = (IF IsDir(Node(path)) THEN "Directory" ELSE "File")
    /\ Kind[Node(path)] = "File" => dst[Target(path)].size = Size[Node(path)]

AttributesCopied(path) ==
  Exists(Target(path)) /\ Range(Attrs[Node(path)]) \subseteq dst[Target(path)].attrs

OfAttributes == {"setattr", "enumattr"}

IsToldOf(path, operations) ==
  \/ \E t \in told : t.path \in {path, Target(path)} /\ t.operation \in operations
  \/ \E s \in silent : IsPrefix(s, path)

\* When a copy succeeds, the handler has been told of each file and directory that is
\* not as it should be, by the path of just that file or directory and not only for
\* its attributes when there is more that is missing; other than of directories that
\* could not be enumerated, and of short writes.
EveryLossIsTold ==
  result = "done" =>
    \A path \in Paths :
      InScope(path) =>
        /\ ~Copied(path) => IsToldOf(path, Operations \ OfAttributes)
        /\ ~AttributesCopied(path) => IsToldOf(path, Operations)

\* Only one directory is open, however deep the tree is.
OneDirectoryAtATime == Cardinality({ i \in 1..Len(stack) : stack[i].open }) <= 1

\* What the target holds besides what is copied stays as it is: other files of the
\* directories copied to, and what has the name of a mount point.
OthersKept ==
  [][\A path \in DOMAIN dst \cup DOMAIN dst' :
       \/ path \in DOMAIN dst /\ path \in DOMAIN dst' /\ dst'[path] = dst[path]
       \/ \E p \in Paths : InScope(p) /\ Target(p) = path]_vars

\* Once the handler has said to stop nothing more is written, and the copy does not
\* succeed; the errors of setting an attribute excepted.
RefusalStops == [][declined \ {"setattr"} # {} => dst' = dst /\ result' # "done"]_vars

\* A copy comes to its end.
Ends == result = "running" ~> result # "running"
=============================================================================
