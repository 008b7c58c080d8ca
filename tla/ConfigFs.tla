------------------------------- MODULE ConfigFs -------------------------------
(***************************************************************************)
(* The file functions of config_fs.c on the SD card: recursive removal and *)
(* listing, directories made level by level, and configuration files.  A   *)
(* step is a call of the file system, which may fail; the recursion is a   *)
(* stack of frames; the power may be cut between two steps.                *)
(*                                                                         *)
(* A path is the sequence of its components below the mount point <<>>;    *)
(* paths are shorter than the buffers that hold them.                      *)
(***************************************************************************)
EXTENDS Naturals, Sequences, FiniteSets

CONSTANTS
  Component,  \* the names paths are made of
  Path,       \* the paths there may be
  CONFIGS,    \* those of configuration files
  IMAGES,     \* the two directories config_fs_init makes
  STAGING,
  Faults      \* file system calls that may fail, see FaultKind

\* "full": fs_write writes less than it is told; "cut": the power.
FaultKind == {"opendir", "readdir", "unlink", "mkdir", "open", "write", "full",
              "close", "cut"}

Front(p) == SubSeq(p, 1, Len(p) - 1)

Prefix(p, k) == SubSeq(p, 1, k)

Under(p) == {q \in Path : Len(q) >= Len(p) /\ Prefix(q, Len(p)) = p}

ASSUME PathAssumption ==
  /\ Path \subseteq Seq(Component) \ {<<>>}
  /\ \A p \in Path : Len(p) > 1 => Front(p) \in Path
  /\ CONFIGS \subseteq Path
  /\ {IMAGES, STAGING} \subseteq Path

ASSUME FaultsAssumption == Faults \subseteq FaultKind

VARIABLES
  tree,      \* "none", "dir", or a file: "partial" (content lacks) or "whole"
  op,        \* the function called ("rm", "ls", "mkdir", "write", "init") or "idle"
  target,    \* its argument
  stack,     \* the active calls of fs_rm_rf or lsdir_recursive
  dirs,      \* arguments of the calls of mkdir_dir to come
  level,     \* levels of the first one that are made
  handles,   \* open directories and files
  ret,       \* 0 or an error
  last,      \* the function that returned last
  count,     \* what fs_write returned: "all", "short", "error", or "none" yet
  before,    \* history: what was at the target when the call began
  lost       \* history: a short fs_write or a failed fs_close lost content

write_vars == <<count, before, lost>>
call_vars == <<op, target, last, write_vars>>
vars == <<tree, stack, dirs, level, handles, ret, call_vars>>

IsDir(p) == p \in {<<>>} \cup {q \in Path : tree[q] = "dir"}

Children(p) == {q \in Path : Front(q) = p /\ tree[q] # "none"}

MayFail(call) == call \in Faults

(***************************************************************************)
(* fs_rm_rf and lsdir_recursive                                            *)
(***************************************************************************)

NewFrame(p) == [path |-> p, pc |-> "open", seen |-> {}]

Top == stack[Len(stack)]

At(f, pc) == op = f /\ stack # <<>> /\ Top.pc = pc

SetTop(frame) == stack' = [stack EXCEPT ![Len(stack)] = frame]

\* The outermost return ends the operation.
Return(r) ==
  /\ ret' = r
  /\ stack' = Front(stack)
  /\ op' = IF Len(stack) = 1 THEN "idle" ELSE op
  /\ last' = op

InRecursion == UNCHANGED <<target, dirs, level, write_vars>>

OpenDir ==
  /\ op \in {"rm", "ls"} /\ At(op, "open")
  /\ \/ /\ IsDir(Top.path)
        /\ SetTop([Top EXCEPT !.pc = "read", !.seen = {}])
        /\ handles' = handles + 1
        /\ UNCHANGED <<op, ret, last>>
     \/ /\ IsDir(Top.path) => MayFail("opendir")
        /\ Return("error")
        /\ UNCHANGED handles
  /\ InRecursion /\ UNCHANGED tree

\* Fault: ".." is taken for an entry like any other.
EntriesAndParent(p) == Children(p) \cup ({Front(p)} \cap Path)

\* "." and ".." are skipped.
Entries(p) == Children(p)

Unread == Entries(Top.path) \ Top.seen

\* Fault: the handle stays open during the recursion.
KeepsOpen == handles

ClosedBefore == handles - 1

\* fs_closedir, then the call for the subdirectory.
RemoveSubdir ==
  /\ At("rm", "read")
  /\ \E q \in Unread :
       /\ tree[q] = "dir"
       /\ stack' = Append([stack EXCEPT ![Len(stack)].pc = "called"], NewFrame(q))
  /\ handles' = ClosedBefore
  /\ InRecursion /\ UNCHANGED <<tree, op, ret, last>>

\* A file that cannot be unlinked is left for the end.
RemoveFile ==
  /\ At("rm", "read")
  /\ \E q \in Unread :
       /\ tree[q] \in {"partial", "whole"}
       /\ \/ tree' = [tree EXCEPT ![q] = "none"]
          \/ MayFail("unlink") /\ UNCHANGED tree
       /\ SetTop([Top EXCEPT !.seen = @ \cup {q}])
  /\ InRecursion /\ UNCHANGED <<op, handles, ret, last>>

\* Fault: a failed subdirectory does not end the loop.
GoesOn(r) == FALSE

GivesUp(r) == r # "0"

\* An error is handed up, else the directory is opened again from its start.
SubdirRemoved ==
  /\ At("rm", "called")
  /\ \/ GivesUp(ret) /\ Return(ret)
     \/ ~GivesUp(ret) /\ SetTop([Top EXCEPT !.pc = "open"]) /\ UNCHANGED <<op, ret, last>>
  /\ InRecursion /\ UNCHANGED <<tree, handles>>

\* Fault: the result of the last call of fs_readdir is returned.
ReturnsReaddir(unlinked) == "0"

ReturnsUnlink(unlinked) == IF unlinked THEN "0" ELSE "error"

\* The end of the directory, or an error of fs_readdir: fs_closedir, fs_unlink.
RemoveDir ==
  /\ At("rm", "read")
  /\ Unread # {} => MayFail("readdir")
  /\ handles' = handles - 1
  /\ \/ /\ Children(Top.path) = {}
        /\ tree' = [tree EXCEPT ![Top.path] = "none"]
        /\ Return(ReturnsUnlink(TRUE))
     \/ /\ Children(Top.path) = {} => MayFail("unlink")
        /\ UNCHANGED tree
        /\ Return(ReturnsUnlink(FALSE))
  /\ InRecursion

\* One handle stays open per level.
ListEntry ==
  /\ At("ls", "read")
  /\ \E q \in Unread :
       LET f == [Top EXCEPT !.seen = @ \cup {q}] IN
       \/ tree[q] # "dir" /\ SetTop(f)
       \/ /\ tree[q] = "dir"
          /\ stack' = Append([stack EXCEPT ![Len(stack)] = [f EXCEPT !.pc = "called"]],
                             NewFrame(q))
  /\ InRecursion /\ UNCHANGED <<tree, op, handles, ret, last>>

\* The result is dropped.
SubdirListed ==
  /\ At("ls", "called")
  /\ SetTop([Top EXCEPT !.pc = "read"])
  /\ InRecursion /\ UNCHANGED <<tree, op, handles, ret, last>>

ListEnds ==
  /\ At("ls", "read")
  /\ Unread # {} => MayFail("readdir")
  /\ handles' = handles - 1
  /\ Return("0")
  /\ InRecursion /\ UNCHANGED tree

(***************************************************************************)
(* mkdir_dir, write_file, config_fs_init                                   *)
(***************************************************************************)

\* One level after the other.  The mount point has no colon, so that it is the
\* first one and not skipped.
Level == Prefix(Head(dirs), level)

AtLevel == dirs # <<>> /\ level <= Len(Head(dirs))

Missing == {p \in Path : tree[p] = "none"}

\* -EEXIST, which the mount point and a file in the way give as well.
AlreadyThere(p) == p \notin Missing

CanMake(p) == AlreadyThere(p) \/ IsDir(Front(p))

Finish(r) == op' = "idle" /\ last' = op /\ ret' = r

MakeLevel ==
  /\ AtLevel
  /\ CanMake(Level)
  /\ tree' = [p \in Path |-> IF p = Level /\ p \in Missing THEN "dir" ELSE tree[p]]
  /\ level' = level + 1
  /\ UNCHANGED <<dirs, stack, handles, ret, call_vars>>

\* write_file goes on to the file; config_fs_init drops the result, goes on to
\* its next directory and returns 0.
MkdirDirReturns(r) ==
  /\ dirs' = Tail(dirs)
  /\ level' = 0
  /\ \/ op = "mkdir" /\ Finish(r)
     \/ op = "init" /\ Len(dirs) = 1 /\ Finish("0")
     \/ op = "write" /\ r # "0" /\ Finish(r)
     \/ /\ op = "write" /\ r = "0"
        /\ UNCHANGED <<op, last, ret>>
     \/ /\ op = "init" /\ Len(dirs) > 1
        /\ UNCHANGED <<op, last, ret>>
  /\ UNCHANGED <<tree, stack, handles, target, write_vars>>

MakeFails ==
  /\ AtLevel
  /\ CanMake(Level) => MayFail("mkdir")
  /\ MkdirDirReturns("error")

MakeDone ==
  /\ dirs # <<>> /\ level > Len(Head(dirs))
  /\ MkdirDirReturns("0")

\* fs_open creates or truncates.
OpenForWriting ==
  /\ op = "write" /\ dirs = <<>> /\ handles = 0
  /\ \/ /\ IsDir(Front(target)) /\ tree[target] # "dir"
        /\ tree' = [tree EXCEPT ![target] = "partial"]
        /\ handles' = 1
        /\ UNCHANGED <<op, last, ret>>
     \/ /\ IsDir(Front(target)) /\ tree[target] # "dir" => MayFail("open")
        /\ Finish("error")
        /\ UNCHANGED <<tree, handles>>
  /\ UNCHANGED <<dirs, level, stack, target, write_vars>>

\* Fault: the file is closed and 0 returned.
IgnoresError(r) == "0"

WriteResult(r) == r

\* On a full disk fs_write returns how much it has written, which is no error.
WriteContent ==
  /\ op = "write" /\ handles = 1 /\ count = "none"
  /\ \/ count' = "all"
     \/ count' = "short" /\ MayFail("full")
     \/ count' = "error" /\ MayFail("write")
  /\ lost' = (count' = "short")
  /\ UNCHANGED <<tree, dirs, level, stack, handles, ret, op, target, last, before>>

\* fs_close brings the content to the disk and frees the handle even if it
\* fails; its result is dropped.  read_file, which follows a 0, changes nothing.
CloseFile ==
  /\ op = "write" /\ handles = 1 /\ count # "none"
  /\ handles' = 0
  /\ count' = "none"
  /\ Finish(WriteResult(IF count = "error" THEN "error" ELSE "0"))
  /\ \/ /\ tree' = [tree EXCEPT ![target] = IF count = "all" THEN "whole" ELSE "partial"]
        /\ UNCHANGED lost
     \/ /\ MayFail("close")
        /\ lost' = TRUE
        /\ UNCHANGED tree
  /\ UNCHANGED <<dirs, level, stack, target, before>>

(***************************************************************************)
(* Calls and power cuts                                                    *)
(***************************************************************************)

Begin(f, p) ==
  /\ op = "idle"
  /\ op' = f /\ target' = p /\ last' = "none" /\ ret' = "none"
  /\ before' = tree[p]
  /\ lost' = FALSE
  /\ UNCHANGED <<tree, handles, level, count>>

fs_rm_rf(p) == Begin("rm", p) /\ stack' = <<NewFrame(p)>> /\ UNCHANGED dirs

lsdir_recursive(p) == Begin("ls", p) /\ stack' = <<NewFrame(p)>> /\ UNCHANGED dirs

mkdir_dir(p) == Begin("mkdir", p) /\ dirs' = <<p>> /\ UNCHANGED stack

write_config(p) == Begin("write", p) /\ dirs' = <<Front(p)>> /\ UNCHANGED stack

config_fs_init == Begin("init", IMAGES) /\ dirs' = <<IMAGES, STAGING>> /\ UNCHANGED stack

\* The tree survives.
PowerCut ==
  /\ MayFail("cut")
  /\ op # "idle"
  /\ op' = "idle" /\ last' = "none" /\ ret' = "none"
  /\ stack' = <<>> /\ dirs' = <<>> /\ level' = 0 /\ handles' = 0 /\ count' = "none"
  /\ UNCHANGED <<tree, target, before, lost>>

(***************************************************************************)
(* Specification                                                           *)
(***************************************************************************)

Init ==
  /\ tree \in [Path -> {"none", "dir", "whole"}]
  /\ \A p \in Path : tree[p] # "none" => IsDir(Front(p))
  /\ op = "idle" /\ target = IMAGES /\ last = "none" /\ ret = "none"
  /\ stack = <<>> /\ dirs = <<>> /\ level = 0 /\ handles = 0
  /\ count = "none" /\ before = "none" /\ lost = FALSE

Call ==
  \/ \E p \in Path : fs_rm_rf(p) \/ lsdir_recursive(p) \/ mkdir_dir(p)
  \/ \E p \in CONFIGS : write_config(p)
  \/ config_fs_init

Step ==
  \/ OpenDir \/ RemoveSubdir \/ RemoveFile \/ SubdirRemoved \/ RemoveDir
  \/ ListEntry \/ SubdirListed \/ ListEnds
  \/ MakeLevel \/ MakeFails \/ MakeDone \/ OpenForWriting \/ WriteContent
  \/ CloseFile

Next == Call \/ Step \/ PowerCut

Spec == Init /\ [][Next]_vars

\* A call of the file system returns.
FairSpec == Spec /\ WF_vars(Step)

(***************************************************************************)
(* Properties                                                              *)
(***************************************************************************)

Returned(f) == op = "idle" /\ last = f

\* fs_rm_rf tells the truth although it drops the errors of fs_readdir and of
\* every file it cannot unlink: it returns 0 when nothing is left of what was
\* there, and an error when something is.
RemovalVerdictIsTrue ==
  Returned("rm") => (ret = "0" <=> before # "none" /\ \A q \in Under(target) : tree[q] = "none")

\* After a 0 the file is whole, whatever an earlier call or a power cut had left
\* of it, but for the two losses nobody is told of, a short fs_write and a failed
\* fs_close (config_fs.c:785, 790, against the comment at 826): these always
\* leave half a file.  After an error it is what it was, or known to be partial.
WrittenIsWhole ==
  Returned("write") =>
    /\ ret = "0" => (tree[target] = "whole" <=> ~lost)
    /\ ret # "0" => tree[target] \in {before, "partial"}

\* Every exit closes what it opened, errors in a subdirectory included, and
\* fs_rm_rf has one directory open at most however deep it is.
HandlesAreReturned ==
  /\ op = "idle" => handles = 0
  /\ op = "rm" => handles <= 1

\* fs_rm_rf removes nothing outside its argument, and a file that is not its
\* argument is never written by write_config.
OnlyTheTargetSuffers ==
  [][\A p \in Path :
       tree[p] # "none" /\ tree'[p] # tree[p] =>
         \/ op = "rm" /\ p \in Under(target)
         \/ op = "write" /\ p = target]_vars

\* Every call returns, although fs_rm_rf starts a directory again after every
\* subdirectory and leaves files it cannot unlink where they are.
CallReturns == op # "idle" ~> op = "idle"
=============================================================================
