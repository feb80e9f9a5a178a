--------------------------------- MODULE Efs ---------------------------------
(***************************************************************************)
(* qefs: the file system of the modem, reached through the diagnostic port *)
(* (qefs.c, efsio.c). Listings walk the tree with directory handles of the *)
(* modem, files are read and written in blocks through a descriptor, the   *)
(* dump is a stream the modem hands out page by page.                      *)
(*                                                                         *)
(* One behaviour is a sequence of runs against one modem. Handles and      *)
(* descriptors belong to the modem and outlive a run that is killed.       *)
(***************************************************************************)
EXTENDS Integers, FiniteSets, SequencesExt

CONSTANTS
    Nodes, Root,  \* the paths that occur, and /
    Parent,       \* the directory of a node; Root is its own
    Order,        \* the nodes but Root, each directory with all that is in it before its next neighbour
    NoNode,       \* in place of a node: none
    Trees,        \* what may exist: functions Nodes -> "none", "dir", "file"
    Sizes,        \* sizes of the files that exist, in blocks of 512 bytes
    LocalSize,    \* size of the file that is written with -wf
    NewFile,      \* directory -> the node named like the local file in it
    Pages,        \* pages of an EFS dump
    MaxDir,       \* directory handles of the modem
    MaxFd,        \* descriptors of the modem
    Closed,       \* 9: handles that main() closes before it starts
    Commands,     \* the command lines: operation, path, -r, path ends in a slash
    MaxRuns,      \* bound: runs of the program
    MaxFails      \* bound: requests that get no proper answer

Cmds == {"ld", "lt", "ll", "lf", "lm", "gf", "wf", "ef", "ed", "md", "be"}

ASSUME ConstantsAssumption ==
    /\ Root \in Nodes /\ NoNode \notin Nodes /\ Parent \in [Nodes -> Nodes]
    /\ Parent[Root] = Root /\ IsFiniteSet(Nodes)
    /\ Trees \subseteq [Nodes -> {"none", "dir", "file"}]
    /\ \A t \in Trees : t[Root] = "dir" /\ \A n \in Nodes : t[n] # "none" => t[Parent[n]] = "dir"
    /\ Sizes \subseteq Nat /\ LocalSize \in Nat /\ Closed \in Nat
    /\ NewFile \in [Nodes -> Nodes]
    /\ {MaxDir, MaxFd, Pages, MaxRuns} \subseteq Nat \ {0} /\ Closed >= MaxDir
    /\ Commands \subseteq [cmd: Cmds, node: Nodes, r: BOOLEAN, slash: BOOLEAN]
    /\ MaxFails \in Nat

\* The nodes above x: those in every set that holds the directory of x and with each node its own.
Above(x) ==
    {y \in Nodes : \A S \in SUBSET Nodes :
        Parent[x] \in S /\ (\A z \in S : Parent[z] \in S) => y \in S}
Depth(x) == Cardinality(Above(x) \cup {x})
\* The place of a node in Order.
Place(x) == CHOOSE i \in DOMAIN Order : Order[i] = x

ASSUME OrderAssumption ==
    /\ Order \in Seq(Nodes)
    /\ \A c \in Nodes \ {Root} : \E i \in DOMAIN Order : Order[i] = c
    /\ \A c \in Nodes \ {Root} : Parent[c] # Root => Place(Parent[c]) < Place(c)
    /\ \A a, c, x \in Nodes \ {Root} :
          Parent[a] = Parent[c] /\ Place(a) < Place(c) /\ a \in Above(x) => Place(x) < Place(c)

VARIABLES
    run, pc, opt,
    n,            \* the handle that is being closed; the block or page in hand
    stack,        \* the activations of show_tree() or show_files()
    listed,       \* what has been printed
    target,       \* the file -wf writes to
    size,         \* fi.size, filesize
    fd,           \* the descriptor
    fbuf,         \* the file buffer
    saved,        \* the output file, <<>> if none was written
    kind, data,   \* the file system of the modem: what exists and its blocks
    dirs,         \* its directory handles
    fds,          \* its descriptors
    image,        \* it hands out a dump
    gone,         \* the device has disappeared
    fails,
    clean         \* history: every request of this run was answered

host  == <<run, opt>>
files == <<kind, data>>
modem == <<kind, data, dirs, fds, image>>
vars  == <<run, pc, opt, n, stack, listed, target, size, fd, fbuf, saved, kind, data,
           dirs, fds, image, gone, fails, clean>>

Ended == {"done", "killed"}
Lists == {"ld", "lt", "ll", "lf", "lm"}

\* What directory d holds in tree t, and the number under which c is listed in its directory.
Entries(t, d) == {c \in Nodes \ {Root} : Parent[c] = d /\ t[c] # "none"}
Number(t, c) == Cardinality({a \in Entries(t, Parent[c]) : Place(a) <= Place(c)})
\* Block k of a file, told apart by where it was written first.
Blocks(x, s) == [k \in 1 .. s |-> [of |-> x, k |-> k]]
Local == Blocks(NoNode, LocalSize)

-----------------------------------------------------------------------------
(* send_efs_cmd(). A request without an answer, or with a packet that is    *)
(* not one, may have been carried out; the response structure stays as is.  *)

Answered == ~gone /\ UNCHANGED <<gone, fails, clean>>
Lost ==
    /\ ~gone /\ fails < MaxFails /\ fails' = fails + 1
    /\ clean' = FALSE /\ UNCHANGED gone
Silent == gone /\ clean' = FALSE /\ UNCHANGED <<gone, fails>>
Failed == Lost \/ Silent

-----------------------------------------------------------------------------
InitRun ==
    /\ pc = "close" /\ opt \in Commands
    /\ n = 1 /\ stack = <<>> /\ listed = <<>> /\ target = NoNode /\ size = 0 /\ fd = 0
    /\ fbuf = <<>> /\ saved = <<>> /\ clean = TRUE

Init ==
    /\ run = 1 /\ gone = FALSE /\ fails = 0
    /\ kind \in Trees
    /\ \E s \in Sizes :
         data = [x \in Nodes |-> IF kind[x] = "file" THEN Blocks(x, s) ELSE <<>>]
    /\ dirs = [h \in 1 .. MaxDir |-> NoNode] /\ fds = [h \in 1 .. MaxFd |-> NoNode]
    /\ image = FALSE
    /\ InitRun

\* The program is started again, the modem plugged in again and restarted if it
\* was unplugged.
StartRun ==
    /\ pc \in Ended /\ run < MaxRuns
    /\ run' = run + 1 /\ pc' = "close" /\ opt' \in Commands
    /\ n' = 1 /\ stack' = <<>> /\ listed' = <<>> /\ target' = NoNode /\ size' = 0
    /\ fd' = 0 /\ fbuf' = <<>> /\ saved' = <<>> /\ clean' = TRUE
    /\ gone' = FALSE
    /\ IF gone THEN /\ dirs' = [h \in DOMAIN dirs |-> NoNode]
                    /\ fds' = [h \in DOMAIN fds |-> NoNode] /\ image' = FALSE
               ELSE UNCHANGED <<dirs, fds, image>>
    /\ UNCHANGED <<files, fails>>

\* Close all open directory handles, then go to work.
Work ==
    CASE opt.cmd \in Lists         -> "stat"
      [] opt.cmd \in {"gf", "wf"}  -> "close1"
      [] opt.cmd = "be"            -> "prep"
      [] OTHER                     -> "change"
Closes(h) == dirs' = [x \in DOMAIN dirs |-> IF x = h THEN NoNode ELSE dirs[x]]
\* A request to close directory handle h.
CloseDir(h) ==
    \/ (Answered \/ Lost) /\ Closes(h)
    \/ Failed /\ UNCHANGED dirs
CloseHandlesFrom(first) ==
    /\ pc = "close"
    /\ IF n > Closed THEN pc' = Work /\ n' = 1 /\ UNCHANGED <<dirs, gone, fails, clean>>
       ELSE /\ n' = n + 1 /\ UNCHANGED pc
            /\ CloseDir(IF n >= first THEN n ELSE 0)
    /\ UNCHANGED <<host, stack, listed, target, size, fd, fbuf, saved, files, fds, image>>
\* Mutant: the handles are counted from 2.
CloseHandlesLate == CloseHandlesFrom(2)
CloseHandles == CloseHandlesFrom(1)

-----------------------------------------------------------------------------
(* Listings. An activation: its directory, whether the path made for it     *)
(* names it, nfile, dirp, and the subdirectories seen.                      *)

Top == stack[1]
Frame(d, named) == [dir |-> d, named |-> named, at |-> 1, dirp |-> 0, todo |-> <<>>]
SetTop(f) == <<f>> \o Tail(stack)
Free == {h \in DOMAIN dirs : dirs[h] = NoNode}
\* The path of an entry is the path of its directory and the name, put together
\* with a slash between them by show_files in full mode only.
NamesEntries == opt.cmd \in {"lf", "lm"} \/ opt.slash \/ Len(stack) > 1

StatList ==
    /\ pc = "stat"
    /\ \/ /\ Answered
          /\ IF kind[opt.node] = "dir" THEN pc' = "opendir" /\ stack' = <<Frame(opt.node, TRUE)>>
                                       ELSE pc' = "done" /\ UNCHANGED stack
       \/ Failed /\ pc' = "done" /\ UNCHANGED stack
    /\ UNCHANGED <<host, n, listed, target, size, fd, fbuf, saved, modem>>

\* The caller goes on: show_tree opens its directory again, the others go on
\* reading or take the next subdirectory.
Return ==
    /\ stack' = Tail(stack)
    /\ pc' = IF Len(stack) = 1 THEN "done"
             ELSE CASE opt.cmd \in {"ld", "lt"} -> "reopen"
                    [] opt.cmd = "ll"           -> "readdir"
                    [] opt.cmd \in {"lf", "lm"} -> "subdirs"

\* A request to open directory d, which gives handle h or 0.
OpenDir(d, ok, h) ==
    \/ /\ Answered
       /\ IF ok /\ Free # {} THEN h = Min(Free) /\ dirs' = [dirs EXCEPT ![h] = d]
                            ELSE h = 0 /\ UNCHANGED dirs
    \/ Lost /\ h = 0 /\ ok /\ Free # {} /\ dirs' = [dirs EXCEPT ![Min(Free)] = d]
    \/ Failed /\ h = 0 /\ UNCHANGED dirs

\* Opening for the first time: without a handle the directory is passed over.
Opendir ==
    /\ pc = "opendir"
    /\ \E h \in 0 .. MaxDir :
          /\ OpenDir(Top.dir, Top.named, h)
          /\ IF h = 0 THEN Return
                      ELSE stack' = SetTop([Top EXCEPT !.dirp = h]) /\ pc' = "readdir"
    /\ UNCHANGED <<host, n, listed, target, size, fd, fbuf, saved, files, fds, image>>

\* Opening again after a subdirectory: the handle is not looked at.
Reopen ==
    /\ pc = "reopen" /\ pc' = "readdir"
    /\ \E h \in 0 .. MaxDir :
          OpenDir(Top.dir, TRUE, h) /\ stack' = SetTop([Top EXCEPT !.dirp = h])
    /\ UNCHANGED <<host, n, listed, target, size, fd, fbuf, saved, files, fds, image>>

\* The entry nfile stands for, none behind the last one or with a bad handle.
Entry ==
    LET here == {c \in Entries(kind, dirs[Top.dirp]) : Number(kind, c) = Top.at}
    IN IF Top.dirp \in DOMAIN dirs /\ here # {} THEN CHOOSE c \in here : TRUE ELSE NoNode
Printed == ~(opt.cmd = "ld" /\ kind[Entry] # "dir")
Enters == kind[Entry] = "dir" /\ (opt.cmd \in {"ld", "lt"} \/ (opt.cmd = "ll" /\ opt.r))
\* Mutant: the numbering starts again in a directory that is opened again.
AdvancedAnew(f) == [f EXCEPT !.at = IF opt.cmd = "lt" THEN 1 ELSE @ + 1]
\* nfile goes on to the next entry (bound: behind every entry there can be).
LastNumber == Cardinality(Nodes) + MaxFails
Advanced(f) == [f EXCEPT !.at = IF @ < LastNumber THEN @ + 1 ELSE @]

\* An entry that cannot be read is passed over, as often as it takes.
SkipEntry ==
    /\ pc = "readdir" /\ Failed
    /\ stack' = SetTop(Advanced(Top))
    /\ UNCHANGED <<host, pc, n, listed, target, size, fd, fbuf, saved, modem>>

ReadEntry ==
    /\ pc = "readdir" /\ Answered /\ Entry # NoNode
    /\ listed' = IF Printed THEN Append(listed, Entry) ELSE listed
    /\ LET f == IF kind[Entry] = "dir" THEN [Top EXCEPT !.todo = Append(@, Entry)] ELSE Top
       IN  /\ stack' = IF Enters /\ opt.cmd = "ll"
                       THEN <<Frame(Entry, NamesEntries), Advanced(f)>> \o Tail(stack)
                       ELSE SetTop(Advanced(f))
           /\ pc' = IF ~Enters THEN "readdir"
                    ELSE IF opt.cmd = "ll" THEN "opendir" ELSE "closedir"
    /\ UNCHANGED <<host, n, target, size, fd, fbuf, saved, modem>>

\* show_tree closes its directory before it enters another one.
Descend ==
    /\ pc = "closedir" /\ pc' = "opendir"
    /\ stack' = <<Frame(Last(Top.todo), NamesEntries)>> \o stack
    /\ CloseDir(Top.dirp)
    /\ UNCHANGED <<host, n, listed, target, size, fd, fbuf, saved, files, fds, image>>

\* Mutant: the numbers go on behind the last entry.
EndOfListMissed ==
    /\ pc = "readdir" /\ Answered /\ Entry = NoNode /\ stack' = SetTop(Advanced(Top))
    /\ UNCHANGED <<host, pc, n, listed, target, size, fd, fbuf, saved, modem>>
EndOfList ==
    /\ pc = "readdir" /\ Answered /\ Entry = NoNode /\ pc' = "leave"
    /\ UNCHANGED <<host, n, stack, listed, target, size, fd, fbuf, saved, modem>>

LeaveTo ==
    IF (opt.cmd = "lf" /\ opt.r) \/ opt.cmd = "lm"
    THEN pc' = "subdirs" /\ UNCHANGED stack ELSE Return
Leave ==
    /\ pc = "leave" /\ CloseDir(Top.dirp) /\ LeaveTo
    /\ UNCHANGED <<host, n, listed, target, size, fd, fbuf, saved, files, fds, image>>

\* show_files goes through the subdirectories when its own directory is closed.
Subdirs ==
    /\ pc = "subdirs"
    /\ IF Top.todo = <<>> THEN Return
       ELSE /\ pc' = "opendir"
            /\ stack' = <<Frame(Head(Top.todo), NamesEntries), [Top EXCEPT !.todo = Tail(@)]>> \o Tail(stack)
    /\ UNCHANGED <<host, n, listed, target, size, fd, fbuf, saved, modem, gone, fails,
                   clean>>

-----------------------------------------------------------------------------
(* One request: unlink, rmdir, mkdir.                                       *)

Changed ==
    LET x == opt.node
    IN  CASE opt.cmd = "ef" /\ kind[x] = "file" -> [kind EXCEPT ![x] = "none"]
          [] opt.cmd = "ed" /\ kind[x] = "dir" /\ x # Root /\ Entries(kind, x) = {} ->
               [kind EXCEPT ![x] = "none"]
          [] opt.cmd = "md" /\ kind[x] = "none" /\ kind[Parent[x]] = "dir" ->
               [kind EXCEPT ![x] = "dir"]
          [] OTHER -> kind
Change ==
    /\ pc = "change" /\ pc' = "done"
    /\ \/ /\ Answered \/ Lost
          /\ kind' = Changed
          /\ data' = [x \in Nodes |-> IF Changed[x] = "file" THEN data[x] ELSE <<>>]
       \/ Failed /\ UNCHANGED files
    /\ UNCHANGED <<host, n, stack, listed, target, size, fd, fbuf, saved, dirs, fds, image>>

-----------------------------------------------------------------------------
(* Files: readfile() and get_file(), write_file().                          *)

FreeFd == {h \in DOMAIN fds : fds[h] = NoNode}
CloseFd(h) ==
    \/ /\ Answered \/ Lost
       /\ fds' = [x \in DOMAIN fds |-> IF x = h THEN NoNode ELSE fds[x]]
    \/ Failed /\ UNCHANGED fds

AfterClose1 == IF opt.cmd = "gf" THEN "getstat" ELSE "putstat"
CloseFirst ==
    /\ pc = "close1" /\ CloseFd(1) /\ pc' = AfterClose1
    /\ UNCHANGED <<host, n, stack, listed, target, size, fd, fbuf, saved, files, dirs, image>>

\* Without an answer the size is what the stack holds.
GetStat ==
    /\ pc = "getstat"
    /\ \/ Answered /\ size' = IF kind[opt.node] = "file" THEN Len(data[opt.node]) ELSE 0
       \/ Failed /\ size' \in 0 .. Max(Sizes) + 1
    /\ pc' = IF size' = 0 THEN "done" ELSE "getopen"
    /\ UNCHANGED <<host, n, stack, listed, target, fd, fbuf, saved, modem>>

GetOpen ==
    /\ pc = "getopen"
    /\ LET ok == kind[opt.node] = "file" /\ FreeFd # {}
           opened == fds' = [fds EXCEPT ![Min(FreeFd)] = opt.node]
       IN  \/ Answered /\ ok /\ opened /\ fd' = Min(FreeFd) /\ pc' = "read"
           \/ Answered /\ ~ok /\ pc' = "done" /\ UNCHANGED <<fd, fds>>
           \/ Lost /\ ok /\ opened /\ pc' = "done" /\ UNCHANGED fd
           \/ Failed /\ pc' = "done" /\ UNCHANGED <<fd, fds>>
    /\ UNCHANGED <<host, n, stack, listed, target, size, fbuf, saved, files, dirs, image>>

\* Mutant: the loop stops one block early.
ReadEndsEarly == n + 1 >= size
ReadEnds == n >= size
\* A block that cannot be read ends readfile() with the descriptor open.
ReadBlock ==
    /\ pc = "read"
    /\ \/ /\ Answered /\ n <= Len(data[opt.node])
          /\ fbuf' = Append(fbuf, data[opt.node][n])
          /\ n' = n + 1 /\ pc' = IF ReadEnds THEN "getclose" ELSE "read"
       \/ /\ (Answered /\ n > Len(data[opt.node])) \/ Failed
          /\ pc' = "done" /\ UNCHANGED <<fbuf, n>>
    /\ UNCHANGED <<host, stack, listed, target, size, fd, saved, modem>>

GetClose ==
    /\ pc = "getclose" /\ CloseFd(fd)
    /\ pc' = "done" /\ saved' = fbuf
    /\ UNCHANGED <<host, n, stack, listed, target, size, fd, fbuf, files, dirs, image>>

\* The file is not looked for in a directory, nor anywhere without an answer.
PutStat ==
    /\ pc = "putstat"
    /\ \/ /\ Answered
          /\ target' = IF kind[opt.node] = "dir" THEN NewFile[opt.node] ELSE opt.node
          /\ pc' = IF kind[opt.node] = "file" THEN "done" ELSE "putopen"
       \/ Failed /\ target' = opt.node /\ pc' = "putopen"
    /\ fbuf' = Local /\ size' = LocalSize
    /\ UNCHANGED <<host, n, stack, listed, fd, saved, modem>>

PutOpen ==
    /\ pc = "putopen"
    /\ LET ok == kind[target] # "dir" /\ kind[Parent[target]] = "dir" /\ FreeFd # {}
           opened == /\ fds' = [fds EXCEPT ![Min(FreeFd)] = target]
                     /\ kind' = [kind EXCEPT ![target] = "file"]
       IN  \/ /\ Answered /\ ok /\ opened /\ fd' = Min(FreeFd)
              /\ pc' = IF size = 0 THEN "putclose" ELSE "write"
           \/ Answered /\ ~ok /\ pc' = "done" /\ UNCHANGED <<fd, fds, kind>>
           \/ Lost /\ ok /\ opened /\ pc' = "done" /\ UNCHANGED fd
           \/ Failed /\ pc' = "done" /\ UNCHANGED <<fd, fds, kind>>
    /\ UNCHANGED <<host, n, stack, listed, target, size, fbuf, saved, data, dirs, image>>

Hole == [of |-> NoNode, k |-> 0]
\* The blocks of file x with block n of the buffer written to its place.
Written(x) ==
    [k \in 1 .. Max({n, Len(data[x])}) |->
       IF k = n THEN fbuf[n] ELSE IF k <= Len(data[x]) THEN data[x][k] ELSE Hole]
\* What efs_write() returns is not looked at.
WriteBlock ==
    /\ pc = "write"
    /\ \/ (Answered \/ Lost) /\ data' = [data EXCEPT ![target] = Written(target)]
       \/ Failed /\ UNCHANGED data
    /\ n' = n + 1 /\ pc' = IF n = size THEN "putclose" ELSE "write"
    /\ UNCHANGED <<host, stack, listed, target, size, fd, fbuf, saved, kind, dirs, fds, image>>

PutClose ==
    /\ pc = "putclose" /\ CloseFd(fd) /\ pc' = "done"
    /\ UNCHANGED <<host, n, stack, listed, target, size, fd, fbuf, saved, files, dirs, image>>

-----------------------------------------------------------------------------
(* back_efs(): the answer to a read holds the page and the place of the     *)
(* next one, which the following request sends back.                        *)

Prepare ==
    /\ pc = "prep"
    /\ \/ Answered /\ pc' = "begin"
       \/ Failed /\ pc' = "done"
    /\ UNCHANGED <<host, n, stack, listed, target, size, fd, fbuf, saved, modem>>
Begin ==
    /\ pc = "begin"
    /\ \/ Answered /\ image' = TRUE /\ pc' = "page"
       \/ Lost /\ image' = TRUE /\ pc' = "done"
       \/ Failed /\ UNCHANGED image /\ pc' = "done"
    /\ UNCHANGED <<host, n, stack, listed, target, size, fd, fbuf, saved, files, dirs, fds>>
DumpEnds == n > Pages
\* A page that cannot be read ends the dump as it is, and the modem stays in
\* its mode.
ReadPage ==
    /\ pc = "page"
    /\ \/ /\ Answered
          /\ IF DumpEnds THEN pc' = "end" /\ UNCHANGED <<n, saved>>
             ELSE saved' = Append(saved, n) /\ n' = n + 1 /\ UNCHANGED pc
       \/ Failed /\ pc' = "done" /\ UNCHANGED <<n, saved>>
    /\ UNCHANGED <<host, stack, listed, target, size, fd, fbuf, modem>>
EndImage ==
    /\ pc = "end" /\ pc' = "done"
    /\ \/ (Answered \/ Lost) /\ image' = FALSE
       \/ Failed /\ UNCHANGED image
    /\ UNCHANGED <<host, n, stack, listed, target, size, fd, fbuf, saved, files, dirs, fds>>

-----------------------------------------------------------------------------
Step ==
    \/ CloseHandles
    \/ StatList \/ Opendir \/ ReadEntry \/ SkipEntry \/ Descend \/ Reopen
    \/ EndOfList \/ Leave \/ Subdirs
    \/ Change
    \/ CloseFirst \/ GetStat \/ GetOpen \/ ReadBlock \/ GetClose
    \/ PutStat \/ PutOpen \/ WriteBlock \/ PutClose
    \/ Prepare \/ Begin \/ ReadPage \/ EndImage

\* The program is stopped, or stops by itself: a write request is longer than the
\* buffer it is put together in (efsio.c:41, 47).
Kill ==
    /\ pc \notin Ended /\ pc' = "killed"
    /\ UNCHANGED <<host, n, stack, listed, target, size, fd, fbuf, saved, modem, gone,
                   fails, clean>>
Unplug ==
    /\ ~gone /\ gone' = TRUE
    /\ UNCHANGED <<host, pc, n, stack, listed, target, size, fd, fbuf, saved, modem,
                   fails, clean>>
Finished == pc \in Ended /\ run = MaxRuns /\ UNCHANGED vars

Next == Step \/ Kill \/ Unplug \/ StartRun \/ Finished
Spec == Init /\ [][Next]_vars /\ WF_vars(Step)

-----------------------------------------------------------------------------
\* Whether the command line asks for object x (qefs.c:202-351).
Asked(x) ==
    /\ x # Root /\ kind[x] # "none" /\ (opt.cmd = "ld" => kind[x] = "dir")
    /\ IF opt.cmd \in {"ld", "lt", "lm"} \/ opt.r THEN opt.node \in Above(x) /\ x # opt.node
       ELSE Parent[x] = opt.node
\* show_files holds a handle for every directory it is in while it makes the
\* short list; there must be that many.
Reaches ==
    (opt.cmd = "ll" /\ opt.r) =>
        \A x \in Nodes : Asked(x) /\ kind[x] = "dir" => Depth(x) - Depth(opt.node) < MaxDir

\* A listing shows no object twice, whatever happens to the requests, and the trees and the short
\* list keep the order of the directories, each followed by what is in it. If all requests were answered, it shows
\* every object asked for and no other (show_tree, show_files, qefs.c:202-351). The path of the start
\* directory ends in a slash, or -lf or -lm was given.
ListingExact ==
    /\ IsInjective(listed)
    /\ opt.cmd \in {"ld", "lt", "ll"} =>
          \A i, j \in DOMAIN listed : i < j => Place(listed[i]) < Place(listed[j])
    /\ (pc = "done" /\ clean /\ opt.cmd \in Lists /\ kind[opt.node] = "dir" /\ Reaches
        /\ (opt.slash \/ opt.cmd \in {"lf", "lm"})) =>
          ToSet(listed) = {x \in Nodes : Asked(x)}

\* When work starts and every handle was closed with an answer, the modem has all
\* its directory handles free, whatever earlier runs left open, and when the run
\* ends with every request answered they are free again (qefs.c:254, 341).
HandlesReturned ==
    clean /\ pc \in {"stat", "close1", "prep", "change", "done"} => Free = DOMAIN dirs

\* A run that is stopped or that gives up leaves its descriptor open. The next
\* one closes descriptor 1, so those above it are lost one by one only to requests
\* that had no answer (qefs.c:362, 407).
LeaksBounded == Cardinality({h \in DOMAIN fds : h > 1 /\ fds[h] # NoNode}) <= fails

\* The modem does not run out of handles (qefs.c:782, efsio.c:115).
HandlesKept == HandlesReturned /\ LeaksBounded

\* What is saved of a file or a dump is a beginning of it, and all of it when every
\* request was answered; then the modem has left its dump mode (qefs.c:45, 356, 481).
CopyExact ==
    LET whole == IF opt.cmd = "be" THEN [k \in 1 .. Pages |-> k] ELSE data[opt.node]
    IN  /\ IsPrefix(saved, whole)
        /\ pc = "done" /\ clean /\ opt.cmd = "be" => saved = whole /\ ~image
        /\ pc = "done" /\ clean /\ opt.cmd = "gf" /\ fd # 0 => saved = whole

\* A file that was written with every request answered begins with the local file,
\* block for block; what follows are blocks it had before (qefs.c:437-448).
PutExact ==
    pc = "done" /\ clean /\ opt.cmd = "wf" /\ fd # 0 =>
        /\ IsPrefix(Local, data[target])
        /\ \A k \in LocalSize + 1 .. Len(data[target]) :
              data[target][k] \in {[of |-> target, k |-> k], Hole}

\* Files and dumps are carried over whole, in both directions (qefs.c:45, 356, 437).
CopiesExact == CopyExact /\ PutExact

\* Every run comes to its end, or to the end of the connection: a listing of a
\* modem that is gone reads on for ever (qefs.c:221-224, 286-290).
RunEnds == pc \notin Ended ~> (pc \in Ended \/ gone)
=============================================================================
