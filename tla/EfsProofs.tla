------------------------------ MODULE EfsProofs ------------------------------
(***************************************************************************)
(* Proofs about qefs: the handles and descriptors of the modem do not run  *)
(* out, files and dumps are carried over whole, and a listing shows what   *)
(* was asked for, once and in order; for every tree, number of runs,       *)
(* kills, lost answers and unplugged devices.                              *)
(***************************************************************************)
EXTENDS Efs, CountingLemmas

ListLabels == {"stat", "opendir", "readdir", "closedir", "leave", "subdirs", "reopen"}
GetLabels == {"getstat", "getopen", "read", "getclose"}
PutLabels == {"putstat", "putopen", "write", "putclose"}
DumpLabels == {"prep", "begin", "page", "end"}

\* Activations: a sequence of records with a handle.
IsStack(s) == /\ \E S : s \in Seq(S)
              /\ \A i \in 1 .. Len(s) : "dirp" \in DOMAIN s[i]

\* Which operation is where, and what it has to work with.
OnItsWay ==
    /\ opt \in Commands /\ n \in Nat \ {0} /\ fails \in Nat
    /\ pc \in {"close", "close1", "change"} \cup ListLabels \cup GetLabels \cup PutLabels
              \cup DumpLabels \cup Ended
    /\ pc \in ListLabels => opt.cmd \in Lists
    /\ pc \in {"closedir", "reopen"} => opt.cmd \in {"ld", "lt"}
    /\ pc \in GetLabels => opt.cmd = "gf"
    /\ pc \in PutLabels => opt.cmd = "wf"
    /\ pc = "close1" => opt.cmd \in {"gf", "wf"}
    /\ pc \in DumpLabels => opt.cmd = "be"
    /\ pc = "change" => opt.cmd \in {"ef", "ed", "md"}
    /\ pc \in ListLabels \ {"stat"} => IsStack(stack) /\ Len(stack) > 0

-----------------------------------------------------------------------------
(* The stack of activations.                                                *)

LEMMA Pushed ==
  ASSUME NEW s, IsStack(s), NEW f, "dirp" \in DOMAIN f
  PROVE  /\ IsStack(<<f>> \o s) /\ Len(<<f>> \o s) = Len(s) + 1 /\ Len(s) \in Nat
         /\ (<<f>> \o s)[1] = f
         /\ \A i \in 1 .. Len(s) : (<<f>> \o s)[i + 1] = s[i]
<1>1. PICK S : s \in Seq(S)
  BY DEF IsStack
<1> DEFINE T == S \cup {f}
           t == <<f>> \o s
<1>2. s \in Seq(T) /\ <<f>> \in Seq(T)
  BY <1>1
<1>3. t \in Seq(T) /\ Len(t) = Len(s) + 1 /\ Len(s) \in Nat
  BY <1>2
<1>4. t[1] = f /\ \A i \in 1 .. Len(s) : t[i + 1] = s[i]
  BY <1>2
<1>5. \A i \in 1 .. Len(t) : "dirp" \in DOMAIN t[i]
  <2> SUFFICES ASSUME NEW i \in 1 .. Len(t) PROVE "dirp" \in DOMAIN t[i]
    OBVIOUS
  <2>1. CASE i = 1
    BY <2>1, <1>4
  <2>2. CASE i # 1
    <3>1. i - 1 \in 1 .. Len(s) /\ i = (i - 1) + 1
      BY <2>2, <1>3
    <3>2. t[i] = s[i - 1]
      BY <3>1, <1>4
    <3>3. QED
      BY <3>1, <3>2 DEF IsStack
  <2>3. QED
    BY <2>1, <2>2
<1>6. QED
  BY <1>3, <1>4, <1>5 DEF IsStack

LEMMA Popped ==
  ASSUME NEW s, IsStack(s), Len(s) > 0
  PROVE  /\ IsStack(Tail(s)) /\ Len(Tail(s)) = Len(s) - 1 /\ Len(s) \in Nat
         /\ \A i \in 1 .. Len(s) - 1 : Tail(s)[i] = s[i + 1]
<1>1. PICK S : s \in Seq(S)
  BY DEF IsStack
<1>2. Tail(s) \in Seq(S) /\ Len(Tail(s)) = Len(s) - 1 /\ Len(s) \in Nat
  BY <1>1
<1>3. \A i \in 1 .. Len(s) - 1 : Tail(s)[i] = s[i + 1]
  BY <1>1
<1>4. \A i \in 1 .. Len(Tail(s)) : "dirp" \in DOMAIN Tail(s)[i]
  BY <1>2, <1>3 DEF IsStack
<1>5. QED
  BY <1>2, <1>3, <1>4 DEF IsStack

LEMMA Replaced ==
  ASSUME NEW s, IsStack(s), Len(s) > 0, NEW f, "dirp" \in DOMAIN f
  PROVE  /\ IsStack(<<f>> \o Tail(s)) /\ Len(<<f>> \o Tail(s)) = Len(s)
         /\ Len(s) \in Nat /\ (<<f>> \o Tail(s))[1] = f
         /\ \A i \in 2 .. Len(s) : (<<f>> \o Tail(s))[i] = s[i]
<1>1. IsStack(Tail(s)) /\ Len(Tail(s)) = Len(s) - 1 /\ Len(s) \in Nat
  BY Popped
<1>2. \A i \in 1 .. Len(s) - 1 : Tail(s)[i] = s[i + 1]
  BY Popped
<1> DEFINE t == <<f>> \o Tail(s)
<1>3. IsStack(t) /\ Len(t) = Len(Tail(s)) + 1 /\ t[1] = f
  BY <1>1, Pushed
<1>4. \A i \in 1 .. Len(Tail(s)) : t[i + 1] = Tail(s)[i]
  BY <1>1, Pushed
<1> HIDE DEF t
<1>5. ASSUME NEW i \in 2 .. Len(s) PROVE t[i] = s[i]
  <2>1. i - 1 \in 1 .. Len(s) - 1 /\ (i - 1) + 1 = i
    BY <1>1
  <2>2. QED
    BY <2>1, <1>1, <1>2, <1>4
<1>6. QED
  BY <1>1, <1>3, <1>5 DEF t

\* Two frames in place of the top one.
LEMMA Stacked ==
  ASSUME NEW s, IsStack(s), Len(s) > 0, NEW f, "dirp" \in DOMAIN f, NEW g, "dirp" \in DOMAIN g
  PROVE  /\ IsStack(<<f, g>> \o Tail(s)) /\ Len(<<f, g>> \o Tail(s)) = Len(s) + 1
         /\ Len(s) \in Nat /\ (<<f, g>> \o Tail(s))[1] = f /\ (<<f, g>> \o Tail(s))[2] = g
         /\ \A i \in 2 .. Len(s) : (<<f, g>> \o Tail(s))[i + 1] = s[i]
<1> DEFINE t == <<g>> \o Tail(s)
<1>1. IsStack(t) /\ Len(t) = Len(s) /\ Len(s) \in Nat /\ t[1] = g
  BY Replaced
<1>2. \A i \in 2 .. Len(s) : t[i] = s[i]
  BY Replaced
<1>3. <<f, g>> \o Tail(s) = <<f>> \o t
  <2>1. PICK S : s \in Seq(S)
    BY DEF IsStack
  <2>2. Tail(s) \in Seq(S \cup {f, g})
    BY <2>1
  <2>3. <<f>> \in Seq(S \cup {f, g}) /\ <<g>> \in Seq(S \cup {f, g}) /\ <<f, g>> = <<f>> \o <<g>>
    OBVIOUS
  <2>4. QED
    BY <2>2, <2>3
<1> DEFINE u == <<f>> \o t
<1> HIDE DEF t
<1>4. IsStack(u) /\ Len(u) = Len(t) + 1 /\ u[1] = f
  BY <1>1, Pushed
<1>5. \A i \in 1 .. Len(t) : u[i + 1] = t[i]
  BY <1>1, Pushed
<1> HIDE DEF u
<1>6. u[2] = g
  <2>1. u[1 + 1] = t[1]
    BY <1>5, <1>1
  <2>2. QED
    BY <2>1, <1>1
<1>7. \A i \in 2 .. Len(s) : u[i + 1] = s[i]
  BY <1>1, <1>2, <1>5
<1>8. QED
  BY <1>1, <1>3, <1>4, <1>6, <1>7 DEF u

\* The frames the program makes have a handle, and going on in the directory keeps it.
LEMMA FramesAre ==
  ASSUME NEW d, NEW b, NEW f, "dirp" \in DOMAIN f, NEW h, NEW v
  PROVE  /\ "dirp" \in DOMAIN Frame(d, b)
         /\ "dirp" \in DOMAIN Advanced(f) /\ Advanced(f).dirp = f.dirp
         /\ "dirp" \in DOMAIN [f EXCEPT !.todo = v] /\ [f EXCEPT !.todo = v].dirp = f.dirp
         /\ "dirp" \in DOMAIN [f EXCEPT !.dirp = h] /\ [f EXCEPT !.dirp = h].dirp = h
  BY DEF Frame, Advanced

-----------------------------------------------------------------------------
(* Which operation is where.                                                *)

LEMMA InitOnItsWay == Init => OnItsWay
  BY ConstantsAssumption
     DEF Init, InitRun, OnItsWay, ListLabels, GetLabels, PutLabels, DumpLabels, Ended

\* A step whose requests are answered or not leaves the count of failures a number.
LEMMA RequestsAre ==
  ASSUME fails \in Nat
  PROVE  /\ Answered => fails' = fails /\ clean' = clean /\ gone' = gone /\ ~gone
         /\ Lost => fails' = fails + 1 /\ clean' = FALSE /\ gone' = gone /\ ~gone
         /\ Silent => fails' = fails /\ clean' = FALSE /\ gone' = gone /\ gone
         /\ Failed <=> Lost \/ Silent
  BY DEF Answered, Lost, Silent, Failed

LEMMA StackKept ==
  ASSUME IsStack(stack), Len(stack) > 0, NEW f, "dirp" \in DOMAIN f, stack' = SetTop(f)
  PROVE  /\ IsStack(stack') /\ Len(stack') = Len(stack) /\ Len(stack) \in Nat /\ stack'[1] = f
         /\ \A i \in 2 .. Len(stack) : stack'[i] = stack[i]
  BY Replaced DEF SetTop

LEMMA Returns ==
  ASSUME IsStack(stack), Len(stack) > 0, opt.cmd \in Lists, Return
  PROVE  /\ pc' \in {"done", "reopen", "readdir", "subdirs"}
         /\ pc' = "done" <=> Len(stack) = 1
         /\ pc' = "reopen" => opt.cmd \in {"ld", "lt"}
         /\ pc' = "readdir" => opt.cmd = "ll"
         /\ pc' = "subdirs" => opt.cmd \in {"lf", "lm"}
         /\ pc' # "done" => IsStack(stack') /\ Len(stack') > 0
         /\ Len(stack) \in Nat /\ Len(stack') = Len(stack) - 1
         /\ \A i \in 1 .. Len(stack) - 1 : stack'[i] = stack[i + 1]
<1>1. stack' = Tail(stack) /\ IsStack(Tail(stack)) /\ Len(Tail(stack)) = Len(stack) - 1
      /\ Len(stack) \in Nat
  BY Popped DEF Return
<1>2. \A i \in 1 .. Len(stack) - 1 : stack'[i] = stack[i + 1]
  BY <1>1, Popped
<1>3. pc' = IF Len(stack) = 1 THEN "done"
             ELSE CASE opt.cmd \in {"ld", "lt"} -> "reopen"
                    [] opt.cmd = "ll"           -> "readdir"
                    [] opt.cmd \in {"lf", "lm"} -> "subdirs"
  BY DEF Return
<1>4. /\ Len(stack) = 1 => pc' = "done"
      /\ Len(stack) # 1 /\ opt.cmd \in {"ld", "lt"} => pc' = "reopen"
      /\ Len(stack) # 1 /\ opt.cmd = "ll" => pc' = "readdir"
      /\ Len(stack) # 1 /\ opt.cmd \in {"lf", "lm"} => pc' = "subdirs"
  BY <1>3
<1>5. opt.cmd \in {"ld", "lt", "ll", "lf", "lm"}
  BY DEF Lists
<1>6. pc' # "done" => Len(stack') > 0
  <2> DEFINE l == Len(stack)
             m == Len(stack')
  <2>1. l \in Nat /\ l > 0 /\ m = l - 1 /\ (pc' # "done" => l # 1)
    BY <1>1, <1>4
  <2> HIDE DEF l, m
  <2>2. pc' # "done" => m > 0
    BY <2>1
  <2>3. QED
    BY <2>2 DEF m
<1>7. QED
  BY <1>1, <1>2, <1>4, <1>5, <1>6

\* The list steps, by what they do to the stack.
LEMMA NextOnItsWay == OnItsWay /\ [Next]_vars => OnItsWay'
<1> SUFFICES ASSUME OnItsWay, [Next]_vars PROVE OnItsWay'
  OBVIOUS
<1> USE DEF ListLabels, GetLabels, PutLabels, DumpLabels, Ended
<1>1. fails' \in Nat
  <2>1. fails \in Nat
    BY DEF OnItsWay
  <2>2. fails' \in {fails, fails + 1}
    BY DEF Answered, Lost, Silent, Failed, Next, Step, CloseHandles, CloseHandlesFrom, CloseDir, StatList, Opendir, OpenDir,
       ReadEntry, SkipEntry, Descend, Reopen, EndOfList, Leave, Subdirs, Change, CloseFirst, CloseFd,
       GetStat, GetOpen, ReadBlock, GetClose, PutStat, PutOpen, WriteBlock, PutClose, Prepare, Begin,
       ReadPage, EndImage, Kill, Unplug, StartRun, Finished, vars
  <2>3. QED
    BY <2>1, <2>2
<1>2. CASE CloseHandles
  BY <1>1, <1>2, ConstantsAssumption
     DEF CloseHandles, CloseHandlesFrom, Work, OnItsWay, host, Lists, Cmds
<1>3. CASE StatList
  <2>1. pc' = "opendir" => stack' = <<Frame(opt.node, TRUE)>>
    BY <1>3 DEF StatList
  <2>2. IsStack(<<Frame(opt.node, TRUE)>>) /\ Len(<<Frame(opt.node, TRUE)>>) = 1
    <3> DEFINE f == Frame(opt.node, TRUE)
    <3>1. "dirp" \in DOMAIN f
      BY DEF Frame
    <3> HIDE DEF f
    <3>2. <<f>> \in Seq({f}) /\ <<f>>[1] = f /\ Len(<<f>>) = 1
      OBVIOUS
    <3>3. \A i \in 1 .. Len(<<f>>) : "dirp" \in DOMAIN <<f>>[i]
      BY <3>1, <3>2
    <3>4. IsStack(<<f>>) /\ Len(<<f>>) = 1
      BY <3>2, <3>3 DEF IsStack
    <3>5. QED
      BY <3>4 DEF f
  <2>3. pc = "stat" /\ pc' \in {"opendir", "done"} /\ opt' = opt /\ n' = n /\ opt.cmd \in Lists
    BY <1>3 DEF StatList, OnItsWay, host
  <2>4. pc' = "opendir" => IsStack(stack') /\ Len(stack') > 0
    <3> DEFINE t == <<Frame(opt.node, TRUE)>>
    <3>1. IsStack(t) /\ Len(t) = 1 /\ (pc' = "opendir" => stack' = t)
      BY <2>1, <2>2
    <3> HIDE DEF t
    <3>2. QED
      BY <3>1
  <2>5. QED
    BY <1>1, <2>3, <2>4 DEF OnItsWay
<1>4. CASE Opendir
  <2>1. pc = "opendir" /\ IsStack(stack) /\ Len(stack) > 0 /\ opt.cmd \in Lists
        /\ opt' = opt /\ n' = n
    BY <1>4 DEF Opendir, OnItsWay, host
  <2>2. CASE Return
    BY <1>1, <2>1, <2>2, Returns DEF OnItsWay
  <2>3. ASSUME NEW h, stack' = SetTop([Top EXCEPT !.dirp = h]), pc' = "readdir"
        PROVE  OnItsWay'
    <3>1. "dirp" \in DOMAIN Top
      BY <2>1 DEF IsStack, Top
    <3>2. IsStack(stack') /\ Len(stack') = Len(stack)
      BY <2>1, <2>3, <3>1, FramesAre, StackKept
    <3>3. QED
      BY <1>1, <2>1, <2>3, <3>2 DEF OnItsWay
  <2>4. QED
    BY <1>4, <2>2, <2>3 DEF Opendir
<1>5. CASE Reopen
  <2>1. pc = "reopen" /\ IsStack(stack) /\ Len(stack) > 0 /\ opt.cmd \in Lists
        /\ opt' = opt /\ n' = n /\ pc' = "readdir"
    BY <1>5 DEF Reopen, OnItsWay, host
  <2>2. PICK h : stack' = SetTop([Top EXCEPT !.dirp = h])
    BY <1>5 DEF Reopen
  <2>3. "dirp" \in DOMAIN Top
    BY <2>1 DEF IsStack, Top
  <2>4. IsStack(stack') /\ Len(stack') = Len(stack)
    BY <2>1, <2>2, <2>3, FramesAre, StackKept
  <2>5. QED
    BY <1>1, <2>1, <2>4 DEF OnItsWay
<1>6. CASE SkipEntry
  <2>1. pc = "readdir" /\ IsStack(stack) /\ Len(stack) > 0 /\ opt.cmd \in Lists
        /\ opt' = opt /\ n' = n /\ pc' = pc /\ stack' = SetTop(Advanced(Top))
    BY <1>6 DEF SkipEntry, OnItsWay, host
  <2>2. "dirp" \in DOMAIN Top
    BY <2>1 DEF IsStack, Top
  <2>3. IsStack(stack') /\ Len(stack') = Len(stack)
    BY <2>1, <2>2, FramesAre, StackKept
  <2>4. QED
    BY <1>1, <2>1, <2>3 DEF OnItsWay
<1>7. CASE ReadEntry
  <2>1. pc = "readdir" /\ IsStack(stack) /\ Len(stack) > 0 /\ opt.cmd \in Lists
        /\ opt' = opt /\ n' = n
    BY <1>7 DEF ReadEntry, OnItsWay, host
  <2>2. "dirp" \in DOMAIN Top
    BY <2>1 DEF IsStack, Top
  <2>3. PICK f : /\ "dirp" \in DOMAIN f
                 /\ \/ stack' = <<Frame(Entry, NamesEntries), Advanced(f)>> \o Tail(stack)
                    \/ stack' = SetTop(Advanced(f))
    BY <1>7, <2>2, FramesAre DEF ReadEntry
  <2>4. IsStack(stack') /\ Len(stack') > 0
    <3>1. "dirp" \in DOMAIN Advanced(f) /\ "dirp" \in DOMAIN Frame(Entry, NamesEntries)
      BY <2>3, FramesAre
    <3>2. CASE stack' = SetTop(Advanced(f))
      BY <2>1, <3>1, <3>2, StackKept
    <3>3. CASE stack' = <<Frame(Entry, NamesEntries), Advanced(f)>> \o Tail(stack)
      BY <2>1, <3>1, <3>3, Stacked
    <3>4. QED
      BY <2>3, <3>2, <3>3
  <2>5. pc' \in {"readdir", "opendir", "closedir"} /\ (pc' = "closedir" => opt.cmd \in {"ld", "lt"})
    BY <1>7 DEF ReadEntry, Enters
  <2>6. QED
    BY <1>1, <2>1, <2>4, <2>5 DEF OnItsWay
<1>8. CASE Descend
  <2>1. pc = "closedir" /\ IsStack(stack) /\ Len(stack) > 0 /\ opt.cmd \in Lists
        /\ opt' = opt /\ n' = n /\ pc' = "opendir"
        /\ stack' = <<Frame(Last(Top.todo), NamesEntries)>> \o stack
    BY <1>8 DEF Descend, OnItsWay, host
  <2>2. IsStack(stack') /\ Len(stack') > 0
    BY <2>1, FramesAre, Pushed DEF Frame
  <2>3. QED
    BY <1>1, <2>1, <2>2 DEF OnItsWay
<1>9. CASE EndOfList
  BY <1>1, <1>9 DEF EndOfList, OnItsWay, host
<1>10. CASE Leave
  <2>1. pc = "leave" /\ IsStack(stack) /\ Len(stack) > 0 /\ opt.cmd \in Lists
        /\ opt' = opt /\ n' = n /\ LeaveTo
    BY <1>10 DEF Leave, OnItsWay, host
  <2>2. CASE Return
    BY <1>1, <2>1, <2>2, Returns DEF OnItsWay
  <2>3. CASE pc' = "subdirs" /\ stack' = stack
    BY <1>1, <2>1, <2>3 DEF OnItsWay
  <2>4. QED
    BY <2>1, <2>2, <2>3 DEF LeaveTo
<1>11. CASE Subdirs
  <2>1. pc = "subdirs" /\ IsStack(stack) /\ Len(stack) > 0 /\ opt.cmd \in Lists
        /\ opt' = opt /\ n' = n
    BY <1>11 DEF Subdirs, OnItsWay, host
  <2>2. CASE Return
    BY <1>1, <2>1, <2>2, Returns DEF OnItsWay
  <2>3. CASE /\ pc' = "opendir"
             /\ stack' = <<Frame(Head(Top.todo), NamesEntries), [Top EXCEPT !.todo = Tail(@)]>> \o Tail(stack)
    <3>1. "dirp" \in DOMAIN Top
      BY <2>1 DEF IsStack, Top
    <3>2. "dirp" \in DOMAIN [Top EXCEPT !.todo = Tail(@)] /\ "dirp" \in DOMAIN Frame(Head(Top.todo), NamesEntries)
      BY <3>1, FramesAre
    <3>3. IsStack(stack') /\ Len(stack') > 0
      BY <2>1, <2>3, <3>2, Stacked
    <3>4. QED
      BY <1>1, <2>1, <2>3, <3>3 DEF OnItsWay
  <2>4. QED
    BY <1>11, <2>2, <2>3 DEF Subdirs
<1>12. CASE Change \/ CloseFirst \/ GetStat \/ GetOpen \/ ReadBlock \/ GetClose
  BY <1>1, <1>12
     DEF Change, CloseFirst, AfterClose1, GetStat, GetOpen, ReadBlock, GetClose, OnItsWay, host
<1>13. CASE PutStat \/ PutOpen \/ WriteBlock \/ PutClose
  BY <1>1, <1>13 DEF PutStat, PutOpen, WriteBlock, PutClose, OnItsWay, host
<1>14. CASE Prepare \/ Begin \/ ReadPage \/ EndImage
  BY <1>1, <1>14 DEF Prepare, Begin, ReadPage, EndImage, OnItsWay, host
<1>15. CASE Kill \/ Unplug \/ StartRun \/ Finished \/ UNCHANGED vars
  BY <1>1, <1>15 DEF Kill, Unplug, StartRun, Finished, vars, OnItsWay, host
<1>16. QED
  BY <1>2, <1>3, <1>4, <1>5, <1>6, <1>7, <1>8, <1>9, <1>10, <1>11, <1>12, <1>13, <1>14, <1>15
     DEF Next, Step

-----------------------------------------------------------------------------
(* Directory handles.                                                       *)

\* The handles that may be open as long as every request was answered: those of the activations
\* below the top one while the short list is made, and that of the directory in hand.
Below == IF opt.cmd = "ll" THEN {stack[i].dirp : i \in 2 .. Len(stack)} ELSE {}
Held == IF pc = "close" THEN {h \in 1 .. MaxDir : h >= n}
        ELSE IF pc \in {"readdir", "closedir", "leave"} THEN Below \cup {Top.dirp}
        ELSE IF pc = "opendir" THEN Below ELSE {}
HandlesHeld ==
    /\ DOMAIN dirs = 1 .. MaxDir
    /\ clean /\ pc # "killed" => \A h \in 1 .. MaxDir : dirs[h] # NoNode => h \in Held

\* One request: what is open afterwards.
LEMMA DirectoryRequests ==
  ASSUME DOMAIN dirs = 1 .. MaxDir, NEW h, NEW d, NEW ok
  PROVE  /\ CloseDir(h) => /\ DOMAIN dirs' = 1 .. MaxDir /\ (clean' => clean)
                           /\ clean' => \A x \in 1 .. MaxDir : dirs'[x] # NoNode => dirs[x] # NoNode /\ x # h
         /\ OpenDir(d, ok, h) => /\ DOMAIN dirs' = 1 .. MaxDir /\ (clean' => clean)
                                 /\ clean' => \A x \in 1 .. MaxDir : dirs'[x] # NoNode => dirs[x] # NoNode \/ x = h
<1>1. ASSUME CloseDir(h)
      PROVE  /\ DOMAIN dirs' = 1 .. MaxDir /\ (clean' => clean)
             /\ clean' => \A x \in 1 .. MaxDir : dirs'[x] # NoNode => dirs[x] # NoNode /\ x # h
  <2>1. CASE Failed /\ dirs' = dirs
    BY <2>1 DEF Failed, Lost, Silent
  <2>2. CASE (Answered \/ Lost) /\ Closes(h)
    BY <2>2 DEF Closes, Answered, Lost
  <2>3. QED
    BY <1>1, <2>1, <2>2 DEF CloseDir
<1>2. ASSUME OpenDir(d, ok, h)
      PROVE  /\ DOMAIN dirs' = 1 .. MaxDir /\ (clean' => clean)
             /\ clean' => \A x \in 1 .. MaxDir : dirs'[x] # NoNode => dirs[x] # NoNode \/ x = h
  <2>1. CASE Failed /\ dirs' = dirs
    BY <2>1 DEF Failed, Lost, Silent
  <2>2. CASE Lost /\ dirs' = [dirs EXCEPT ![Min(Free)] = d]
    BY <2>2 DEF Lost
  <2>3. CASE Answered /\ dirs' = dirs
    BY <2>3 DEF Answered
  <2>4. CASE Answered /\ h = Min(Free) /\ dirs' = [dirs EXCEPT ![h] = d]
    BY <2>4 DEF Answered
  <2>5. QED
    BY <1>2, <2>1, <2>2, <2>3, <2>4 DEF OpenDir
<1>3. QED
  BY <1>1, <1>2

LEMMA InitHandlesHeld == Init => HandlesHeld
<1> SUFFICES ASSUME Init PROVE HandlesHeld
  OBVIOUS
<1>1. DOMAIN dirs = 1 .. MaxDir /\ \A h \in 1 .. MaxDir : dirs[h] = NoNode
  BY DEF Init
<1>2. QED
  BY <1>1 DEF HandlesHeld

\* A step that leaves the handles alone and goes to a place where as many may be open.
LEMMA HandlesStand ==
  ASSUME HandlesHeld, dirs' = dirs, clean' => clean, pc # "killed", Held \subseteq Held'
  PROVE  HandlesHeld'
  BY DEF HandlesHeld

\* What the activations below hold, the caller and those below it hold.
LEMMA ReturnsHold ==
  ASSUME IsStack(stack), Len(stack) > 0, opt.cmd \in Lists, opt' = opt, Return
  PROVE  Below \subseteq Held'
<1>1. /\ pc' \in {"done", "reopen", "readdir", "subdirs"} /\ Len(stack) \in Nat
      /\ pc' = "done" <=> Len(stack) = 1
      /\ pc' = "reopen" => opt.cmd \in {"ld", "lt"}
      /\ pc' = "subdirs" => opt.cmd \in {"lf", "lm"}
      /\ Len(stack') = Len(stack) - 1 /\ \A i \in 1 .. Len(stack) - 1 : stack'[i] = stack[i + 1]
  BY Returns
<1>2. CASE opt.cmd # "ll"
  BY <1>2 DEF Below
<1>3. CASE opt.cmd = "ll"
  <2>1. SUFFICES ASSUME NEW i \in 2 .. Len(stack) PROVE stack[i].dirp \in Held'
    BY DEF Below
  <2>2. i - 1 \in 1 .. Len(stack) - 1 /\ (i - 1) + 1 = i /\ Len(stack) # 1
    BY <1>1
  <2>3. stack'[i - 1] = stack[i]
    BY <1>1, <2>2
  <2>4. pc' = "readdir"
    BY <1>1, <1>3, <2>2
  <2>5. CASE i = 2
    BY <2>3, <2>4, <2>5 DEF Held, Top
  <2>6. CASE i # 2
    <3>1. i - 1 \in 2 .. Len(stack')
      BY <1>1, <2>6
    <3>2. stack'[i - 1].dirp \in Below'
      BY <1>3, <3>1 DEF Below
    <3>3. QED
      BY <2>3, <2>4, <3>2 DEF Held
  <2>7. QED
    BY <2>5, <2>6
<1>4. QED
  BY <1>2, <1>3

LEMMA NextHandlesHeld == OnItsWay /\ HandlesHeld /\ [Next]_vars => HandlesHeld'
<1> SUFFICES ASSUME OnItsWay, HandlesHeld, [Next]_vars PROVE HandlesHeld'
  OBVIOUS
<1> USE DEF ListLabels, GetLabels, PutLabels, DumpLabels, Ended
<1>0. DOMAIN dirs = 1 .. MaxDir
  BY DEF HandlesHeld
<1>1. CASE CloseHandles
  <2>1. pc = "close" /\ n \in Nat \ {0} /\ n \in Nat
    BY <1>1 DEF CloseHandles, CloseHandlesFrom, OnItsWay
  <2>2. CASE n > Closed
    <3>1. pc' # "close" /\ pc' \in {"stat", "close1", "prep", "change"} /\ dirs' = dirs /\ clean' = clean
      BY <1>1, <2>2, ConstantsAssumption DEF CloseHandles, CloseHandlesFrom, Work, OnItsWay, Cmds, Lists
    <3>2. Held = {}
      BY <2>1, <2>2, ConstantsAssumption DEF Held
    <3>3. QED
      BY <2>1, <3>1, <3>2, HandlesStand
  <2>3. CASE ~(n > Closed)
    <3>1. n' = n + 1 /\ pc' = pc /\ CloseDir(n)
      BY <1>1, <2>1, <2>3 DEF CloseHandles, CloseHandlesFrom
    <3>2. /\ DOMAIN dirs' = 1 .. MaxDir /\ (clean' => clean)
          /\ clean' => \A x \in 1 .. MaxDir : dirs'[x] # NoNode => dirs[x] # NoNode /\ x # n
      BY <1>0, <3>1, DirectoryRequests
    <3>3. ASSUME clean', NEW h \in 1 .. MaxDir, dirs'[h] # NoNode PROVE h \in Held'
      <4>1. h \in Held /\ h # n
        BY <2>1, <3>2, <3>3 DEF HandlesHeld
      <4>2. h >= n /\ h \in Nat /\ n \in Nat
        BY <2>1, <4>1, ConstantsAssumption DEF Held
      <4>3. QED
        BY <2>1, <3>1, <4>1, <4>2 DEF Held
    <3>4. QED
      BY <3>2, <3>3 DEF HandlesHeld
  <2>4. QED
    BY <2>2, <2>3
<1>2. CASE StatList
  <2>1. pc = "stat" /\ Held = {} /\ pc # "killed"
    BY <1>2 DEF StatList, Held
  <2>2. dirs' = dirs
    BY <1>2 DEF StatList, modem
  <2>3. clean' = clean \/ clean' = FALSE
    BY <1>2 DEF StatList, Answered, Failed, Lost, Silent
  <2>4. QED
    BY <2>1, <2>2, <2>3, HandlesStand
<1>3. CASE Opendir
  <2>1. pc = "opendir" /\ IsStack(stack) /\ Len(stack) > 0 /\ opt.cmd \in Lists /\ opt' = opt
    BY <1>3 DEF Opendir, OnItsWay, host
  <2>2. PICK h \in 0 .. MaxDir :
           /\ OpenDir(Top.dir, Top.named, h)
           /\ IF h = 0 THEN Return
                       ELSE stack' = SetTop([Top EXCEPT !.dirp = h]) /\ pc' = "readdir"
    BY <1>3 DEF Opendir
  <2>3. /\ DOMAIN dirs' = 1 .. MaxDir /\ (clean' => clean)
        /\ clean' => \A x \in 1 .. MaxDir : dirs'[x] # NoNode => dirs[x] # NoNode \/ x = h
    BY <1>0, <2>2, DirectoryRequests
  <2>4. Held = Below
    BY <2>1 DEF Held
  <2>5. CASE h = 0
    <3>1. Return
      BY <2>2, <2>5
    <3>2. Below \subseteq Held'
      BY <2>1, <3>1, ReturnsHold
    <3>3. \A x \in 1 .. MaxDir : x # h
      BY <2>5, ConstantsAssumption
    <3>4. QED
      BY <2>1, <2>3, <2>4, <3>2, <3>3 DEF HandlesHeld
  <2>6. CASE h # 0
    <3>1. stack' = SetTop([Top EXCEPT !.dirp = h]) /\ pc' = "readdir"
      BY <2>2, <2>6
    <3>2. "dirp" \in DOMAIN Top
      BY <2>1 DEF IsStack, Top
    <3>3. /\ Len(stack') = Len(stack) /\ stack'[1] = [Top EXCEPT !.dirp = h]
          /\ \A i \in 2 .. Len(stack) : stack'[i] = stack[i]
      BY <2>1, <3>1, <3>2, FramesAre, StackKept
    <3>4. Below' = Below /\ Top'.dirp = h
      <4>1. [Top EXCEPT !.dirp = h].dirp = h
        BY <3>2, FramesAre
      <4>2. Top'.dirp = h
        BY <3>3, <4>1 DEF Top
      <4>3. {stack'[i].dirp : i \in 2 .. Len(stack')} = {stack[i].dirp : i \in 2 .. Len(stack)}
        BY <3>3
      <4>4. Below' = Below
        BY <2>1, <4>3 DEF Below
      <4>5. QED
        BY <4>2, <4>4
    <3>5. Held' = Below \cup {h}
      BY <3>1, <3>4 DEF Held
    <3>6. QED
      BY <2>1, <2>3, <2>4, <3>5 DEF HandlesHeld
  <2>7. QED
    BY <2>5, <2>6
<1>4. CASE Reopen
  <2>1. pc = "reopen" /\ IsStack(stack) /\ Len(stack) > 0 /\ opt' = opt /\ pc' = "readdir"
    BY <1>4 DEF Reopen, OnItsWay, host
  <2>2. PICK h \in 0 .. MaxDir : OpenDir(Top.dir, TRUE, h) /\ stack' = SetTop([Top EXCEPT !.dirp = h])
    BY <1>4 DEF Reopen
  <2>3. /\ DOMAIN dirs' = 1 .. MaxDir /\ (clean' => clean)
        /\ clean' => \A x \in 1 .. MaxDir : dirs'[x] # NoNode => dirs[x] # NoNode \/ x = h
    BY <1>0, <2>2, DirectoryRequests
  <2>4. Held = {}
    BY <2>1 DEF Held
  <2>5. "dirp" \in DOMAIN Top
    BY <2>1 DEF IsStack, Top
  <2>6. Top'.dirp = h
    BY <2>1, <2>2, <2>5, FramesAre, StackKept DEF Top
  <2>7. h \in Held'
    BY <2>1, <2>6 DEF Held
  <2>8. QED
    BY <2>1, <2>3, <2>4, <2>7 DEF HandlesHeld
<1>5. CASE SkipEntry
  BY <1>5 DEF SkipEntry, modem, Failed, Lost, Silent, HandlesHeld
<1>6. CASE ReadEntry
  <2>1. pc = "readdir" /\ IsStack(stack) /\ Len(stack) > 0 /\ opt' = opt /\ dirs' = dirs /\ clean' = clean
    BY <1>6 DEF ReadEntry, OnItsWay, host, modem, Answered
  <2>2. "dirp" \in DOMAIN Top
    BY <2>1 DEF IsStack, Top
  <2> DEFINE f == IF kind[Entry] = "dir" THEN [Top EXCEPT !.todo = Append(@, Entry)] ELSE Top
  <2>3. "dirp" \in DOMAIN Advanced(f) /\ Advanced(f).dirp = Top.dirp
    <3>1. "dirp" \in DOMAIN f /\ f.dirp = Top.dirp
      BY <2>2, FramesAre
    <3> HIDE DEF f
    <3>2. QED
      BY <3>1, FramesAre
  <2>4. /\ stack' = IF Enters /\ opt.cmd = "ll"
                    THEN <<Frame(Entry, NamesEntries), Advanced(f)>> \o Tail(stack)
                    ELSE SetTop(Advanced(f))
        /\ pc' = IF ~Enters THEN "readdir"
                 ELSE IF opt.cmd = "ll" THEN "opendir" ELSE "closedir"
    BY <1>6 DEF ReadEntry
  <2> HIDE DEF f
  <2> DEFINE e == Frame(Entry, NamesEntries)
  <2>5. "dirp" \in DOMAIN e
    BY DEF Frame
  <2> HIDE DEF e
  <2>6. CASE Enters /\ opt.cmd = "ll"
    <3>1. pc' = "opendir" /\ stack' = <<e, Advanced(f)>> \o Tail(stack)
      BY <2>4, <2>6 DEF e
    <3>2. /\ Len(stack') = Len(stack) + 1 /\ Len(stack) \in Nat /\ stack'[2] = Advanced(f)
          /\ \A i \in 2 .. Len(stack) : stack'[i + 1] = stack[i]
      BY <2>1, <2>3, <2>5, <3>1, Stacked
    <3>3. Held' = Below' /\ Held = Below \cup {Top.dirp}
      BY <2>1, <3>1 DEF Held
    <3>4. Below' = {stack'[i].dirp : i \in 2 .. Len(stack) + 1}
      BY <2>1, <2>6, <3>2 DEF Below
    <3>5. Top.dirp \in Below'
      <4>1. 2 \in 2 .. Len(stack) + 1
        BY <2>1, <3>2
      <4>2. QED
        BY <2>3, <3>2, <3>4, <4>1
    <3>6. Below \subseteq Below'
      <4>1. SUFFICES ASSUME NEW i \in 2 .. Len(stack) PROVE stack[i].dirp \in Below'
        BY DEF Below
      <4>2. i + 1 \in 2 .. Len(stack) + 1 /\ stack'[i + 1] = stack[i]
        BY <3>2
      <4>3. QED
        BY <3>4, <4>2
    <3>7. QED
      BY <2>1, <3>3, <3>5, <3>6, HandlesStand
  <2>7. CASE ~(Enters /\ opt.cmd = "ll")
    <3>1. stack' = SetTop(Advanced(f)) /\ pc' \in {"readdir", "closedir"}
      BY <2>4, <2>7
    <3>2. /\ Len(stack') = Len(stack) /\ stack'[1] = Advanced(f)
          /\ \A i \in 2 .. Len(stack) : stack'[i] = stack[i]
      BY <2>1, <2>3, <3>1, StackKept
    <3>3. Below' = Below /\ Top'.dirp = Top.dirp
      BY <2>1, <2>3, <3>2 DEF Below, Top
    <3>4. Held' = Held
      BY <2>1, <3>1, <3>3 DEF Held
    <3>5. QED
      BY <2>1, <3>4, HandlesStand
  <2>8. QED
    BY <2>6, <2>7
<1>7. CASE Descend
  <2>1. pc = "closedir" /\ pc' = "opendir" /\ CloseDir(Top.dirp) /\ opt.cmd \in {"ld", "lt"}
    BY <1>7 DEF Descend, OnItsWay
  <2>2. /\ DOMAIN dirs' = 1 .. MaxDir /\ (clean' => clean)
        /\ clean' => \A x \in 1 .. MaxDir : dirs'[x] # NoNode => dirs[x] # NoNode /\ x # Top.dirp
    BY <1>0, <2>1, DirectoryRequests
  <2>3. Held = {Top.dirp}
    BY <2>1 DEF Held, Below
  <2>4. QED
    BY <2>1, <2>2, <2>3 DEF HandlesHeld
<1>8. CASE EndOfList
  <2>1. Held' = Held /\ dirs' = dirs /\ clean' = clean /\ pc # "killed"
    BY <1>8 DEF EndOfList, modem, host, Answered, Held, Below, Top
  <2>2. QED
    BY <2>1, HandlesStand
<1>9. CASE Leave
  <2>1. pc = "leave" /\ IsStack(stack) /\ Len(stack) > 0 /\ opt.cmd \in Lists
        /\ opt' = opt /\ LeaveTo /\ CloseDir(Top.dirp)
    BY <1>9 DEF Leave, OnItsWay, host
  <2>2. /\ DOMAIN dirs' = 1 .. MaxDir /\ (clean' => clean)
        /\ clean' => \A x \in 1 .. MaxDir : dirs'[x] # NoNode => dirs[x] # NoNode /\ x # Top.dirp
    BY <1>0, <2>1, DirectoryRequests
  <2>3. Held = Below \cup {Top.dirp}
    BY <2>1 DEF Held
  <2>4. Below \subseteq Held'
    <3>1. CASE Return
      BY <2>1, <3>1, ReturnsHold
    <3>2. CASE ~Return
      BY <2>1, <3>2 DEF LeaveTo, Below
    <3>3. QED
      BY <3>1, <3>2
  <2>5. QED
    BY <2>1, <2>2, <2>3, <2>4 DEF HandlesHeld
<1>10. CASE Subdirs
  <2>1. Held = {} /\ pc # "killed" /\ dirs' = dirs /\ clean' = clean
    BY <1>10 DEF Subdirs, Held, modem
  <2>2. QED
    BY <2>1, HandlesStand
<1>11. CASE Change \/ CloseFirst \/ GetStat \/ GetOpen \/ ReadBlock \/ GetClose
            \/ PutStat \/ PutOpen \/ WriteBlock \/ PutClose
            \/ Prepare \/ Begin \/ ReadPage \/ EndImage
  <2>1. dirs' = dirs /\ (clean' => clean)
    BY <1>11 DEF Change, CloseFirst, GetStat, GetOpen, ReadBlock, GetClose, PutStat, PutOpen, WriteBlock,
         PutClose, Prepare, Begin, ReadPage, EndImage, modem, CloseFd, Answered, Failed, Lost, Silent
  <2>2. pc \in {"change", "close1"} \cup GetLabels \cup PutLabels \cup DumpLabels
    BY <1>11 DEF Change, CloseFirst, GetStat, GetOpen, ReadBlock, GetClose, PutStat, PutOpen, WriteBlock,
         PutClose, Prepare, Begin, ReadPage, EndImage
  <2>3. Held = {}
    BY <2>2 DEF Held
  <2>4. QED
    BY <2>1, <2>2, <2>3, HandlesStand
<1>12. CASE Kill
  BY <1>12 DEF Kill, modem, HandlesHeld
<1>13. CASE Unplug \/ Finished \/ UNCHANGED vars
  <2>1. dirs' = dirs /\ clean' = clean /\ pc' = pc /\ opt' = opt /\ stack' = stack /\ n' = n
    BY <1>13 DEF Unplug, Finished, vars, modem, host
  <2>2. Held' = Held
    BY <2>1 DEF Held, Below, Top
  <2>3. QED
    BY <2>1, <2>2 DEF HandlesHeld
<1>14. CASE StartRun
  <2>1. pc' = "close" /\ n' = 1 /\ DOMAIN dirs' = DOMAIN dirs
    BY <1>14 DEF StartRun
  <2>2. Held' = 1 .. MaxDir
    BY <2>1 DEF Held
  <2>3. QED
    BY <1>0, <2>1, <2>2 DEF HandlesHeld
<1>15. QED
  BY <1>1, <1>2, <1>3, <1>4, <1>5, <1>6, <1>7, <1>8, <1>9, <1>10, <1>11, <1>12, <1>13, <1>14
     DEF Next, Step

-----------------------------------------------------------------------------
(* Descriptors.                                                             *)

OpenFds == {h \in DOMAIN fds : h > 1 /\ fds[h] # NoNode}
\* Descriptor 1 is still open though it was to be closed: the file gets another one.
Crowded == pc \in {"getstat", "getopen", "putstat", "putopen"} /\ ~gone /\ fds[1] # NoNode
FdsCounted ==
    /\ DOMAIN fds = 1 .. MaxFd
    /\ Cardinality(OpenFds) + (IF Crowded THEN 1 ELSE 0) <= fails

LEMMA OpenFdsFinite ==
  ASSUME DOMAIN fds = 1 .. MaxFd
  PROVE  IsFiniteSet(OpenFds) /\ Cardinality(OpenFds) \in Nat
<1>1. MaxFd \in Nat /\ IsFiniteSet(1 .. MaxFd) /\ OpenFds \subseteq 1 .. MaxFd
  BY ConstantsAssumption, FS_Interval DEF OpenFds
<1>2. IsFiniteSet(OpenFds)
  BY <1>1, FS_Subset
<1>3. QED
  BY <1>2, FS_CardinalityType

\* A step that opens no descriptor.
LEMMA FdsStand ==
  ASSUME FdsCounted, fails \in Nat, fails' \in {fails, fails + 1}, DOMAIN fds' = 1 .. MaxFd,
         \A h \in 1 .. MaxFd : fds'[h] # NoNode => fds[h] # NoNode,
         Crowded' => Crowded \/ fails' = fails + 1
  PROVE  FdsCounted'
<1>1. IsFiniteSet(OpenFds) /\ Cardinality(OpenFds) \in Nat
  BY OpenFdsFinite DEF FdsCounted
<1>2. OpenFds' \subseteq OpenFds
  BY DEF OpenFds, FdsCounted
<1>3. Cardinality(OpenFds') <= Cardinality(OpenFds) /\ Cardinality(OpenFds') \in Nat
  BY <1>1, <1>2, FS_Subset, FS_CardinalityType
<1> DEFINE c == Cardinality(OpenFds)
           d == Cardinality(OpenFds')
<1>4. c + (IF Crowded THEN 1 ELSE 0) <= fails /\ c \in Nat /\ d \in Nat /\ d <= c
  BY <1>1, <1>3 DEF FdsCounted
<1> HIDE DEF c, d
<1>5. d + (IF Crowded' THEN 1 ELSE 0) <= fails'
  <2>1. CASE Crowded'
    BY <1>4, <2>1
  <2>2. CASE ~Crowded'
    BY <1>4, <2>2
  <2>3. QED
    BY <2>1, <2>2
<1>6. QED
  BY <1>5 DEF FdsCounted, d

\* Opening a file takes the least free descriptor: one above 1 only if 1 was not closed.
LEMMA FdOpened ==
  ASSUME FdsCounted, fails \in Nat, fails' \in {fails, fails + 1}, ~gone,
         pc \in {"getopen", "putopen"}, pc' \notin {"getstat", "getopen", "putstat", "putopen"},
         FreeFd # {}, NEW x, fds' = [fds EXCEPT ![Min(FreeFd)] = x]
  PROVE  FdsCounted' /\ Min(FreeFd) \in 1 .. MaxFd
<1> DEFINE h == Min(FreeFd)
<1>1. DOMAIN fds = 1 .. MaxFd /\ MaxFd \in Nat /\ 1 \in 1 .. MaxFd
  BY ConstantsAssumption DEF FdsCounted
<1>2. h \in FreeFd /\ \A y \in FreeFd : h <= y
  <2>1. FreeFd \subseteq 1 .. MaxFd
    BY <1>1 DEF FreeFd
  <2>2. FreeFd \subseteq Int /\ 1 \in Int /\ \A y \in FreeFd : 1 <= y
    BY <1>1, <2>1
  <2>3. QED
    BY <2>2, BoundedMin
<1>3. h \in 1 .. MaxFd /\ fds[h] = NoNode
  BY <1>1, <1>2 DEF FreeFd
<1>4. DOMAIN fds' = 1 .. MaxFd /\ \A y \in 1 .. MaxFd : y # h => fds'[y] = fds[y]
  BY <1>1, <1>3
<1>5. IsFiniteSet(OpenFds) /\ Cardinality(OpenFds) \in Nat
  BY <1>1, OpenFdsFinite
<1>6. ~Crowded'
  BY DEF Crowded
<1> HIDE DEF h
<1>7. CASE h = 1
  <2>1. OpenFds' \subseteq OpenFds
    BY <1>1, <1>4, <1>7 DEF OpenFds
  <2>2. Cardinality(OpenFds') <= Cardinality(OpenFds) /\ Cardinality(OpenFds') \in Nat
    BY <1>5, <2>1, FS_Subset, FS_CardinalityType
  <2>3. Cardinality(OpenFds) <= fails
    <3> DEFINE c == Cardinality(OpenFds)
    <3>1. c \in Nat /\ c + (IF Crowded THEN 1 ELSE 0) <= fails
      BY <1>5 DEF FdsCounted
    <3> HIDE DEF c
    <3>2. c <= fails
      BY <3>1
    <3>3. QED
      BY <3>2 DEF c
  <2> DEFINE c == Cardinality(OpenFds)
             d == Cardinality(OpenFds')
  <2>4. c \in Nat /\ d \in Nat /\ d <= c /\ c <= fails
    BY <1>5, <2>2, <2>3
  <2> HIDE DEF c, d
  <2>5. d + 0 <= fails'
    BY <2>4
  <2>6. QED
    BY <1>3, <1>4, <1>6, <2>5 DEF FdsCounted, d, h
<1>8. CASE h # 1
  <2>1. fds[1] # NoNode
    <3>1. ~(h <= 1)
      BY <1>1, <1>3, <1>8
    <3>2. 1 \notin FreeFd
      BY <1>2, <3>1
    <3>3. QED
      BY <1>1, <3>2 DEF FreeFd
  <2>2. Crowded
    BY <2>1 DEF Crowded
  <2>3. OpenFds' \subseteq OpenFds \cup {h}
    BY <1>1, <1>4 DEF OpenFds
  <2>4. /\ IsFiniteSet(OpenFds \cup {h})
        /\ Cardinality(OpenFds \cup {h}) \in {Cardinality(OpenFds), Cardinality(OpenFds) + 1}
    BY <1>5, FS_AddElement
  <2>5. Cardinality(OpenFds') <= Cardinality(OpenFds \cup {h}) /\ Cardinality(OpenFds') \in Nat
    BY <2>3, <2>4, FS_Subset, FS_CardinalityType
  <2> DEFINE c == Cardinality(OpenFds)
             e == Cardinality(OpenFds \cup {h})
             d == Cardinality(OpenFds')
  <2>6. c \in Nat /\ d \in Nat /\ e \in {c, c + 1} /\ d <= e /\ c + 1 <= fails
    BY <1>5, <2>2, <2>4, <2>5 DEF FdsCounted
  <2> HIDE DEF c, d, e
  <2>7. d + 0 <= fails'
    BY <2>6
  <2>8. QED
    BY <1>3, <1>4, <1>6, <2>7 DEF FdsCounted, d, h
<1>9. QED
  BY <1>7, <1>8

LEMMA InitFdsCounted == Init => FdsCounted
<1> SUFFICES ASSUME Init PROVE FdsCounted
  OBVIOUS
<1>1. DOMAIN fds = 1 .. MaxFd /\ OpenFds = {} /\ ~Crowded /\ fails = 0
  BY DEF Init, InitRun, OpenFds, Crowded
<1>2. QED
  BY <1>1, FS_EmptySet DEF FdsCounted

LEMMA NextFdsCounted == OnItsWay /\ FdsCounted /\ [Next]_vars => FdsCounted'
<1> SUFFICES ASSUME OnItsWay, FdsCounted, [Next]_vars PROVE FdsCounted'
  OBVIOUS
<1> USE DEF Ended
<1>0. DOMAIN fds = 1 .. MaxFd /\ fails \in Nat
  BY DEF FdsCounted, OnItsWay
<1>1. CASE CloseFirst
  <2>1. pc = "close1" /\ CloseFd(1)
    BY <1>1 DEF CloseFirst
  <2>2. CASE (Answered \/ Lost) /\ fds' = [x \in DOMAIN fds |-> IF x = 1 THEN NoNode ELSE fds[x]]
    <3>1. fails' \in {fails, fails + 1}
      BY <2>2 DEF Answered, Lost
    <3>2. 1 \in 1 .. MaxFd
      BY ConstantsAssumption
    <3>3. ~Crowded'
      BY <1>0, <2>2, <3>2 DEF Crowded
    <3>4. DOMAIN fds' = 1 .. MaxFd /\ \A h \in 1 .. MaxFd : fds'[h] # NoNode => fds[h] # NoNode
      BY <1>0, <2>2
    <3>5. QED
      BY <1>0, <3>1, <3>3, <3>4, FdsStand
  <2>3. CASE Failed /\ fds' = fds
    <3>1. fails' \in {fails, fails + 1} /\ (gone' \/ fails' = fails + 1)
      BY <2>3 DEF Failed, Lost, Silent
    <3>2. Crowded' => fails' = fails + 1
      BY <3>1 DEF Crowded
    <3>3. QED
      BY <1>0, <2>3, <3>1, <3>2, FdsStand
  <2>4. QED
    BY <2>1, <2>2, <2>3 DEF CloseFd
<1>2. CASE GetOpen
  <2>1. pc = "getopen" /\ pc' \in {"read", "done"}
    BY <1>2 DEF GetOpen
  <2>2. fails' \in {fails, fails + 1}
    BY <1>2 DEF GetOpen, Answered, Failed, Lost, Silent
  <2>3. \/ fds' = fds
        \/ ~gone /\ FreeFd # {} /\ fds' = [fds EXCEPT ![Min(FreeFd)] = opt.node]
    BY <1>2 DEF GetOpen, Answered, Lost
  <2>4. CASE fds' = fds
    BY <1>0, <2>1, <2>2, <2>4, FdsStand DEF Crowded
  <2>5. CASE ~gone /\ FreeFd # {} /\ fds' = [fds EXCEPT ![Min(FreeFd)] = opt.node]
    BY <1>0, <2>1, <2>2, <2>5, FdOpened
  <2>6. QED
    BY <2>3, <2>4, <2>5
<1>3. CASE PutOpen
  <2>1. pc = "putopen" /\ pc' \in {"putclose", "write", "done"}
    BY <1>3 DEF PutOpen
  <2>2. fails' \in {fails, fails + 1}
    BY <1>3 DEF PutOpen, Answered, Failed, Lost, Silent
  <2>3. \/ fds' = fds
        \/ ~gone /\ FreeFd # {} /\ fds' = [fds EXCEPT ![Min(FreeFd)] = target]
    BY <1>3 DEF PutOpen, Answered, Lost
  <2>4. CASE fds' = fds
    BY <1>0, <2>1, <2>2, <2>4, FdsStand DEF Crowded
  <2>5. CASE ~gone /\ FreeFd # {} /\ fds' = [fds EXCEPT ![Min(FreeFd)] = target]
    BY <1>0, <2>1, <2>2, <2>5, FdOpened
  <2>6. QED
    BY <2>3, <2>4, <2>5
<1>4. CASE GetClose \/ PutClose
  <2>1. CloseFd(fd) /\ pc' = "done"
    BY <1>4 DEF GetClose, PutClose
  <2>2. fails' \in {fails, fails + 1} /\ ~Crowded'
    BY <2>1 DEF CloseFd, Answered, Failed, Lost, Silent, Crowded
  <2>3. fds' = fds \/ fds' = [x \in DOMAIN fds |-> IF x = fd THEN NoNode ELSE fds[x]]
    BY <2>1 DEF CloseFd
  <2>4. DOMAIN fds' = 1 .. MaxFd /\ \A h \in 1 .. MaxFd : fds'[h] # NoNode => fds[h] # NoNode
    BY <1>0, <2>3
  <2>5. QED
    BY <1>0, <2>2, <2>4, FdsStand
<1>5. CASE GetStat \/ PutStat
  <2>1. pc \in {"getstat", "putstat"} /\ fds' = fds
    BY <1>5 DEF GetStat, PutStat, modem
  <2>2. fails' \in {fails, fails + 1} /\ gone' = gone
    BY <1>5 DEF GetStat, PutStat, Answered, Failed, Lost, Silent
  <2>3. Crowded' => Crowded
    BY <2>1, <2>2 DEF Crowded
  <2>4. QED
    BY <1>0, <2>1, <2>2, <2>3, FdsStand
<1>6. CASE CloseHandles \/ StatList \/ Opendir \/ ReadEntry \/ SkipEntry \/ Descend \/ Reopen
           \/ EndOfList \/ Leave \/ Subdirs
  <2>1. fds' = fds /\ fails' \in {fails, fails + 1}
    BY <1>6 DEF CloseHandles, CloseHandlesFrom, CloseDir, StatList, Opendir, OpenDir, ReadEntry, SkipEntry,
         Descend, Reopen, EndOfList, Leave, Subdirs, modem, Answered, Failed, Lost, Silent
  <2>2. pc' \notin {"getstat", "getopen", "putstat", "putopen"}
    <3>1. CASE CloseHandles
      BY <3>1, ConstantsAssumption DEF CloseHandles, CloseHandlesFrom, Work, OnItsWay, Lists, Cmds
    <3>2. CASE ~CloseHandles
      <4>1. pc \in ListLabels /\ opt' = opt
        BY <1>6, <3>2 DEF StatList, Opendir, ReadEntry, SkipEntry, Descend, Reopen, EndOfList, Leave, Subdirs,
             host, ListLabels
      <4>2. opt'.cmd \in Lists
        BY <4>1 DEF OnItsWay
      <4>3. OnItsWay'
        BY NextOnItsWay
      <4>4. QED
        BY <4>2, <4>3 DEF OnItsWay, GetLabels, PutLabels, Lists
    <3>3. QED
      BY <3>1, <3>2
  <2>3. QED
    BY <1>0, <2>1, <2>2, FdsStand DEF Crowded
<1>7. CASE Change \/ ReadBlock \/ WriteBlock \/ Prepare \/ Begin \/ ReadPage \/ EndImage
  <2>1. fds' = fds /\ fails' \in {fails, fails + 1}
    BY <1>7 DEF Change, ReadBlock, WriteBlock, Prepare, Begin, ReadPage, EndImage, modem, Answered, Failed,
         Lost, Silent
  <2>2. pc' \notin {"getstat", "getopen", "putstat", "putopen"}
    BY <1>7 DEF Change, ReadBlock, WriteBlock, Prepare, Begin, ReadPage, EndImage
  <2>3. QED
    BY <1>0, <2>1, <2>2, FdsStand DEF Crowded
<1>8. CASE Kill \/ Unplug \/ Finished \/ UNCHANGED vars
  <2>1. fds' = fds /\ fails' = fails /\ (Crowded' => Crowded)
    BY <1>8 DEF Kill, Unplug, Finished, vars, modem, Crowded
  <2>2. QED
    BY <1>0, <2>1, FdsStand
<1>9. CASE StartRun
  <2>1. ~Crowded' /\ fails' = fails /\ (fds' = fds \/ fds' = [h \in DOMAIN fds |-> NoNode])
    BY <1>9 DEF StartRun, Crowded
  <2>2. DOMAIN fds' = 1 .. MaxFd /\ \A h \in 1 .. MaxFd : fds'[h] # NoNode => fds[h] # NoNode
    BY <1>0, <2>1
  <2>3. QED
    BY <1>0, <2>1, <2>2, FdsStand
<1>10. QED
  BY <1>1, <1>2, <1>3, <1>4, <1>5, <1>6, <1>7, <1>8, <1>9 DEF Next, Step

\* The modem does not run out of handles (qefs.c:782, efsio.c:115), whatever the tree, the command lines,
\* the runs that are killed and the requests that are lost.
THEOREM HandlesAreKept == Spec => []HandlesKept
<1> DEFINE I == OnItsWay /\ HandlesHeld /\ FdsCounted
<1>1. Init => I
  BY InitOnItsWay, InitHandlesHeld, InitFdsCounted
<1>2. I /\ [Next]_vars => I'
  BY NextOnItsWay, NextHandlesHeld, NextFdsCounted
<1>3. I => HandlesKept
  <2> SUFFICES ASSUME I PROVE HandlesKept
    OBVIOUS
  <2>1. HandlesReturned
    <3> SUFFICES ASSUME clean, pc \in {"stat", "close1", "prep", "change", "done"}
                 PROVE  Free = DOMAIN dirs
      BY DEF HandlesReturned
    <3>1. Held = {}
      BY DEF Held
    <3>2. QED
      BY <3>1 DEF HandlesHeld, Free
  <2>2. LeaksBounded
    <3> DEFINE c == Cardinality(OpenFds)
    <3>1. c \in Nat /\ fails \in Nat /\ c + (IF Crowded THEN 1 ELSE 0) <= fails
      BY OpenFdsFinite DEF FdsCounted, OnItsWay
    <3> HIDE DEF c
    <3>2. c <= fails
      BY <3>1
    <3>3. QED
      BY <3>2 DEF LeaksBounded, OpenFds, c
  <2>3. QED
    BY <2>1, <2>2 DEF HandlesKept
<1> HIDE DEF I
<1>4. QED
  BY <1>1, <1>2, <1>3, PTL DEF Spec

-----------------------------------------------------------------------------
(* Files.                                                                   *)

BlockValues == [of : Nodes \cup {NoNode}, k : Nat]

\* Files are sequences of blocks; behind the length of the local file there are only blocks that
\* stand where they stood first, and holes.
Shapes ==
    /\ data \in [Nodes -> Seq(BlockValues)] /\ fbuf \in Seq(BlockValues) /\ size \in Nat
    /\ \A x \in Nodes : \A i \in 1 .. Len(data[x]) :
          i > LocalSize => data[x][i] \in {[of |-> x, k |-> i], Hole}
    /\ pc \in {"putopen", "write", "putclose"} =>
          target \in Nodes /\ fbuf = Local /\ size = LocalSize
    /\ pc \in {"close1", "getstat", "getopen", "putstat", "putopen", "prep", "begin"} => n = 1
    /\ pc = "write" => n <= LocalSize

LEMMA BlocksAre ==
  ASSUME NEW x \in Nodes \cup {NoNode}, NEW s \in Nat
  PROVE  /\ Blocks(x, s) \in Seq(BlockValues) /\ Len(Blocks(x, s)) = s
         /\ \A i \in 1 .. s : Blocks(x, s)[i] = [of |-> x, k |-> i]
<1>1. \A i \in 1 .. s : [of |-> x, k |-> i] \in BlockValues
  BY DEF BlockValues
<1> DEFINE b == [i \in 1 .. s |-> [of |-> x, k |-> i]]
<1>2. b \in [1 .. s -> BlockValues]
  BY <1>1
<1>3. b \in Seq(BlockValues) /\ Len(b) = s
  BY <1>2
<1>4. QED
  BY <1>3 DEF Blocks

LEMMA LocalIs ==
  /\ Local \in Seq(BlockValues) /\ Len(Local) = LocalSize
  /\ \A i \in 1 .. LocalSize : Local[i] = [of |-> NoNode, k |-> i]
  BY BlocksAre, ConstantsAssumption DEF Local

\* A written block stands in its place, and the others where they stood.
LEMMA WrittenIs ==
  ASSUME NEW x \in Nodes, data \in [Nodes -> Seq(BlockValues)], fbuf \in Seq(BlockValues),
         n \in 1 .. Len(fbuf)
  PROVE  /\ Written(x) \in Seq(BlockValues)
         /\ Len(Written(x)) \in Nat /\ Len(Written(x)) >= n /\ Len(Written(x)) >= Len(data[x])
         /\ Len(Written(x)) \in {n, Len(data[x])}
         /\ Written(x)[n] = fbuf[n]
         /\ \A i \in 1 .. Len(Written(x)) : i # n =>
               Written(x)[i] = IF i <= Len(data[x]) THEN data[x][i] ELSE Hole
<1> DEFINE l == Len(data[x])
           m == Max({n, l})
<1>1. l \in Nat /\ n \in Nat /\ data[x] \in Seq(BlockValues) /\ fbuf[n] \in BlockValues
  OBVIOUS
<1>2. m \in {n, l} /\ m >= n /\ m >= l
  <2>1. {n, l} \subseteq Int /\ n + l \in Int /\ \A y \in {n, l} : y <= n + l
    BY <1>1
  <2>2. Max({n, l}) \in {n, l} /\ \A y \in {n, l} : y <= Max({n, l})
    BY <2>1, BoundedMax
  <2>3. QED
    BY <1>1, <2>2
<1>3. Hole \in BlockValues
  BY DEF Hole, BlockValues
<1> DEFINE w == [i \in 1 .. m |-> IF i = n THEN fbuf[n] ELSE IF i <= l THEN data[x][i] ELSE Hole]
<1>4. Written(x) = w
  BY DEF Written
<1>5. m \in Nat
  BY <1>1, <1>2
<1> HIDE DEF m
<1>6. \A i \in 1 .. m : i <= l => data[x][i] \in BlockValues
  BY <1>1, <1>5
<1>7. w \in [1 .. m -> BlockValues]
  BY <1>1, <1>3, <1>6
<1>8. w \in Seq(BlockValues) /\ Len(w) = m
  BY <1>5, <1>7
<1>9. n \in 1 .. m
  BY <1>1, <1>2, <1>5
<1>10. QED
  BY <1>1, <1>2, <1>4, <1>5, <1>8, <1>9

LEMMA InitShapes == Init => Shapes
<1> SUFFICES ASSUME Init PROVE Shapes
  OBVIOUS
<1>1. PICK s \in Sizes : data = [x \in Nodes |-> IF kind[x] = "file" THEN Blocks(x, s) ELSE <<>>]
  BY DEF Init
<1>2. s \in Nat
  BY ConstantsAssumption
<1>3. ASSUME NEW x \in Nodes
      PROVE  /\ data[x] \in Seq(BlockValues)
             /\ \A i \in 1 .. Len(data[x]) : data[x][i] = [of |-> x, k |-> i]
  <2>1. CASE kind[x] = "file"
    BY <1>1, <1>2, <2>1, BlocksAre
  <2>2. CASE kind[x] # "file"
    BY <1>1, <2>2
  <2>3. QED
    BY <2>1, <2>2
<1>4. data \in [Nodes -> Seq(BlockValues)]
  BY <1>1, <1>3
<1>5. pc = "close" /\ fbuf = <<>> /\ size = 0
  BY DEF Init, InitRun
<1>6. fbuf \in Seq(BlockValues) /\ size \in Nat
  BY <1>5
<1>7. \A x \in Nodes : \A i \in 1 .. Len(data[x]) : data[x][i] \in {[of |-> x, k |-> i], Hole}
  BY <1>3
<1>8. QED
  BY <1>4, <1>5, <1>6, <1>7 DEF Shapes

LEMMA NextShapes == OnItsWay /\ Shapes /\ [Next]_vars => Shapes'
<1> SUFFICES ASSUME OnItsWay, Shapes, [Next]_vars PROVE Shapes'
  OBVIOUS
<1> USE DEF Ended
<1>0. /\ data \in [Nodes -> Seq(BlockValues)] /\ fbuf \in Seq(BlockValues) /\ size \in Nat
      /\ opt.node \in Nodes
  BY ConstantsAssumption DEF Shapes, OnItsWay
<1>1. CASE CloseHandles \/ StatList \/ Opendir \/ ReadEntry \/ SkipEntry \/ Descend \/ Reopen
           \/ EndOfList \/ Leave \/ Subdirs
  <2>1. data' = data /\ fbuf' = fbuf /\ size' = size /\ target' = target
    BY <1>1 DEF CloseHandles, CloseHandlesFrom, StatList, Opendir, ReadEntry, SkipEntry,
         Descend, Reopen, EndOfList, Leave, Subdirs, modem, files
  <2>2. /\ pc' \notin {"getstat", "getopen", "putstat", "putopen", "write", "putclose", "begin"}
        /\ pc' \in {"close1", "prep"} => n' = 1
    <3>1. CASE CloseHandles
      BY <3>1, ConstantsAssumption DEF CloseHandles, CloseHandlesFrom, Work, OnItsWay, Lists, Cmds
    <3>2. CASE ~CloseHandles
      <4>1. pc \in ListLabels /\ opt' = opt
        BY <1>1, <3>2 DEF StatList, Opendir, ReadEntry, SkipEntry, Descend, Reopen, EndOfList, Leave, Subdirs,
             host, ListLabels
      <4>2. opt'.cmd \in Lists
        BY <4>1 DEF OnItsWay
      <4>3. OnItsWay'
        BY NextOnItsWay
      <4>4. QED
        BY <4>2, <4>3 DEF OnItsWay, GetLabels, PutLabels, DumpLabels, Lists
    <3>3. QED
      BY <3>1, <3>2
  <2>3. QED
    BY <2>1, <2>2 DEF Shapes
<1>2. CASE Change
  <2>1. fbuf' = fbuf /\ size' = size /\ pc' = "done"
    BY <1>2 DEF Change
  <2>2. data' = data \/ data' = [x \in Nodes |-> IF Changed[x] = "file" THEN data[x] ELSE <<>>]
    BY <1>2 DEF Change, files
  <2>3. \A x \in Nodes : data'[x] = data[x] \/ data'[x] = <<>>
    BY <1>0, <2>2
  <2>4. data' \in [Nodes -> Seq(BlockValues)]
    <3>1. CASE data' = data
      BY <1>0, <3>1
    <3>2. CASE data' = [x \in Nodes |-> IF Changed[x] = "file" THEN data[x] ELSE <<>>]
      BY <1>0, <2>3, <3>2
    <3>3. QED
      BY <2>2, <3>1, <3>2
  <2>5. \A x \in Nodes : \A i \in 1 .. Len(data'[x]) :
          i > LocalSize => data'[x][i] \in {[of |-> x, k |-> i], Hole}
    BY <1>0, <2>3 DEF Shapes
  <2>6. QED
    BY <1>0, <2>1, <2>4, <2>5 DEF Shapes
<1>3. CASE CloseFirst
  <2>1. data' = data /\ fbuf' = fbuf /\ size' = size /\ target' = target
        /\ pc' \in {"getstat", "putstat"} /\ n' = n /\ pc = "close1"
    BY <1>3 DEF CloseFirst, AfterClose1, files
  <2>2. QED
    BY <2>1 DEF Shapes
<1>4. CASE GetStat
  <2>1. data' = data /\ fbuf' = fbuf /\ pc' \in {"done", "getopen"} /\ n' = n /\ n = 1
    BY <1>4 DEF GetStat, modem, files, Shapes
  <2>2. size' \in Nat
    <3>1. Len(data[opt.node]) \in Nat
      BY <1>0
    <3>2. CASE size' = IF kind[opt.node] = "file" THEN Len(data[opt.node]) ELSE 0
      BY <3>1, <3>2
    <3>3. CASE size' \in 0 .. Max(Sizes) + 1
      BY <3>3
    <3>4. QED
      BY <1>4, <3>2, <3>3 DEF GetStat
  <2>3. QED
    BY <2>1, <2>2 DEF Shapes
<1>5. CASE GetOpen \/ GetClose \/ PutClose
  <2>1. data' = data /\ fbuf' = fbuf /\ size' = size /\ pc' \in {"read", "done"}
    BY <1>5 DEF GetOpen, GetClose, PutClose, files
  <2>2. QED
    BY <2>1 DEF Shapes
<1>6. CASE ReadBlock
  <2>1. data' = data /\ size' = size /\ pc' \in {"read", "getclose", "done"} /\ n \in Nat \ {0}
    BY <1>6 DEF ReadBlock, modem, files, OnItsWay
  <2>2. fbuf' = fbuf \/ (n <= Len(data[opt.node]) /\ fbuf' = Append(fbuf, data[opt.node][n]))
    BY <1>6 DEF ReadBlock
  <2>3. fbuf' \in Seq(BlockValues)
    <3>1. CASE fbuf' = fbuf
      BY <1>0, <3>1
    <3>2. CASE n <= Len(data[opt.node]) /\ fbuf' = Append(fbuf, data[opt.node][n])
      <4>1. data[opt.node] \in Seq(BlockValues) /\ n \in 1 .. Len(data[opt.node])
        BY <1>0, <2>1, <3>2
      <4>2. data[opt.node][n] \in BlockValues
        BY <4>1
      <4>3. QED
        BY <1>0, <3>2, <4>2
    <3>3. QED
      BY <2>2, <3>1, <3>2
  <2>4. QED
    BY <2>1, <2>3 DEF Shapes
<1>7. CASE PutStat
  <2>1. data' = data /\ fbuf' = Local /\ size' = LocalSize /\ n' = n /\ n = 1 /\ pc' \in {"done", "putopen"}
    BY <1>7 DEF PutStat, modem, files, Shapes
  <2>2. target' \in Nodes
    BY <1>0, <1>7, ConstantsAssumption DEF PutStat
  <2>3. QED
    BY <2>1, <2>2, LocalIs, ConstantsAssumption DEF Shapes
<1>8. CASE PutOpen
  <2>1. /\ pc = "putopen" /\ data' = data /\ fbuf' = fbuf /\ size' = size /\ target' = target /\ n' = n
        /\ pc' \in {"putclose", "write", "done"} /\ (pc' = "write" => size # 0)
    BY <1>8 DEF PutOpen
  <2>2. target \in Nodes /\ fbuf = Local /\ size = LocalSize /\ n = 1
    BY <2>1 DEF Shapes
  <2>3. pc' = "write" => n' <= LocalSize
    BY <2>1, <2>2, ConstantsAssumption
  <2>4. QED
    BY <2>1, <2>2, <2>3 DEF Shapes
<1>9. CASE WriteBlock
  <2>1. /\ pc = "write" /\ fbuf' = fbuf /\ size' = size /\ target' = target /\ n' = n + 1
        /\ pc' = IF n = size THEN "putclose" ELSE "write"
        /\ (data' = data \/ data' = [data EXCEPT ![target] = Written(target)])
    BY <1>9 DEF WriteBlock
  <2>2. /\ target \in Nodes /\ fbuf = Local /\ size = LocalSize /\ n <= LocalSize /\ n \in Nat \ {0}
        /\ LocalSize \in Nat
    BY <2>1, ConstantsAssumption DEF Shapes, OnItsWay
  <2>3. pc' = "write" => n' <= LocalSize
    BY <2>1, <2>2
  <2>4. CASE data' = data
    BY <1>0, <2>1, <2>2, <2>3, <2>4 DEF Shapes
  <2>5. CASE data' = [data EXCEPT ![target] = Written(target)]
    <3>1. n \in 1 .. Len(fbuf)
      BY <2>2, LocalIs
    <3> DEFINE w == Written(target)
    <3>2. /\ w \in Seq(BlockValues) /\ Len(w) \in Nat
          /\ \A i \in 1 .. Len(w) : i # n => w[i] = IF i <= Len(data[target]) THEN data[target][i] ELSE Hole
      BY <1>0, <2>2, <3>1, WrittenIs
    <3>3. data'[target] = w /\ \A x \in Nodes : x # target => data'[x] = data[x]
      BY <1>0, <2>2, <2>5
    <3>4. data' \in [Nodes -> Seq(BlockValues)]
      BY <1>0, <2>5, <3>2
    <3> HIDE DEF w
    <3>5. \A i \in 1 .. Len(w) : i > LocalSize => w[i] \in {[of |-> target, k |-> i], Hole}
      <4> SUFFICES ASSUME NEW i \in 1 .. Len(w), i > LocalSize
                   PROVE  w[i] \in {[of |-> target, k |-> i], Hole}
        OBVIOUS
      <4>1. i # n
        BY <2>2
      <4>2. CASE i <= Len(data[target])
        <5>1. w[i] = data[target][i] /\ i \in 1 .. Len(data[target])
          BY <1>0, <2>2, <3>2, <4>1, <4>2
        <5>2. QED
          BY <2>2, <5>1 DEF Shapes
      <4>3. CASE ~(i <= Len(data[target]))
        BY <3>2, <4>1, <4>3
      <4>4. QED
        BY <4>2, <4>3
    <3>6. \A x \in Nodes : \A i \in 1 .. Len(data'[x]) :
            i > LocalSize => data'[x][i] \in {[of |-> x, k |-> i], Hole}
      <4> SUFFICES ASSUME NEW x \in Nodes
                   PROVE  \A i \in 1 .. Len(data'[x]) :
                             i > LocalSize => data'[x][i] \in {[of |-> x, k |-> i], Hole}
        OBVIOUS
      <4>1. CASE x = target
        BY <3>3, <3>5, <4>1
      <4>2. CASE x # target
        BY <3>3, <4>2 DEF Shapes
      <4>3. QED
        BY <4>1, <4>2
    <3>7. fbuf' \in Seq(BlockValues) /\ size' \in Nat /\ target' \in Nodes /\ fbuf' = Local /\ size' = LocalSize
      BY <1>0, <2>1, <2>2
    <3>8. QED
      BY <2>1, <2>3, <3>4, <3>6, <3>7 DEF Shapes
  <2>6. QED
    BY <2>1, <2>4, <2>5
<1>10. CASE Prepare \/ Begin \/ ReadPage \/ EndImage
  <2>1. /\ data' = data /\ fbuf' = fbuf /\ size' = size /\ pc' \in {"begin", "page", "end", "done"}
        /\ pc' = "begin" => n' = 1
    BY <1>10 DEF Prepare, Begin, ReadPage, EndImage, modem, files, Shapes
  <2>2. QED
    BY <2>1 DEF Shapes
<1>11. CASE Kill
  BY <1>11 DEF Kill, Shapes, modem, files
<1>12. CASE Unplug \/ Finished \/ UNCHANGED vars
  BY <1>12 DEF Unplug, Finished, vars, modem, files, Shapes
<1>13. CASE StartRun
  BY <1>13 DEF StartRun, files, Shapes
<1>14. QED
  BY <1>1, <1>2, <1>3, <1>4, <1>5, <1>6, <1>7, <1>8, <1>9, <1>10, <1>11, <1>12, <1>13 DEF Next, Step

-----------------------------------------------------------------------------
(* What is carried over.                                                    *)

Opening == {"close", "close1", "getstat", "getopen", "putstat", "putopen"}

\* readfile() and get_file(): the buffer is the beginning of the file.
Got ==
    /\ opt.cmd # "be" =>
          \/ saved = <<>>
          \/ /\ opt.cmd = "gf" /\ pc \in Ended /\ saved \in Seq(BlockValues)
             /\ Len(saved) <= Len(data[opt.node])
             /\ \A i \in 1 .. Len(saved) : saved[i] = data[opt.node][i]
    /\ pc \in Opening => fd = 0
    /\ pc \in {"close", "close1", "getstat", "getopen"} => fbuf = <<>>
    /\ pc = "getopen" => size > 0
    /\ pc = "read" => n <= size /\ Len(fbuf) = n - 1
    /\ pc = "getclose" => Len(fbuf) = size
    /\ pc \in {"read", "getclose"} =>
          /\ Len(fbuf) <= Len(data[opt.node])
          /\ \A i \in 1 .. Len(fbuf) : fbuf[i] = data[opt.node][i]
    /\ pc \in {"getopen", "read", "getclose"} /\ clean => size = Len(data[opt.node])
    /\ pc = "done" /\ clean /\ opt.cmd = "gf" /\ fd # 0 => saved = data[opt.node]

\* back_efs(): the pages up to the one in hand.
PagesTo(m) == [p \in 1 .. m |-> p]
Dumped ==
    opt.cmd = "be" =>
        \E m \in 0 .. Pages :
            /\ saved = PagesTo(m)
            /\ pc \in {"close", "prep", "begin"} => m = 0
            /\ pc = "page" => n = m + 1
            /\ pc = "end" => m = Pages
            /\ pc = "done" /\ clean => m = Pages /\ ~image

\* write_file(): the blocks up to the one in hand are in the file.
HoldsLocal(m) ==
    /\ target \in Nodes /\ m <= Len(data[target])
    /\ \A i \in 1 .. m : data[target][i] = Local[i]
Stored ==
    /\ pc = "write" /\ clean => HoldsLocal(n - 1)
    /\ pc = "putclose" /\ clean => HoldsLocal(LocalSize)
    /\ pc = "done" /\ clean /\ opt.cmd = "wf" /\ fd # 0 => HoldsLocal(LocalSize)

Carried == Got /\ Dumped /\ Stored

LEMMA InitCarried == Init => Carried
<1> SUFFICES ASSUME Init PROVE Carried
  OBVIOUS
<1>1. pc = "close" /\ saved = <<>> /\ fd = 0 /\ fbuf = <<>>
  BY DEF Init, InitRun
<1>2. saved = PagesTo(0) /\ 0 \in 0 .. Pages
  BY <1>1, ConstantsAssumption DEF PagesTo
<1>3. Got
  BY <1>1 DEF Got
<1>4. Dumped
  BY <1>1, <1>2 DEF Dumped
<1>5. Stored
  BY <1>1 DEF Stored
<1>6. QED
  BY <1>3, <1>4, <1>5 DEF Carried

LEMMA NextGot == OnItsWay /\ Shapes /\ Got /\ [Next]_vars => Got'
<1> SUFFICES ASSUME OnItsWay, Shapes, Got, [Next]_vars PROVE Got'
  OBVIOUS
<1> USE DEF Ended, Opening
<1>0. /\ data \in [Nodes -> Seq(BlockValues)] /\ fbuf \in Seq(BlockValues) /\ size \in Nat
      /\ opt.node \in Nodes /\ data[opt.node] \in Seq(BlockValues) /\ n \in Nat \ {0}
  BY ConstantsAssumption DEF Shapes, OnItsWay
<1>1. CASE CloseHandles
  <2>1. /\ pc = "close" /\ saved' = saved /\ fbuf' = fbuf /\ fd' = fd /\ opt' = opt
        /\ pc' \in {"close", "stat", "close1", "prep", "change"}
    BY <1>1, ConstantsAssumption DEF CloseHandles, CloseHandlesFrom, Work, host, OnItsWay, Cmds, Lists
  <2>2. QED
    BY <2>1 DEF Got
<1>2. CASE StatList \/ Opendir \/ ReadEntry \/ SkipEntry \/ Descend \/ Reopen \/ EndOfList \/ Leave \/ Subdirs
  <2>1. saved' = saved /\ opt' = opt /\ pc \in ListLabels
    BY <1>2 DEF StatList, Opendir, ReadEntry, SkipEntry, Descend, Reopen, EndOfList, Leave, Subdirs,
         host, ListLabels
  <2>2. OnItsWay' /\ opt.cmd \in Lists /\ opt'.cmd \in Lists
    BY <2>1, NextOnItsWay DEF OnItsWay
  <2>3. pc' \in ListLabels \cup Ended
    BY <1>2, <2>2, Returns DEF StatList, Opendir, ReadEntry, SkipEntry, Descend, Reopen, EndOfList, Leave,
       LeaveTo, Subdirs, ListLabels, OnItsWay
  <2>4. opt'.cmd \notin {"be", "gf"} /\ saved' = <<>>
    BY <2>1, <2>2 DEF Lists, Got, ListLabels
  <2>5. QED
    BY <2>3, <2>4 DEF Got, ListLabels
<1>3. CASE Change
  <2>1. pc' = "done" /\ saved' = saved /\ opt' = opt /\ opt.cmd \in {"ef", "ed", "md"} /\ pc = "change"
    BY <1>3 DEF Change, host, OnItsWay
  <2>2. QED
    BY <2>1 DEF Got
<1>4. CASE CloseFirst
  <2>1. /\ pc = "close1" /\ pc' \in {"getstat", "putstat"} /\ saved' = saved /\ fbuf' = fbuf /\ fd' = fd
        /\ opt' = opt
    BY <1>4 DEF CloseFirst, AfterClose1, host
  <2>2. QED
    BY <2>1 DEF Got
<1>5. CASE GetStat
  <2>1. /\ pc = "getstat" /\ pc' = IF size' = 0 THEN "done" ELSE "getopen"
        /\ saved' = saved /\ fbuf' = fbuf /\ fd' = fd /\ opt' = opt /\ data' = data
    BY <1>5 DEF GetStat, host, modem, files
  <2>2. size' \in Nat
    <3>1. Shapes'
      BY NextShapes
    <3>2. QED
      BY <3>1 DEF Shapes
  <2>3. pc' = "getopen" => size' > 0
    BY <2>1, <2>2
  <2>4. ASSUME pc' = "getopen", clean' PROVE size' = Len(data[opt.node])
    <3>1. Answered /\ size' = IF kind[opt.node] = "file" THEN Len(data[opt.node]) ELSE 0
      BY <1>5, <2>4 DEF GetStat, Failed, Lost, Silent
    <3>2. QED
      BY <2>1, <2>4, <3>1
  <2>5. QED
    BY <2>1, <2>3, <2>4 DEF Got
<1>6. CASE GetOpen
  <2>1. /\ pc = "getopen" /\ pc' \in {"read", "done"} /\ saved' = saved /\ fbuf' = fbuf /\ opt' = opt
        /\ data' = data /\ size' = size /\ n' = n /\ (pc' = "done" => fd' = fd)
    BY <1>6 DEF GetOpen, host, files
  <2>2. clean' => clean
    <3>1. clean' = clean \/ clean' = FALSE
      BY <1>6 DEF GetOpen, Answered, Failed, Lost, Silent
    <3>2. QED
      BY <3>1
  <2>3. fbuf = <<>> /\ size > 0 /\ n = 1 /\ (saved = <<>> \/ opt.cmd = "be")
    BY <2>1 DEF Got, Shapes
  <2>4. opt.cmd = "gf"
    BY <2>1 DEF OnItsWay, GetLabels
  <2>5. Len(fbuf) = 0 /\ n <= size
    BY <1>0, <2>3, <2>4
  <2>6. QED
    BY <1>0, <2>1, <2>2, <2>3, <2>4, <2>5 DEF Got
<1>7. CASE ReadBlock
  <2>1. /\ pc = "read" /\ saved' = saved /\ fd' = fd /\ opt' = opt /\ data' = data /\ size' = size
        /\ opt.cmd = "gf" /\ saved = <<>>
    BY <1>7 DEF ReadBlock, host, modem, files, OnItsWay, GetLabels, Got
  <2>2. n <= size /\ Len(fbuf) = n - 1 /\ Len(fbuf) <= Len(data[opt.node])
        /\ \A i \in 1 .. Len(fbuf) : fbuf[i] = data[opt.node][i]
    BY <2>1 DEF Got
  <2>3. CASE /\ Answered /\ n <= Len(data[opt.node])
             /\ fbuf' = Append(fbuf, data[opt.node][n])
             /\ n' = n + 1 /\ pc' = IF ReadEnds THEN "getclose" ELSE "read"
    <3>1. /\ Len(fbuf') = n /\ \A i \in 1 .. n - 1 : fbuf'[i] = fbuf[i]
          /\ fbuf'[n] = data[opt.node][n]
      BY <1>0, <2>2, <2>3
    <3>2. \A i \in 1 .. Len(fbuf') : fbuf'[i] = data'[opt'.node][i]
      <4> SUFFICES ASSUME NEW i \in 1 .. Len(fbuf') PROVE fbuf'[i] = data[opt.node][i]
        BY <2>1
      <4>1. i = n \/ i \in 1 .. n - 1
        BY <1>0, <3>1
      <4>2. QED
        BY <2>2, <3>1, <4>1
    <3>3. clean' = clean
      BY <2>3 DEF Answered
    <3>4. pc' = IF n >= size THEN "getclose" ELSE "read"
      BY <2>3 DEF ReadEnds
    <3>5. pc' = "getclose" => Len(fbuf') = size
      BY <1>0, <2>2, <3>1, <3>4
    <3>6. pc' = "read" => n' <= size' /\ Len(fbuf') = n' - 1
      BY <1>0, <2>1, <2>3, <3>1, <3>4
    <3>7. clean' => size' = Len(data'[opt'.node])
      BY <2>1, <3>3 DEF Got
    <3>8. pc' \in {"getclose", "read"} /\ Len(fbuf') <= Len(data'[opt'.node])
      BY <2>1, <2>3, <3>1, <3>4
    <3>9. size' = size /\ saved' = <<>>
      BY <2>1
    <3>10. QED
      BY <3>2, <3>5, <3>6, <3>7, <3>8, <3>9 DEF Got
  <2>4. CASE /\ (Answered /\ n > Len(data[opt.node])) \/ Failed
             /\ pc' = "done"
    <3>1. ~clean'
      <4>1. CASE Failed
        BY <4>1 DEF Failed, Lost, Silent
      <4>2. CASE Answered /\ n > Len(data[opt.node])
        <5>1. clean' = clean
          BY <4>2 DEF Answered
        <5>2. ASSUME clean PROVE FALSE
          <6>1. size = Len(data[opt.node])
            BY <2>1, <5>2 DEF Got
          <6>2. QED
            BY <1>0, <2>2, <4>2, <6>1
        <5>3. QED
          BY <5>1, <5>2
      <4>3. QED
        BY <2>4, <4>1, <4>2
    <3>2. saved' = <<>>
      BY <2>1
    <3>3. QED
      BY <2>4, <3>1, <3>2 DEF Got
  <2>5. QED
    BY <1>7, <2>3, <2>4 DEF ReadBlock
<1>8. CASE GetClose
  <2>1. /\ pc = "getclose" /\ pc' = "done" /\ saved' = fbuf /\ opt' = opt /\ data' = data /\ opt.cmd = "gf"
    BY <1>8 DEF GetClose, host, files, OnItsWay, GetLabels
  <2>2. clean' => clean
    <3>1. clean' = clean \/ clean' = FALSE
      BY <1>8 DEF GetClose, CloseFd, Answered, Failed, Lost, Silent
    <3>2. QED
      BY <3>1
  <2>3. /\ Len(fbuf) = size /\ Len(fbuf) <= Len(data[opt.node])
        /\ \A i \in 1 .. Len(fbuf) : fbuf[i] = data[opt.node][i]
        /\ clean => size = Len(data[opt.node])
    BY <2>1 DEF Got
  <2>4. clean => fbuf = data[opt.node]
    BY <1>0, <2>3
  <2>5. QED
    BY <1>0, <2>1, <2>2, <2>3, <2>4 DEF Got
<1>9. CASE PutStat \/ PutOpen \/ WriteBlock \/ PutClose
  <2>1. saved' = saved /\ opt' = opt /\ opt.cmd = "wf" /\ pc' \in {"putopen", "write", "putclose", "done"}
        /\ pc \in PutLabels
    BY <1>9 DEF PutStat, PutOpen, WriteBlock, PutClose, host, OnItsWay, PutLabels
  <2>2. saved = <<>>
    BY <2>1 DEF Got
  <2>3. pc' = "putopen" => fd' = 0
    BY <1>9 DEF PutStat, PutOpen, WriteBlock, PutClose, Got
  <2>4. QED
    BY <2>1, <2>2, <2>3 DEF Got
<1>10. CASE Prepare \/ Begin \/ ReadPage \/ EndImage
  <2>1. opt' = opt /\ opt.cmd = "be" /\ pc' \in {"begin", "page", "end", "done"}
    BY <1>10 DEF Prepare, Begin, ReadPage, EndImage, host, OnItsWay, DumpLabels
  <2>2. QED
    BY <2>1 DEF Got
<1>11. CASE Kill
  <2>1. pc' = "killed" /\ saved' = saved /\ opt' = opt /\ data' = data
    BY <1>11 DEF Kill, host, modem, files
  <2>2. QED
    BY <2>1 DEF Got
<1>12. CASE Unplug \/ Finished \/ UNCHANGED vars
  BY <1>12 DEF Unplug, Finished, vars, host, modem, files, Got
<1>13. CASE StartRun
  BY <1>13 DEF StartRun, Got
<1>14. QED
  BY <1>1, <1>2, <1>3, <1>4, <1>5, <1>6, <1>7, <1>8, <1>9, <1>10, <1>11, <1>12, <1>13 DEF Next, Step

LEMMA NextDumped == OnItsWay /\ Shapes /\ Dumped /\ [Next]_vars => Dumped'
<1> SUFFICES ASSUME OnItsWay, Shapes, Dumped, [Next]_vars PROVE Dumped'
  OBVIOUS
<1> USE DEF Ended
<1>0. Pages \in Nat \ {0} /\ n \in Nat \ {0}
  BY ConstantsAssumption DEF OnItsWay
<1>1. CASE opt.cmd = "be" /\ opt' = opt
  <2>1. PICK m \in 0 .. Pages :
            /\ saved = PagesTo(m)
            /\ pc \in {"close", "prep", "begin"} => m = 0
            /\ pc = "page" => n = m + 1
            /\ pc = "end" => m = Pages
            /\ pc = "done" /\ clean => m = Pages /\ ~image
    BY <1>1 DEF Dumped
  <2>2. pc \in {"close"} \cup DumpLabels \cup Ended
    BY <1>1 DEF OnItsWay, Lists, ListLabels, GetLabels, PutLabels
  <2>3. CASE CloseHandles
    <3>1. pc = "close" /\ saved' = saved /\ pc' \in {"close", "prep"}
      BY <1>1, <2>3 DEF CloseHandles, CloseHandlesFrom, Work, Lists
    <3>2. QED
      BY <2>1, <3>1 DEF Dumped
  <2>4. CASE Prepare
    <3>1. /\ pc = "prep" /\ saved' = saved /\ pc' \in {"begin", "done"}
          /\ pc' = "done" => clean' = FALSE
      BY <2>4 DEF Prepare, Failed, Lost, Silent
    <3>2. QED
      BY <2>1, <3>1 DEF Dumped
  <2>5. CASE Begin
    <3>1. /\ pc = "begin" /\ saved' = saved /\ pc' \in {"page", "done"} /\ n' = n
          /\ pc' = "done" => clean' = FALSE
      BY <2>5 DEF Begin, Failed, Lost, Silent
    <3>2. n = 1
      BY <3>1 DEF Shapes
    <3>3. m = 0 /\ n' = m + 1
      BY <2>1, <3>1, <3>2
    <3>4. QED
      BY <2>1, <3>1, <3>3 DEF Dumped
  <2>6. CASE ReadPage
    <3>1. pc = "page" /\ n = m + 1
      BY <2>1, <2>6 DEF ReadPage
    <3>2. CASE Failed /\ pc' = "done" /\ n' = n /\ saved' = saved
      <4>1. clean' = FALSE
        BY <3>2 DEF Failed, Lost, Silent
      <4>2. QED
        BY <2>1, <3>2, <4>1 DEF Dumped
    <3>3. CASE Answered /\ DumpEnds /\ pc' = "end" /\ n' = n /\ saved' = saved
      <4>1. m = Pages
        BY <1>0, <3>1, <3>3 DEF DumpEnds
      <4>2. QED
        BY <2>1, <3>3, <4>1 DEF Dumped
    <3>4. CASE Answered /\ ~DumpEnds /\ saved' = Append(saved, n) /\ n' = n + 1 /\ pc' = pc
      <4>1. m + 1 \in 0 .. Pages /\ n' = (m + 1) + 1
        BY <1>0, <3>1, <3>4 DEF DumpEnds
      <4>2. saved' = PagesTo(m + 1)
        <5> DEFINE f == PagesTo(m)
                   g == PagesTo(m + 1)
        <5>1. m \in Nat /\ f \in [1 .. m -> Nat] /\ g \in [1 .. m + 1 -> Nat]
              /\ (\A i \in 1 .. m : g[i] = f[i]) /\ g[m + 1] = n
          BY <3>1 DEF PagesTo
        <5>2. saved' = Append(f, n)
          BY <2>1, <3>4
        <5> HIDE DEF f, g
        <5>3. g = Append(f, g[m + 1])
          BY <5>1, AppendIs
        <5>4. QED
          BY <5>1, <5>2, <5>3 DEF g
      <4>3. QED
        BY <3>1, <3>4, <4>1, <4>2 DEF Dumped
    <3>5. QED
      BY <2>6, <3>2, <3>3, <3>4 DEF ReadPage
  <2>7. CASE EndImage
    <3>1. pc = "end" /\ pc' = "done" /\ saved' = saved
      BY <2>7 DEF EndImage
    <3>2. clean' => ~image'
      <4>1. CASE (Answered \/ Lost) /\ image' = FALSE
        BY <4>1
      <4>2. CASE Failed
        BY <4>2 DEF Failed, Lost, Silent
      <4>3. QED
        BY <2>7, <4>1, <4>2 DEF EndImage
    <3>3. QED
      BY <2>1, <3>1, <3>2 DEF Dumped
  <2>8. CASE Kill
    <3>1. pc' = "killed" /\ saved' = saved
      BY <2>8 DEF Kill
    <3>2. QED
      BY <2>1, <3>1 DEF Dumped
  <2>9. CASE Unplug \/ Finished \/ UNCHANGED vars
    <3>1. pc' = pc /\ saved' = saved /\ n' = n /\ clean' = clean /\ image' = image
      BY <2>9 DEF Unplug, Finished, vars, modem, files
    <3>2. QED
      BY <2>1, <3>1 DEF Dumped
  <2>10. CASE StartRun
    <3>1. pc' = "close" /\ saved' = <<>>
      BY <2>10 DEF StartRun
    <3>2. saved' = PagesTo(0) /\ 0 \in 0 .. Pages
      BY <1>0, <3>1 DEF PagesTo
    <3>3. QED
      BY <3>1, <3>2 DEF Dumped
  <2>11. CASE StatList \/ Opendir \/ ReadEntry \/ SkipEntry \/ Descend \/ Reopen
              \/ EndOfList \/ Leave \/ Subdirs \/ Change \/ CloseFirst \/ GetStat \/ GetOpen
              \/ ReadBlock \/ GetClose \/ PutStat \/ PutOpen \/ WriteBlock \/ PutClose
    <3>1. pc \notin {"close"} \cup DumpLabels \cup Ended
      BY <2>11 DEF StatList, Opendir, ReadEntry, SkipEntry, Descend, Reopen, EndOfList, Leave, Subdirs, Change,
           CloseFirst, GetStat, GetOpen, ReadBlock, GetClose, PutStat, PutOpen, WriteBlock, PutClose, DumpLabels
    <3>2. QED
      BY <2>2, <3>1
  <2>12. QED
    BY <2>3, <2>4, <2>5, <2>6, <2>7, <2>8, <2>9, <2>10, <2>11 DEF Next, Step
<1>2. CASE opt.cmd # "be" /\ opt' = opt
  BY <1>2 DEF Dumped
<1>3. CASE StartRun
  <2>1. pc' = "close" /\ saved' = <<>>
    BY <1>3 DEF StartRun
  <2>2. saved' = PagesTo(0) /\ 0 \in 0 .. Pages
    BY <1>0, <2>1 DEF PagesTo
  <2>3. QED
    BY <2>1, <2>2 DEF Dumped
<1>4. CASE ~StartRun
  <2>1. opt' = opt
    BY <1>4 DEF Next, Step, CloseHandles, CloseHandlesFrom, StatList, Opendir, ReadEntry, SkipEntry, Descend,
       Reopen, EndOfList, Leave, Subdirs, Change, CloseFirst, GetStat, GetOpen, ReadBlock, GetClose, PutStat,
       PutOpen, WriteBlock, PutClose, Prepare, Begin, ReadPage, EndImage, Kill, Unplug, Finished, vars, host
  <2>2. QED
    BY <1>1, <1>2, <2>1
<1>5. QED
  BY <1>3, <1>4

LEMMA NextStored == OnItsWay /\ Shapes /\ Got /\ Stored /\ [Next]_vars => Stored'
<1> SUFFICES ASSUME OnItsWay, Shapes, Got, Stored, [Next]_vars PROVE Stored'
  OBVIOUS
<1> USE DEF Ended
<1>0. /\ data \in [Nodes -> Seq(BlockValues)] /\ fbuf \in Seq(BlockValues) /\ size \in Nat
      /\ n \in Nat \ {0} /\ LocalSize \in Nat
  BY ConstantsAssumption DEF Shapes, OnItsWay
<1>1. CASE PutStat
  <2>1. pc = "putstat" /\ pc' \in {"done", "putopen"} /\ fd' = fd
    BY <1>1 DEF PutStat
  <2>2. fd' = 0
    BY <2>1 DEF Got, Opening
  <2>3. QED
    BY <2>1, <2>2 DEF Stored
<1>2. CASE PutOpen
  <2>1. /\ pc = "putopen" /\ data' = data /\ target' = target /\ n' = n /\ target \in Nodes /\ n = 1
        /\ fd = 0 /\ size = LocalSize
    BY <1>2 DEF PutOpen, Shapes, Got, Opening
  <2>2. \/ pc' = "done" /\ fd' = fd
        \/ pc' = IF size = 0 THEN "putclose" ELSE "write"
    BY <1>2 DEF PutOpen
  <2>3. HoldsLocal(0)'
    <3>1. Len(data[target]) \in Nat
      BY <1>0, <2>1
    <3>2. QED
      BY <2>1, <3>1 DEF HoldsLocal
  <2>4. CASE pc' = "done" /\ fd' = fd
    BY <2>1, <2>4 DEF Stored
  <2>5. CASE pc' = IF size = 0 THEN "putclose" ELSE "write"
    <3>1. pc' = "write" => HoldsLocal(n - 1)'
      <4>1. n' - 1 = 0
        BY <2>1
      <4>2. QED
        BY <2>3, <4>1
    <3>2. pc' = "putclose" => LocalSize = 0
      BY <2>1, <2>5
    <3>3. QED
      BY <2>3, <2>5, <3>1, <3>2 DEF Stored
  <2>6. QED
    BY <2>2, <2>4, <2>5
<1>3. CASE WriteBlock
  <2>1. /\ pc = "write" /\ target' = target /\ n' = n + 1
        /\ pc' = IF n = size THEN "putclose" ELSE "write"
    BY <1>3 DEF WriteBlock
  <2>2. target \in Nodes /\ fbuf = Local /\ size = LocalSize /\ n <= LocalSize
    BY <2>1 DEF Shapes
  <2>3. ASSUME clean'
        PROVE  /\ target' \in Nodes /\ n <= Len(data'[target'])
               /\ \A i \in 1 .. n : data'[target'][i] = Local[i]
    <3>1. clean /\ data' = [data EXCEPT ![target] = Written(target)]
      BY <1>3, <2>3 DEF WriteBlock, Answered, Failed, Lost, Silent
    <3>2. HoldsLocal(n - 1)
      BY <2>1, <3>1 DEF Stored
    <3>3. n \in 1 .. Len(fbuf)
      BY <1>0, <2>2, LocalIs
    <3> DEFINE w == Written(target)
    <3>4. /\ w \in Seq(BlockValues) /\ Len(w) \in Nat /\ Len(w) >= n /\ Len(w) >= Len(data[target])
          /\ w[n] = fbuf[n]
          /\ \A i \in 1 .. Len(w) : i # n => w[i] = IF i <= Len(data[target]) THEN data[target][i] ELSE Hole
      BY <1>0, <2>2, <3>3, WrittenIs
    <3>5. data'[target] = w
      BY <1>0, <2>2, <3>1
    <3> HIDE DEF w
    <3>6. \A i \in 1 .. n : w[i] = Local[i]
      <4> SUFFICES ASSUME NEW i \in 1 .. n PROVE w[i] = Local[i]
        OBVIOUS
      <4>1. CASE i = n
        BY <2>2, <3>4, <4>1
      <4>2. CASE i # n
        <5>1. i \in 1 .. n - 1 /\ i \in 1 .. Len(w)
          BY <1>0, <3>4, <4>2
        <5>2. data[target][i] = Local[i] /\ i <= Len(data[target])
          <6>1. n - 1 <= Len(data[target]) /\ Len(data[target]) \in Nat
            BY <1>0, <2>2, <3>2 DEF HoldsLocal
          <6>2. QED
            BY <1>0, <3>2, <5>1, <6>1 DEF HoldsLocal
        <5>3. QED
          BY <3>4, <4>2, <5>1, <5>2
      <4>3. QED
        BY <4>1, <4>2
    <3>7. QED
      BY <1>0, <2>1, <2>2, <3>4, <3>5, <3>6
  <2>4. CASE pc' = "write"
    <3>1. n' - 1 = n
      BY <1>0, <2>1
    <3>2. clean' => HoldsLocal(n - 1)'
      BY <2>3, <3>1 DEF HoldsLocal
    <3>3. QED
      BY <2>4, <3>2 DEF Stored
  <2>5. CASE pc' = "putclose"
    <3>1. n = LocalSize
      BY <2>1, <2>2, <2>5
    <3>2. clean' => HoldsLocal(LocalSize)'
      BY <2>3, <3>1 DEF HoldsLocal
    <3>3. QED
      BY <2>5, <3>2 DEF Stored
  <2>6. QED
    BY <2>1, <2>4, <2>5
<1>4. CASE PutClose
  <2>1. pc = "putclose" /\ pc' = "done" /\ data' = data /\ target' = target
    BY <1>4 DEF PutClose, files
  <2>2. clean' = clean \/ clean' = FALSE
    BY <1>4 DEF PutClose, CloseFd, Answered, Failed, Lost, Silent
  <2>3. QED
    BY <2>1, <2>2 DEF Stored, HoldsLocal
<1>5. CASE Unplug \/ Finished \/ UNCHANGED vars
  <2>1. /\ pc' = pc /\ clean' = clean /\ opt' = opt /\ fd' = fd /\ data' = data /\ target' = target /\ n' = n
    BY <1>5 DEF Unplug, Finished, vars, modem, host, files
  <2>2. QED
    BY <2>1 DEF Stored, HoldsLocal
<1>6. CASE Kill \/ StartRun
  BY <1>6 DEF Kill, StartRun, Stored
<1>7. CASE \/ CloseHandles \/ StatList \/ Opendir \/ ReadEntry \/ SkipEntry \/ Descend \/ Reopen
           \/ EndOfList \/ Leave \/ Subdirs \/ Change \/ CloseFirst \/ GetStat \/ GetOpen
           \/ ReadBlock \/ GetClose \/ Prepare \/ Begin \/ ReadPage \/ EndImage
  <2>1. opt' = opt /\ OnItsWay'
    BY <1>7, NextOnItsWay DEF CloseHandles, CloseHandlesFrom, StatList, Opendir, ReadEntry, SkipEntry, Descend,
       Reopen, EndOfList, Leave, Subdirs, Change, CloseFirst, GetStat, GetOpen, ReadBlock, GetClose,
       Prepare, Begin, ReadPage, EndImage, host
  <2>2. pc \in {"close", "close1", "change"} \cup ListLabels \cup GetLabels \cup DumpLabels
    BY <1>7 DEF CloseHandles, CloseHandlesFrom, StatList, Opendir, ReadEntry, SkipEntry, Descend,
       Reopen, EndOfList, Leave, Subdirs, Change, CloseFirst, GetStat, GetOpen, ReadBlock, GetClose,
       Prepare, Begin, ReadPage, EndImage, ListLabels, GetLabels, DumpLabels
  <2>3. CASE opt.cmd # "wf"
    BY <2>1, <2>3 DEF Stored, OnItsWay, PutLabels
  <2>4. CASE opt.cmd = "wf"
    <3>1. pc \in {"close", "close1"}
      BY <2>2, <2>4 DEF OnItsWay, Lists, ListLabels, GetLabels, DumpLabels
    <3>2. CloseHandles \/ CloseFirst
      BY <1>7, <3>1 DEF StatList, Opendir, ReadEntry, SkipEntry, Descend, Reopen, EndOfList, Leave, Subdirs,
         Change, GetStat, GetOpen, ReadBlock, GetClose, Prepare, Begin, ReadPage, EndImage
    <3>3. pc' \in {"close", "close1", "putstat"}
      BY <2>4, <3>2 DEF CloseHandles, CloseHandlesFrom, Work, CloseFirst, AfterClose1, Lists
    <3>4. QED
      BY <3>3 DEF Stored
  <2>5. QED
    BY <2>3, <2>4
<1>8. QED
  BY <1>1, <1>2, <1>3, <1>4, <1>5, <1>6, <1>7 DEF Next, Step

LEMMA PrefixIs ==
  ASSUME NEW S, NEW s \in Seq(S), NEW t \in Seq(S), Len(s) <= Len(t),
         \A i \in 1 .. Len(s) : s[i] = t[i]
  PROVE  IsPrefix(s, t)
<1>1. SubSeq(s, 1, Len(s)) = s /\ SubSeq(t, 1, Len(s)) = s
  OBVIOUS
<1>2. QED
  BY <1>1 DEF IsPrefix

\* Files and dumps are carried over whole (qefs.c:45, 356, 437), whatever their sizes and what the
\* modem held before: what is saved is a beginning of what was there, and with every request
\* answered all of it; a file that is written is the local file, block for block.
THEOREM CopiesAreExact == Spec => []CopiesExact
<1> DEFINE I == OnItsWay /\ Shapes /\ Carried
<1>1. Init => I
  BY InitOnItsWay, InitShapes, InitCarried
<1>2. I /\ [Next]_vars => I'
  BY NextOnItsWay, NextShapes, NextGot, NextDumped, NextStored DEF Carried
<1>3. I => CopiesExact
  <2> SUFFICES ASSUME I PROVE CopiesExact
    OBVIOUS
  <2>1. /\ data \in [Nodes -> Seq(BlockValues)] /\ opt.node \in Nodes /\ data[opt.node] \in Seq(BlockValues)
        /\ Pages \in Nat /\ LocalSize \in Nat
    BY ConstantsAssumption DEF Shapes, OnItsWay
  <2>2. CASE opt.cmd = "be"
    <3>1. PICK m \in 0 .. Pages : saved = PagesTo(m) /\ (pc = "done" /\ clean => m = Pages /\ ~image)
      BY <2>2 DEF Carried, Dumped
    <3>2. IsPrefix(PagesTo(m), PagesTo(Pages))
      <4> DEFINE s == PagesTo(m)
                 t == PagesTo(Pages)
      <4>1. /\ s \in Seq(Nat) /\ t \in Seq(Nat) /\ Len(s) = m /\ Len(t) = Pages
            /\ \A i \in 1 .. m : s[i] = t[i]
        BY <2>1 DEF PagesTo
      <4> HIDE DEF s, t
      <4>2. IsPrefix(s, t)
        BY <4>1, PrefixIs
      <4>3. QED
        BY <4>2 DEF s, t
    <3>3. CopyExact
      BY <2>2, <3>1, <3>2 DEF CopyExact, PagesTo
    <3>4. PutExact
      BY <2>2 DEF PutExact
    <3>5. QED
      BY <3>3, <3>4 DEF CopiesExact
  <2>3. CASE opt.cmd # "be"
    <3>1. IsPrefix(saved, data[opt.node])
      <4>1. /\ saved \in Seq(BlockValues) /\ Len(saved) <= Len(data[opt.node])
            /\ \A i \in 1 .. Len(saved) : saved[i] = data[opt.node][i]
        <5>1. CASE saved = <<>>
          BY <2>1, <5>1
        <5>2. CASE saved # <<>>
          BY <2>3, <5>2 DEF Carried, Got
        <5>3. QED
          BY <5>1, <5>2
      <4>2. QED
        BY <2>1, <4>1, PrefixIs
    <3>2. pc = "done" /\ clean /\ opt.cmd = "gf" /\ fd # 0 => saved = data[opt.node]
      BY DEF Carried, Got
    <3>3. CopyExact
      BY <2>3, <3>1, <3>2 DEF CopyExact
    <3>4. PutExact
      <4> SUFFICES ASSUME pc = "done", clean, opt.cmd = "wf", fd # 0
                   PROVE  /\ IsPrefix(Local, data[target])
                          /\ \A i \in LocalSize + 1 .. Len(data[target]) :
                                data[target][i] \in {[of |-> target, k |-> i], Hole}
        BY DEF PutExact
      <4>1. HoldsLocal(LocalSize)
        BY DEF Carried, Stored
      <4>2. target \in Nodes /\ data[target] \in Seq(BlockValues)
        BY <2>1, <4>1 DEF HoldsLocal
      <4>3. IsPrefix(Local, data[target])
        BY <4>1, <4>2, LocalIs, PrefixIs DEF HoldsLocal
      <4>4. \A i \in LocalSize + 1 .. Len(data[target]) :
                data[target][i] \in {[of |-> target, k |-> i], Hole}
        <5> SUFFICES ASSUME NEW i \in LocalSize + 1 .. Len(data[target])
                     PROVE  data[target][i] \in {[of |-> target, k |-> i], Hole}
          OBVIOUS
        <5>1. i \in 1 .. Len(data[target]) /\ i > LocalSize
          BY <2>1, <4>2
        <5>2. QED
          BY <4>2, <5>1 DEF Shapes
      <4>5. QED
        BY <4>3, <4>4
    <3>5. QED
      BY <3>3, <3>4 DEF CopiesExact
  <2>4. QED
    BY <2>2, <2>3
<1> HIDE DEF I
<1>4. QED
  BY <1>1, <1>2, <1>3, PTL DEF Spec

-----------------------------------------------------------------------------
(* Directories, the nodes above and the numbers of entries.                 *)

LEMMA PlaceIs ==
  /\ \A c \in Nodes \ {Root} : Place(c) \in Nat /\ Order[Place(c)] = c
  /\ \A a, c \in Nodes \ {Root} : Place(a) = Place(c) => a = c
<1>1. ASSUME NEW c \in Nodes \ {Root} PROVE Place(c) \in Nat /\ Order[Place(c)] = c
  <2>1. \E i \in DOMAIN Order : Order[i] = c
    BY OrderAssumption
  <2>2. DOMAIN Order \subseteq Nat
    BY OrderAssumption
  <2>3. Place(c) \in DOMAIN Order /\ Order[Place(c)] = c
    BY <2>1 DEF Place
  <2>4. QED
    BY <2>2, <2>3
<1>2. QED
  BY <1>1

\* The nodes above x are its directory and those above that.
LEMMA AboveIs ==
  ASSUME NEW x \in Nodes
  PROVE  Above(x) = {Parent[x]} \cup Above(Parent[x]) /\ Above(x) \subseteq Nodes
<1> DEFINE p == Parent[x]
           T == {p} \cup Above(p)
<1>1. p \in Nodes /\ \A z \in Nodes : Parent[z] \in Nodes
  BY ConstantsAssumption
<1>2. T \in SUBSET Nodes
  BY <1>1 DEF Above
<1>3. \A z \in T : Parent[z] \in T
  <2> SUFFICES ASSUME NEW z \in T PROVE Parent[z] \in T
    OBVIOUS
  <2>1. Parent[z] \in Above(p)
    <3> SUFFICES ASSUME NEW S \in SUBSET Nodes, Parent[p] \in S, \A y \in S : Parent[y] \in S
                 PROVE  Parent[z] \in S
      BY <1>1, <1>2 DEF Above
    <3>1. CASE z = p
      BY <3>1
    <3>2. CASE z \in Above(p)
      <4>1. z \in S
        BY <3>2 DEF Above
      <4> QED BY <4>1
    <3> QED BY <3>1, <3>2
  <2> QED BY <2>1
<1>4. Above(x) \subseteq T
  <2> SUFFICES ASSUME NEW y \in Above(x) PROVE y \in T
    OBVIOUS
  <2>1. p \in T
    OBVIOUS
  <2> HIDE DEF T
  <2> QED BY <1>2, <1>3, <2>1 DEF Above
<1>5. T \subseteq Above(x)
  <2> SUFFICES ASSUME NEW y \in T, NEW S \in SUBSET Nodes, p \in S, \A z \in S : Parent[z] \in S
               PROVE  y \in S
    BY <1>2 DEF Above
  <2>1. Parent[p] \in S
    OBVIOUS
  <2>2. CASE y = p
    BY <2>2
  <2>3. CASE y \in Above(p)
    BY <2>1, <2>3 DEF Above
  <2> QED BY <2>2, <2>3
<1>6. Above(x) \subseteq Nodes
  BY DEF Above
<1>7. QED
  BY <1>4, <1>5, <1>6

\* Nothing but Root is above itself, and what is above stands before.
LEMMA AboveBefore ==
  ASSUME NEW x \in Nodes \ {Root}, NEW y \in Above(x)
  PROVE  y \in Nodes /\ y # x /\ (y # Root => Place(y) < Place(x))
<1> DEFINE S == {z \in Nodes : z = Root \/ Place(z) < Place(x)}
<1>1. Parent[x] \in S
  BY ConstantsAssumption, OrderAssumption
<1>2. \A z \in S : Parent[z] \in S
  <2> SUFFICES ASSUME NEW z \in S PROVE Parent[z] \in S
    OBVIOUS
  <2>1. Parent[z] \in Nodes /\ (z = Root => Parent[z] = Root)
    BY ConstantsAssumption
  <2>2. CASE Parent[z] = Root
    BY <2>1, <2>2
  <2>3. CASE Parent[z] # Root
    <3>1. z \in Nodes \ {Root} /\ Place(z) < Place(x)
      BY <2>1, <2>3
    <3>2. Place(Parent[z]) < Place(z)
      BY <2>3, <3>1, OrderAssumption
    <3>3. Place(Parent[z]) \in Nat /\ Place(z) \in Nat /\ Place(x) \in Nat
      BY <2>1, <2>3, <3>1, PlaceIs
    <3>4. Place(Parent[z]) < Place(x)
      BY <3>1, <3>2, <3>3
    <3> QED BY <2>1, <3>4
  <2> QED BY <2>2, <2>3
<1>3. y \in S
  <2> HIDE DEF S
  <2>1. S \in SUBSET Nodes
    BY DEF S
  <2> QED BY <1>1, <1>2, <2>1 DEF Above
<1>4. Place(x) \in Nat
  BY PlaceIs
<1>5. QED
  BY <1>3, <1>4

LEMMA AboveRoot == Above(Root) = {Root}
<1>1. Root \in Nodes /\ Parent[Root] = Root
  BY ConstantsAssumption
<1>2. Root \in Above(Root)
  BY <1>1, AboveIs
<1>3. ASSUME NEW y \in Above(Root) PROVE y = Root
  <2>1. {Root} \in SUBSET Nodes /\ Parent[Root] \in {Root} /\ \A z \in {Root} : Parent[z] \in {Root}
    BY <1>1
  <2> QED BY <2>1 DEF Above
<1>4. QED
  BY <1>2, <1>3

\* A directory is one level above what is in it.
LEMMA DepthIs ==
  /\ \A x \in Nodes : Depth(x) \in Nat
  /\ \A x \in Nodes \ {Root} : Depth(x) = Depth(Parent[x]) + 1
<1>1. ASSUME NEW x \in Nodes
      PROVE  IsFiniteSet(Above(x) \cup {x}) /\ Depth(x) \in Nat
  <2>1. Above(x) \cup {x} \subseteq Nodes /\ IsFiniteSet(Nodes)
    BY ConstantsAssumption DEF Above
  <2>2. IsFiniteSet(Above(x) \cup {x})
    BY <2>1, FS_Subset
  <2> QED BY <2>2, FS_CardinalityType DEF Depth
<1>2. ASSUME NEW x \in Nodes \ {Root} PROVE Depth(x) = Depth(Parent[x]) + 1
  <2> DEFINE U == Above(Parent[x]) \cup {Parent[x]}
  <2>1. Parent[x] \in Nodes
    BY ConstantsAssumption
  <2>2. Above(x) = U
    BY AboveIs
  <2>3. x \notin U
    BY <2>2, AboveBefore
  <2>4. IsFiniteSet(U)
    BY <1>1, <2>1
  <2>5. Depth(x) = Cardinality(U \cup {x}) /\ Depth(Parent[x]) = Cardinality(U)
    BY <2>2 DEF Depth
  <2> HIDE DEF U
  <2> QED BY <2>3, <2>4, <2>5, FS_AddElement
<1>3. QED
  BY <1>1, <1>2

-----------------------------------------------------------------------------
\* The numbers of the entries of a directory follow their places.
LEMMA Numbers ==
  ASSUME NEW t, NEW c \in Nodes \ {Root}, t[c] # "none"
  PROVE  /\ Number(t, c) \in 1 .. Cardinality(Nodes) - 1
         /\ \A a \in Nodes \ {Root} : t[a] # "none" /\ Parent[a] = Parent[c] =>
               (Place(a) < Place(c) <=> Number(t, a) < Number(t, c))
<1> DEFINE E == Entries(t, Parent[c])
           U(a) == {x \in E : Place(x) <= Place(a)}
<1>1. IsFiniteSet(Nodes) /\ Cardinality(Nodes) \in Nat /\ E \subseteq Nodes
  BY ConstantsAssumption, FS_CardinalityType DEF Entries
<1>2. ASSUME NEW a \in E
      PROVE  IsFiniteSet(U(a)) /\ Cardinality(U(a)) \in Nat /\ Number(t, a) = Cardinality(U(a)) /\ a \in U(a)
  <2>1. U(a) \subseteq Nodes
    BY <1>1
  <2>2. IsFiniteSet(U(a))
    BY <1>1, <2>1, FS_Subset
  <2>3. Parent[a] = Parent[c]
    BY DEF Entries
  <2>4. a \in U(a)
    <3>1. Place(a) \in Nat
      BY PlaceIs DEF Entries
    <3> QED BY <3>1
  <2> QED BY <2>2, <2>3, <2>4, FS_CardinalityType DEF Number
<1>3. ASSUME NEW a \in E, NEW b \in E, Place(a) < Place(b) PROVE Number(t, a) < Number(t, b)
  <2>1. Place(a) \in Nat /\ Place(b) \in Nat /\ \A x \in E : Place(x) \in Nat
    BY PlaceIs DEF Entries
  <2>2. U(a) \subseteq U(b) /\ b \in U(b) /\ b \notin U(a)
    BY <1>3, <2>1
  <2>3. IsFiniteSet(U(b))
    BY <1>2
  <2>4. Cardinality(U(a)) < Cardinality(U(b))
    <3> DEFINE A == U(a)
               B == U(b)
    <3>1. A \subseteq B /\ A # B /\ IsFiniteSet(B)
      BY <2>2, <2>3
    <3> HIDE DEF A, B
    <3>2. IsFiniteSet(A) /\ Cardinality(A) <= Cardinality(B) /\ Cardinality(A) # Cardinality(B)
      BY <3>1, FS_Subset
    <3>3. Cardinality(A) < Cardinality(B)
      BY <3>1, <3>2, FS_CardinalityType
    <3> QED BY <3>3 DEF A, B
  <2> QED BY <1>2, <2>4
<1>4. c \in E
  BY DEF Entries
<1>5. Number(t, c) \in 1 .. Cardinality(Nodes) - 1
  <2> DEFINE A == U(c)
             N == Nodes \ {Root}
  <2>1. A \subseteq N /\ c \in A /\ IsFiniteSet(A) /\ Number(t, c) = Cardinality(A)
    BY <1>2, <1>4 DEF Entries
  <2>2. IsFiniteSet(N) /\ Cardinality(N) = Cardinality(Nodes) - 1
    BY <1>1, ConstantsAssumption, FS_RemoveElement
  <2> HIDE DEF A, N
  <2>3. Cardinality(A) <= Cardinality(N) /\ Cardinality(A) \in Nat
    BY <2>1, <2>2, FS_Subset, FS_CardinalityType
  <2>4. Cardinality(A) # 0
    BY <2>1, FS_EmptySet
  <2> QED BY <1>1, <2>1, <2>2, <2>3, <2>4
<1>6. ASSUME NEW a \in E PROVE Place(a) < Place(c) <=> Number(t, a) < Number(t, c)
  <2>1. Place(a) \in Nat /\ Place(c) \in Nat /\ (Place(a) = Place(c) => a = c)
    BY <1>4, PlaceIs DEF Entries
  <2>2. Number(t, a) \in Nat /\ Number(t, c) \in Nat
    BY <1>2, <1>4
  <2>3. CASE Place(a) < Place(c)
    BY <1>3, <1>4, <2>3
  <2>4. CASE Place(c) < Place(a)
    <3>1. Number(t, c) < Number(t, a)
      BY <1>3, <1>4, <2>4
    <3> QED BY <2>1, <2>2, <2>4, <3>1
  <2>5. CASE a = c
    BY <2>1, <2>2, <2>5
  <2> QED BY <2>1, <2>3, <2>4, <2>5
<1>7. QED
  BY <1>5, <1>6 DEF Entries

\* They leave no number out: where none is k, all are less.
LEMMA NumbersEnd ==
  ASSUME NEW t, NEW d \in Nodes, NEW k \in Nat \ {0},
         \A c \in Entries(t, d) : Number(t, c) # k
  PROVE  \A c \in Entries(t, d) : Number(t, c) < k
<1> DEFINE E == Entries(t, d)
           B == {c \in E : Number(t, c) > k}
           P == {Place(c) : c \in B}
<1> SUFFICES ASSUME B # {} PROVE FALSE
  <2> SUFFICES ASSUME NEW c \in E PROVE Number(t, c) < k
    OBVIOUS
  <2>1. Number(t, c) \in Nat
    BY Numbers DEF Entries
  <2> QED BY <2>1
<1>1. \A c \in E : c \in Nodes \ {Root} /\ t[c] # "none" /\ Parent[c] = d /\ Place(c) \in Nat
  BY PlaceIs DEF Entries
<1>2. PICK c \in B : \A x \in B : Place(c) <= Place(x)
  <2>1. P \subseteq Int /\ P # {} /\ 0 \in Int /\ \A x \in P : 0 <= x
    BY <1>1
  <2>2. Min(P) \in P /\ \A x \in P : Min(P) <= x
    <3> HIDE DEF P
    <3> QED BY <2>1, BoundedMin
  <2>3. QED
    BY <2>2
<1> DEFINE U == {x \in E : Place(x) <= Place(c)}
           L == {x \in E : Place(x) < Place(c)}
<1>3. c \in E /\ Number(t, c) > k /\ U = L \cup {c} /\ c \notin L
  BY <1>1, <1>2, PlaceIs
<1>4. IsFiniteSet(L) /\ Number(t, c) = Cardinality(U)
  <2>1. L \subseteq Nodes /\ IsFiniteSet(Nodes)
    BY <1>1, ConstantsAssumption
  <2>2. IsFiniteSet(L)
    BY <2>1, FS_Subset
  <2> QED BY <1>1, <1>3, <2>2 DEF Number
<1>5. Number(t, c) = Cardinality(L) + 1 /\ Cardinality(L) \in Nat
  <2> HIDE DEF U, L
  <2> QED BY <1>3, <1>4, FS_AddElement, FS_CardinalityType
<1>6. \A x \in L : Number(t, x) < k
  <2> SUFFICES ASSUME NEW x \in L PROVE Number(t, x) < k
    OBVIOUS
  <2>1. x \in E /\ Place(x) < Place(c) /\ Place(x) \in Nat /\ Place(c) \in Nat
    BY <1>1, <1>3
  <2>2. x \notin B
    BY <1>2, <2>1
  <2>3. Number(t, x) \in Nat
    BY <1>1, <2>1, Numbers
  <2> QED BY <2>1, <2>2, <2>3
<1>7. Cardinality(L) < k
  <2>1. CASE L = {}
    BY <2>1, FS_EmptySet
  <2>2. CASE L # {}
    <3> DEFINE Q == {Place(x) : x \in L}
    <3>1. Q \subseteq Int /\ Q # {} /\ Place(c) \in Int /\ \A x \in Q : x <= Place(c)
      BY <1>1, <1>3, <2>2
    <3>2. Max(Q) \in Q /\ \A x \in Q : x <= Max(Q)
      <4> HIDE DEF Q
      <4> QED BY <3>1, BoundedMax
    <3>3. PICK y \in L : \A x \in L : Place(x) <= Place(y)
      BY <3>2
    <3>4. L = {x \in E : Place(x) <= Place(y)}
      <4>1. ASSUME NEW x \in E, Place(x) <= Place(y) PROVE x \in L
        <5>1. Place(x) \in Nat /\ Place(y) \in Nat /\ Place(c) \in Nat /\ Place(y) < Place(c)
          BY <1>1, <1>3
        <5> QED BY <4>1, <5>1
      <4>2. \A x \in L : x \in E /\ Place(x) <= Place(y)
        BY <3>3
      <4> QED BY <4>1, <4>2
    <3>5. Number(t, y) = Cardinality(L)
      BY <1>1, <3>4 DEF Number
    <3> QED BY <1>6, <3>5
  <2> QED BY <2>1, <2>2
<1>8. QED
  BY <1>3, <1>5, <1>7

-----------------------------------------------------------------------------
(* Listings: the place in the tree.                                         *)

Walking == pc \in ListLabels \ {"stat"}
Recursive == opt.cmd \in {"ld", "lt", "lm"} \/ opt.r
\* A directory is entered at once, or when its own directory has been read.
AtOnce == opt.cmd \in {"ld", "lt", "ll"}
Activation == [dir: Nodes, named: BOOLEAN, at: 1 .. LastNumber, dirp: 0 .. MaxDir, todo: Seq(Nodes)]

\* A tree hangs together.
TreeOK ==
    /\ kind \in [Nodes -> {"none", "dir", "file"}] /\ kind[Root] = "dir"
    /\ \A x \in Nodes : kind[x] # "none" => kind[Parent[x]] = "dir"

\* What has been printed was asked for, and its directory was printed before or is that of
\* the command line.
ListedOK ==
    /\ listed \in Seq(Nodes)
    /\ opt.cmd \notin Lists \/ pc \in {"close", "stat"} => listed = <<>>
    /\ \A x \in ToSet(listed) : Asked(x) /\ (Parent[x] \in ToSet(listed) \/ Parent[x] = opt.node)
    /\ IsInjective(listed)
    /\ AtOnce => \A i, j \in DOMAIN listed : i < j => Place(listed[i]) < Place(listed[j])

\* The activations are those of a directory and the directories above it, down to that of the
\* command line.
Chain ==
    /\ stack \in Seq(Activation)
    /\ stack[Len(stack)].dir = opt.node
    /\ \A i \in 1 .. Len(stack) :
         /\ kind[stack[i].dir] = "dir"
         /\ Depth(stack[i].dir) = Depth(opt.node) + Len(stack) - i
         /\ i < Len(stack) =>
              /\ stack[i].dir \in ToSet(listed) /\ Parent[stack[i].dir] = stack[i + 1].dir
         /\ \A j \in 1 .. Len(stack) : i < j => stack[j].dir \in Above(stack[i].dir)
    /\ ~Recursive => Len(stack) = 1

\* A handle stands for the directory it was opened for.
InHand(i) == \/ i = 1 /\ pc \in {"readdir", "closedir", "leave"}
             \/ i > 1 /\ opt.cmd = "ll"
Opened ==
    /\ DOMAIN dirs = 1 .. MaxDir
    /\ \A i \in 1 .. Len(stack) : InHand(i) =>
         \/ stack[i].dirp \in 1 .. MaxDir /\ dirs[stack[i].dirp] = stack[i].dir
         \/ i = 1 /\ stack[i].dirp = 0

\* Nothing that is in d has been printed.
Untouched(l, d) == \A x \in ToSet(l) : Parent[x] # d

\* The entries printed are those with numbers already read.
Passed ==
    \A i \in 1 .. Len(stack) : \A x \in ToSet(listed) :
        Parent[x] = stack[i].dir => Number(kind, x) < stack[i].at

\* Directories that are still to be entered were printed, and nothing of what is in them.
Ahead ==
    /\ pc = "opendir" => Untouched(listed, stack[1].dir) /\ stack[1].at = 1 /\ stack[1].todo = <<>>
    /\ pc = "closedir" =>
         /\ stack[1].todo # <<>>
         /\ LET e == Last(stack[1].todo)
            IN  /\ e \in ToSet(listed) /\ Parent[e] = stack[1].dir /\ kind[e] = "dir"
                /\ Untouched(listed, e)
                /\ \A y \in ToSet(listed) : Place(y) <= Place(e)
    /\ pc = "subdirs" => ~AtOnce /\ Recursive
Queued ==
    ~AtOnce => \A i \in 1 .. Len(stack) :
       /\ IsInjective(stack[i].todo)
       /\ \A t \in ToSet(stack[i].todo) :
             /\ t \in ToSet(listed) /\ Parent[t] = stack[i].dir /\ kind[t] = "dir"
             /\ Untouched(listed, t)
             /\ i > 1 => t # stack[i - 1].dir

\* What is printed comes before all that is still to be read.
Ordered ==
    AtOnce => \A i \in 1 .. Len(stack) : \A c \in Entries(kind, stack[i].dir) : \A y \in ToSet(listed) :
        Number(kind, c) >= stack[i].at => Place(y) < Place(c)

Walk == Walking => Chain /\ Opened /\ Passed /\ Ahead /\ Queued /\ Ordered

-----------------------------------------------------------------------------
(* What a step does to the activations.                                     *)

LEMMA ActivationsAre ==
  ASSUME NEW f \in Activation
  PROVE  /\ \A d \in Nodes, b \in BOOLEAN :
               Frame(d, b) \in Activation /\ Frame(d, b).dir = d /\ Frame(d, b).named = b
               /\ Frame(d, b).at = 1 /\ Frame(d, b).dirp = 0 /\ Frame(d, b).todo = <<>>
         /\ Advanced(f) \in Activation /\ Advanced(f).dir = f.dir /\ Advanced(f).named = f.named
         /\ Advanced(f).dirp = f.dirp /\ Advanced(f).todo = f.todo
         /\ f.at <= Advanced(f).at /\ (f.at < LastNumber => Advanced(f).at = f.at + 1)
         /\ \A v \in Seq(Nodes) :
               /\ [f EXCEPT !.todo = v] \in Activation
               /\ [f EXCEPT !.todo = v] = [dir |-> f.dir, named |-> f.named, at |-> f.at, dirp |-> f.dirp, todo |-> v]
         /\ \A h \in 0 .. MaxDir :
               /\ [f EXCEPT !.dirp = h] \in Activation
               /\ [f EXCEPT !.dirp = h] = [dir |-> f.dir, named |-> f.named, at |-> f.at, dirp |-> h, todo |-> f.todo]
<1>1. LastNumber \in Nat \ {0} /\ MaxDir \in Nat
  <2>1. Cardinality(Nodes) \in Nat /\ MaxFails \in Nat /\ MaxDir \in Nat
    BY ConstantsAssumption, FS_CardinalityType
  <2>2. Cardinality(Nodes) # 0
    BY ConstantsAssumption, FS_EmptySet
  <2> QED BY <2>1, <2>2 DEF LastNumber
<1>2. ASSUME NEW d \in Nodes, NEW b \in BOOLEAN
      PROVE  Frame(d, b) \in Activation /\ Frame(d, b).dir = d /\ Frame(d, b).named = b
             /\ Frame(d, b).at = 1 /\ Frame(d, b).dirp = 0 /\ Frame(d, b).todo = <<>>
  BY <1>1 DEF Frame, Activation
<1>3. /\ Advanced(f) \in Activation /\ Advanced(f).dir = f.dir /\ Advanced(f).named = f.named
      /\ Advanced(f).dirp = f.dirp /\ Advanced(f).todo = f.todo
      /\ f.at <= Advanced(f).at /\ (f.at < LastNumber => Advanced(f).at = f.at + 1)
  BY <1>1 DEF Advanced, Activation
<1>4. ASSUME NEW v \in Seq(Nodes)
      PROVE  /\ [f EXCEPT !.todo = v] \in Activation
             /\ [f EXCEPT !.todo = v] = [dir |-> f.dir, named |-> f.named, at |-> f.at, dirp |-> f.dirp, todo |-> v]
  BY DEF Activation
<1>5. ASSUME NEW h \in 0 .. MaxDir
      PROVE  /\ [f EXCEPT !.dirp = h] \in Activation
             /\ [f EXCEPT !.dirp = h] = [dir |-> f.dir, named |-> f.named, at |-> f.at, dirp |-> h, todo |-> f.todo]
  BY DEF Activation
<1>6. QED
  BY <1>2, <1>3, <1>4, <1>5

LEMMA StackTyped ==
  ASSUME NEW s \in Seq(Activation), Len(s) > 0
  PROVE  /\ IsStack(s) /\ Len(s) \in Nat \ {0} /\ \A i \in 1 .. Len(s) : s[i] \in Activation
         /\ \A f \in Activation :
              /\ <<f>> \o Tail(s) \in Seq(Activation) /\ <<f>> \o s \in Seq(Activation)
              /\ \A g \in Activation : <<f, g>> \o Tail(s) \in Seq(Activation)
         /\ Tail(s) \in Seq(Activation)
<1>1. \A i \in 1 .. Len(s) : s[i] \in Activation
  OBVIOUS
<1>2. \A f \in Activation : "dirp" \in DOMAIN f
  BY DEF Activation
<1>3. IsStack(s)
  BY <1>1, <1>2 DEF IsStack
<1>4. Tail(s) \in Seq(Activation)
  OBVIOUS
<1>5. \A f \in Activation : <<f>> \o Tail(s) \in Seq(Activation) /\ <<f>> \o s \in Seq(Activation)
  BY <1>4
<1>6. \A f, g \in Activation : <<f, g>> \o Tail(s) \in Seq(Activation)
  BY <1>4
<1>7. QED
  BY <1>1, <1>3, <1>4, <1>5, <1>6

\* What a step does to the activations: only the top one changes, another is put on it, it goes.
TopIs(g) ==
    /\ Len(stack') = Len(stack) /\ stack'[1] = g
    /\ \A i \in 2 .. Len(stack) : stack'[i] = stack[i]
OneMore(f, g) ==
    /\ Len(stack') = Len(stack) + 1 /\ stack'[1] = f /\ stack'[2] = g
    /\ \A i \in 2 .. Len(stack) : stack'[i + 1] = stack[i]
OneLess ==
    /\ Len(stack') = Len(stack) - 1
    /\ \A i \in 1 .. Len(stack) - 1 : stack'[i] = stack[i + 1]

LEMMA TopReplaced ==
  ASSUME stack \in Seq(Activation), Len(stack) > 0, NEW g \in Activation, stack' = SetTop(g)
  PROVE  stack' \in Seq(Activation) /\ TopIs(g)
<1>1. IsStack(stack) /\ "dirp" \in DOMAIN g /\ stack' \in Seq(Activation)
  BY StackTyped DEF SetTop, Activation
<1>2. QED
  BY <1>1, StackKept DEF TopIs

LEMMA Entered ==
  ASSUME stack \in Seq(Activation), Len(stack) > 0, NEW f \in Activation, NEW g \in Activation,
         \/ stack' = <<f, g>> \o Tail(stack)
         \/ stack' = <<f>> \o stack /\ g = stack[1]
  PROVE  stack' \in Seq(Activation) /\ OneMore(f, g)
<1>1. IsStack(stack) /\ "dirp" \in DOMAIN f /\ "dirp" \in DOMAIN g /\ Len(stack) \in Nat \ {0}
  BY StackTyped DEF Activation
<1>1a. stack' \in Seq(Activation)
  <2>1. <<f, g>> \o Tail(stack) \in Seq(Activation) /\ <<f>> \o stack \in Seq(Activation)
    BY StackTyped
  <2> QED BY <2>1
<1>2. CASE stack' = <<f, g>> \o Tail(stack)
  BY <1>1, <1>2, Stacked DEF OneMore
<1>3. CASE stack' = <<f>> \o stack /\ g = stack[1]
  <2>1. Len(stack') = Len(stack) + 1 /\ stack'[1] = f /\ \A i \in 1 .. Len(stack) : stack'[i + 1] = stack[i]
    BY <1>1, <1>3, Pushed
  <2>2. 1 \in 1 .. Len(stack) /\ 1 + 1 = 2 /\ \A i \in 2 .. Len(stack) : i \in 1 .. Len(stack)
    BY <1>1
  <2>3. stack'[2] = g
    BY <1>3, <2>1, <2>2
  <2>4. \A i \in 2 .. Len(stack) : stack'[i + 1] = stack[i]
    BY <2>1, <2>2
  <2> QED BY <1>1a, <2>1, <2>3, <2>4 DEF OneMore
<1>4. QED
  BY <1>1a, <1>2, <1>3

\* The moves of a listing. It stays in its activations,
Stays ==
    /\ stack' = stack /\ listed' = listed /\ DOMAIN dirs' = DOMAIN dirs
    /\ \/ pc' = pc /\ dirs' = dirs /\ clean' = clean
       \/ pc = "readdir" /\ pc' = "leave" /\ dirs' = dirs /\ clean' = clean /\ Entry = NoNode
       \/ pc = "leave" /\ pc' = "subdirs" /\ ~AtOnce /\ Recursive /\ (clean' => clean)
\* opens the directory in hand or fails to open it again,
Opens(h) ==
    /\ pc \in {"opendir", "reopen"} /\ pc' = "readdir" /\ listed' = listed
    /\ pc = "opendir" => h # 0
    /\ TopIs([Top EXCEPT !.dirp = h])
    /\ DOMAIN dirs' = DOMAIN dirs
    /\ \A x \in DOMAIN dirs : dirs[x] # NoNode => dirs'[x] = dirs[x]
    /\ h # 0 => dirs'[h] = Top.dir
    /\ clean' => clean /\ (h = 0 => Free = {})
\* passes over an entry,
Skips ==
    /\ pc = "readdir" /\ pc' = "readdir" /\ listed' = listed /\ dirs' = dirs /\ ~clean'
    /\ TopIs(Advanced(Top))
\* reads entry e and goes on,
ReadIs(e, g) ==
    /\ e \in Entries(kind, Top.dir) /\ Number(kind, e) = Top.at /\ Top.dirp \in 1 .. MaxDir
    /\ g \in Activation /\ g.dir = Top.dir /\ g.named = Top.named /\ g.dirp = Top.dirp
    /\ g.at = Top.at + 1
    /\ g.todo = IF kind[e] = "dir" THEN Append(Top.todo, e) ELSE Top.todo
    /\ listed' = IF opt.cmd = "ld" /\ kind[e] # "dir" THEN listed ELSE Append(listed, e)
    /\ pc = "readdir" /\ dirs' = dirs /\ clean' = clean
Reads(e, g) ==
    /\ ReadIs(e, g) /\ TopIs(g)
    /\ IF kind[e] = "dir" /\ opt.cmd \in {"ld", "lt"} THEN pc' = "closedir"
       ELSE pc' = "readdir" /\ ~(kind[e] = "dir" /\ opt.cmd = "ll" /\ opt.r)
\* or enters it,
GoesInto(e, g) ==
    /\ ReadIs(e, g) /\ OneMore(Frame(e, NamesEntries), g)
    /\ kind[e] = "dir" /\ opt.cmd = "ll" /\ opt.r /\ pc' = "opendir"
\* enters one it has read before,
GoesDown ==
    /\ pc = "closedir" /\ pc' = "opendir" /\ opt.cmd \in {"ld", "lt"} /\ listed' = listed
    /\ OneMore(Frame(Last(Top.todo), NamesEntries), Top)
    /\ DOMAIN dirs' = DOMAIN dirs /\ (clean' => clean)
GoesOn ==
    /\ pc = "subdirs" /\ pc' = "opendir" /\ listed' = listed
    /\ Top.todo # <<>> /\ OneMore(Frame(Head(Top.todo), NamesEntries), [Top EXCEPT !.todo = Tail(@)])
    /\ dirs' = dirs /\ clean' = clean
\* or returns from one.
GoesBack ==
    /\ pc \in {"opendir", "leave", "subdirs"} /\ listed' = listed
    /\ pc = "subdirs" => Top.todo = <<>>
    /\ pc = "leave" => AtOnce \/ ~Recursive
    /\ pc = "opendir" /\ clean' => ~Top.named \/ Free = {}
    /\ clean' => clean
    /\ DOMAIN dirs' = DOMAIN dirs
    /\ \A x \in DOMAIN dirs : dirs[x] # NoNode /\ (x = Top.dirp => pc # "leave") => dirs'[x] = dirs[x]
    /\ Return
    /\ IF Len(stack) = 1 THEN pc' = "done"
       ELSE /\ OneLess
            /\ pc' = IF opt.cmd \in {"ld", "lt"} THEN "reopen" ELSE IF opt.cmd = "ll" THEN "readdir" ELSE "subdirs"

LEMMA EntryIs ==
  /\ Entry # NoNode => /\ Top.dirp \in DOMAIN dirs /\ Entry \in Entries(kind, dirs[Top.dirp])
                       /\ Number(kind, Entry) = Top.at
  /\ Entry = NoNode /\ Top.dirp \in DOMAIN dirs =>
        \A c \in Entries(kind, dirs[Top.dirp]) : Number(kind, c) # Top.at
<1> DEFINE here == {c \in Entries(kind, dirs[Top.dirp]) : Number(kind, c) = Top.at}
<1>1. Entry = IF Top.dirp \in DOMAIN dirs /\ here # {} THEN CHOOSE c \in here : TRUE ELSE NoNode
  BY DEF Entry
<1>2. NoNode \notin here
  BY ConstantsAssumption DEF Entries
<1>3. QED
  BY <1>1, <1>2

\* The requests of a walk that the modem may carry out.
LEMMA WalkRequests ==
  ASSUME DOMAIN dirs = 1 .. MaxDir, NEW d \in Nodes, NEW ok \in BOOLEAN, NEW h \in 0 .. MaxDir
  PROVE  /\ CloseDir(h) => /\ DOMAIN dirs' = DOMAIN dirs /\ (clean' => clean)
                           /\ \A x \in DOMAIN dirs : x # h => dirs'[x] = dirs[x]
         /\ OpenDir(d, ok, h) => /\ DOMAIN dirs' = DOMAIN dirs
                                 /\ \A x \in DOMAIN dirs : dirs[x] # NoNode => dirs'[x] = dirs[x]
                                 /\ h # 0 => dirs'[h] = d
                                 /\ clean' => clean /\ (h = 0 => ~ok \/ Free = {})
<1>1. ASSUME CloseDir(h)
      PROVE  /\ DOMAIN dirs' = DOMAIN dirs /\ (clean' => clean)
             /\ \A x \in DOMAIN dirs : x # h => dirs'[x] = dirs[x]
  <2>1. CASE Failed /\ dirs' = dirs
    BY <2>1 DEF Failed, Lost, Silent
  <2>2. CASE (Answered \/ Lost) /\ Closes(h)
    BY <2>2 DEF Closes, Answered, Lost
  <2>3. QED
    BY <1>1, <2>1, <2>2 DEF CloseDir
<1>2. Free # {} => Min(Free) \in Free /\ Min(Free) # 0
  <2>1. Free \subseteq Int /\ 1 \in Int /\ \A y \in Free : 1 <= y
    BY ConstantsAssumption DEF Free
  <2>2. Free # {} => Min(Free) \in Free
    BY <2>1, BoundedMin
  <2> QED BY <2>1, <2>2
<1>3. ASSUME OpenDir(d, ok, h)
      PROVE  /\ DOMAIN dirs' = DOMAIN dirs
             /\ \A x \in DOMAIN dirs : dirs[x] # NoNode => dirs'[x] = dirs[x]
             /\ h # 0 => dirs'[h] = d
             /\ clean' => clean /\ (h = 0 => ~ok \/ Free = {})
  <2>1. CASE Failed /\ h = 0 /\ dirs' = dirs
    BY <2>1 DEF Failed, Lost, Silent
  <2>2. CASE Lost /\ h = 0 /\ Free # {} /\ dirs' = [dirs EXCEPT ![Min(Free)] = d]
    <3>1. dirs[Min(Free)] = NoNode /\ ~clean'
      BY <1>2, <2>2 DEF Free, Lost
    <3> QED BY <2>2, <3>1
  <2>3. CASE Answered /\ ~(ok /\ Free # {}) /\ h = 0 /\ dirs' = dirs
    BY <2>3 DEF Answered
  <2>4. CASE Answered /\ Free # {} /\ h = Min(Free) /\ dirs' = [dirs EXCEPT ![h] = d]
    <3>1. dirs[h] = NoNode /\ h \in DOMAIN dirs /\ h # 0
      BY <1>2, <2>4 DEF Free
    <3> QED BY <2>4, <3>1 DEF Answered
  <2>5. QED
    BY <1>3, <2>1, <2>2, <2>3, <2>4 DEF OpenDir
<1>4. QED
  BY <1>1, <1>3

\* What a return does.
LEMMA BackIs ==
  ASSUME stack \in Seq(Activation), Len(stack) > 0, opt.cmd \in Lists, Return
  PROVE  /\ stack' \in Seq(Activation) /\ Len(stack) \in Nat \ {0}
         /\ IF Len(stack) = 1 THEN pc' = "done"
            ELSE /\ OneLess
                 /\ pc' = IF opt.cmd \in {"ld", "lt"} THEN "reopen" ELSE IF opt.cmd = "ll" THEN "readdir" ELSE "subdirs"
<1>1. IsStack(stack) /\ Len(stack) \in Nat \ {0} /\ Tail(stack) \in Seq(Activation)
  BY StackTyped
<1>2. stack' = Tail(stack)
  BY DEF Return
<1>3. OneLess
  BY <1>1, Returns DEF OneLess
<1>4. Len(stack) = 1 => pc' = "done"
  BY DEF Return
<1>5. Len(stack) # 1 => pc' = IF opt.cmd \in {"ld", "lt"} THEN "reopen" ELSE IF opt.cmd = "ll" THEN "readdir" ELSE "subdirs"
  BY DEF Return, Lists
<1>6. QED
  BY <1>1, <1>2, <1>3, <1>4, <1>5

\* The entry that is read is one of the directory in hand, with the number that was asked for.
LEMMA ReadingIs ==
  ASSUME OnItsWay, Walking, Chain, Opened, ReadEntry
  PROVE  /\ stack' \in Seq(Activation)
         /\ \E e, g : Reads(e, g) \/ GoesInto(e, g)
<1> DEFINE e == Entry
           f == IF kind[e] = "dir" THEN [Top EXCEPT !.todo = Append(@, e)] ELSE Top
           g == Advanced(f)
<1>1. /\ pc = "readdir" /\ Answered /\ Entry # NoNode /\ Len(stack) > 0 /\ stack \in Seq(Activation)
      /\ dirs' = dirs /\ clean' = clean /\ opt.cmd \in Lists
  BY DEF ReadEntry, modem, OnItsWay, Chain, Answered, ListLabels
<1>2. Len(stack) \in Nat \ {0} /\ Top \in Activation
  BY <1>1, StackTyped DEF Top
<1>3. Top.dirp \in 1 .. MaxDir /\ e \in Entries(kind, dirs[Top.dirp]) /\ Number(kind, e) = Top.at
  BY <1>1, EntryIs DEF Opened
<1>4. dirs[Top.dirp] = Top.dir
  <2>1. InHand(1) /\ 1 \in 1 .. Len(stack) /\ Top = stack[1]
    BY <1>1, <1>2 DEF InHand, Top
  <2>2. Top.dirp # 0
    BY <1>3, ConstantsAssumption
  <2> QED BY <2>1, <2>2 DEF Opened
<1>5. e \in Nodes \ {Root} /\ kind[e] # "none"
  BY <1>3 DEF Entries
<1>6. f \in Activation /\ f.dir = Top.dir /\ f.named = Top.named /\ f.dirp = Top.dirp /\ f.at = Top.at
      /\ f.todo = IF kind[e] = "dir" THEN Append(Top.todo, e) ELSE Top.todo
  <2>1. Append(Top.todo, e) \in Seq(Nodes)
    BY <1>2, <1>5 DEF Activation
  <2>2. CASE kind[e] = "dir"
    <3> DEFINE v == Append(Top.todo, e)
    <3>1. f = [Top EXCEPT !.todo = v]
      BY <2>2
    <3>2. v \in Seq(Nodes)
      BY <2>1
    <3> HIDE DEF v, f
    <3>3. f \in Activation /\ f = [dir |-> Top.dir, named |-> Top.named, at |-> Top.at, dirp |-> Top.dirp, todo |-> v]
      BY <1>2, <3>1, <3>2, ActivationsAre
    <3>4. f.todo = v /\ f.dir = Top.dir /\ f.named = Top.named /\ f.dirp = Top.dirp /\ f.at = Top.at
      BY <3>3
    <3> QED BY <2>2, <3>3, <3>4 DEF v
  <2>3. CASE kind[e] # "dir"
    BY <1>2, <2>3
  <2> QED BY <2>2, <2>3
<1>7. Top.at < LastNumber
  <2>1. Number(kind, e) \in 1 .. Cardinality(Nodes) - 1
    BY <1>5, Numbers
  <2>2. Cardinality(Nodes) \in Nat /\ MaxFails \in Nat
    BY ConstantsAssumption, FS_CardinalityType
  <2> QED BY <1>3, <2>1, <2>2 DEF LastNumber
<1>8. g \in Activation /\ g.dir = Top.dir /\ g.named = Top.named /\ g.dirp = Top.dirp /\ g.at = Top.at + 1
      /\ g.todo = IF kind[e] = "dir" THEN Append(Top.todo, e) ELSE Top.todo
  <2> HIDE DEF f
  <2> QED BY <1>6, <1>7, ActivationsAre
<1>9. /\ listed' = IF opt.cmd = "ld" /\ kind[e] # "dir" THEN listed ELSE Append(listed, e)
      /\ stack' = IF Enters /\ opt.cmd = "ll"
                  THEN <<Frame(e, NamesEntries), g>> \o Tail(stack) ELSE SetTop(g)
      /\ pc' = IF ~Enters THEN "readdir" ELSE IF opt.cmd = "ll" THEN "opendir" ELSE "closedir"
  BY DEF ReadEntry, Printed
<1>10. ReadIs(e, g)
  <2> HIDE DEF e, g
  <2> QED BY <1>1, <1>3, <1>4, <1>8, <1>9 DEF ReadIs
<1> HIDE DEF f, g
<1>11. CASE Enters /\ opt.cmd = "ll"
  <2>1. kind[e] = "dir" /\ opt.r /\ pc' = "opendir"
    BY <1>9, <1>11 DEF Enters
  <2>2. Frame(e, NamesEntries) \in Activation
    <3>1. NamesEntries \in BOOLEAN
      <4>1. opt.slash \in BOOLEAN
        BY ConstantsAssumption DEF OnItsWay
      <4> QED BY <4>1 DEF NamesEntries
    <3> QED BY <1>2, <1>5, <3>1, ActivationsAre
  <2>3. stack' \in Seq(Activation) /\ OneMore(Frame(e, NamesEntries), g)
    <3> DEFINE x == Frame(e, NamesEntries)
    <3>1. x \in Activation /\ stack' = <<x, g>> \o Tail(stack)
      BY <1>9, <1>11, <2>2
    <3> HIDE DEF x
    <3>2. stack' \in Seq(Activation) /\ OneMore(x, g)
      BY <1>1, <1>8, <3>1, Entered
    <3> QED BY <3>2 DEF x
  <2>4. GoesInto(e, g)
    BY <1>10, <1>11, <2>1, <2>3 DEF GoesInto
  <2> QED BY <2>3, <2>4
<1>12. CASE ~(Enters /\ opt.cmd = "ll")
  <2>1. stack' \in Seq(Activation) /\ TopIs(g)
    BY <1>1, <1>8, <1>9, <1>12, TopReplaced
  <2>2. Reads(e, g)
    <3>1. CASE kind[e] = "dir" /\ opt.cmd \in {"ld", "lt"}
      BY <1>9, <1>10, <1>12, <2>1, <3>1 DEF Reads, Enters
    <3>2. CASE ~(kind[e] = "dir" /\ opt.cmd \in {"ld", "lt"})
      <4>1. ~Enters
        BY <1>12, <3>2 DEF Enters
      <4>2. ~(kind[e] = "dir" /\ opt.cmd = "ll" /\ opt.r)
        BY <4>1 DEF Enters
      <4> QED BY <1>9, <1>10, <2>1, <3>2, <4>1, <4>2 DEF Reads
    <3> QED BY <3>1, <3>2
  <2> QED BY <2>1, <2>2
<1>13. QED
  BY <1>11, <1>12

Moves ==
    /\ stack' \in Seq(Activation)
    /\ \/ Stays \/ Skips \/ GoesDown \/ GoesOn \/ GoesBack
       \/ \E h \in 0 .. MaxDir : Opens(h)
       \/ \E e, g : Reads(e, g) \/ GoesInto(e, g)

\* Every step of a listing is one of these moves, or the program is stopped.
LEMMA MovesAre ==
  ASSUME OnItsWay, Walking, Chain, Opened, Ahead, [Next]_vars
  PROVE  kind' = kind /\ opt' = opt /\ ((pc' = "killed" /\ listed' = listed) \/ Moves)
<1>1. /\ pc \in {"opendir", "readdir", "closedir", "leave", "subdirs", "reopen"}
      /\ opt.cmd \in Lists /\ stack \in Seq(Activation) /\ Len(stack) > 0
      /\ pc \in {"closedir", "reopen"} => opt.cmd \in {"ld", "lt"}
  BY DEF Walking, OnItsWay, ListLabels, Chain
<1>2. /\ Len(stack) \in Nat \ {0} /\ Top \in Activation /\ Top = stack[1] /\ IsStack(stack)
      /\ Top.dir \in Nodes /\ Top.named \in BOOLEAN /\ Top.dirp \in 0 .. MaxDir /\ Top.todo \in Seq(Nodes)
  <2>1. Len(stack) \in Nat \ {0} /\ Top \in Activation /\ Top = stack[1] /\ IsStack(stack)
    BY <1>1, StackTyped DEF Top
  <2> QED BY <2>1 DEF Activation
<1>3. DOMAIN dirs = 1 .. MaxDir
  BY DEF Opened
<1>4. NamesEntries \in BOOLEAN
  <2>1. opt.slash \in BOOLEAN
    BY ConstantsAssumption DEF OnItsWay
  <2> QED BY <2>1 DEF NamesEntries
<1>5. CASE Opendir
  <2>1. pc = "opendir" /\ kind' = kind /\ opt' = opt /\ listed' = listed
    BY <1>5 DEF Opendir, files, host
  <2>2. PICK h \in 0 .. MaxDir :
           /\ OpenDir(Top.dir, Top.named, h)
           /\ IF h = 0 THEN Return
                       ELSE stack' = SetTop([Top EXCEPT !.dirp = h]) /\ pc' = "readdir"
    BY <1>5 DEF Opendir
  <2>3. /\ DOMAIN dirs' = DOMAIN dirs
        /\ \A x \in DOMAIN dirs : dirs[x] # NoNode => dirs'[x] = dirs[x]
        /\ h # 0 => dirs'[h] = Top.dir
        /\ clean' => clean /\ (h = 0 => ~Top.named \/ Free = {})
    BY <1>2, <1>3, <2>2, WalkRequests
  <2>4. CASE h = 0
    <3>1. Return
      BY <2>2, <2>4
    <3>2. /\ stack' \in Seq(Activation)
          /\ IF Len(stack) = 1 THEN pc' = "done"
             ELSE /\ OneLess
                  /\ pc' = IF opt.cmd \in {"ld", "lt"} THEN "reopen" ELSE IF opt.cmd = "ll" THEN "readdir" ELSE "subdirs"
      BY <1>1, <3>1, BackIs
    <3>3. GoesBack
      BY <2>1, <2>3, <2>4, <3>1, <3>2 DEF GoesBack
    <3> QED BY <2>1, <3>2, <3>3 DEF Moves
  <2>5. CASE h # 0
    <3> DEFINE g == [Top EXCEPT !.dirp = h]
    <3>1. g \in Activation /\ stack' = SetTop(g) /\ pc' = "readdir"
      BY <1>2, <2>2, <2>5, ActivationsAre
    <3> HIDE DEF g
    <3>2. stack' \in Seq(Activation) /\ TopIs(g)
      BY <1>1, <3>1, TopReplaced
    <3>3. Opens(h)
      BY <2>1, <2>3, <2>5, <3>1, <3>2 DEF Opens, g
    <3> QED BY <2>1, <3>2, <3>3 DEF Moves
  <2> QED BY <2>4, <2>5
<1>6. CASE Reopen
  <2>1. pc = "reopen" /\ pc' = "readdir" /\ kind' = kind /\ opt' = opt /\ listed' = listed
    BY <1>6 DEF Reopen, files, host
  <2>2. PICK h \in 0 .. MaxDir :
           OpenDir(Top.dir, TRUE, h) /\ stack' = SetTop([Top EXCEPT !.dirp = h])
    BY <1>6 DEF Reopen
  <2>3. /\ DOMAIN dirs' = DOMAIN dirs
        /\ \A x \in DOMAIN dirs : dirs[x] # NoNode => dirs'[x] = dirs[x]
        /\ h # 0 => dirs'[h] = Top.dir
        /\ clean' => clean /\ (h = 0 => Free = {})
    BY <1>2, <1>3, <2>2, WalkRequests
  <2> DEFINE g == [Top EXCEPT !.dirp = h]
  <2>4. g \in Activation /\ stack' = SetTop(g)
    BY <1>2, <2>2, ActivationsAre
  <2> HIDE DEF g
  <2>5. stack' \in Seq(Activation) /\ TopIs(g)
    BY <1>1, <2>4, TopReplaced
  <2>6. Opens(h)
    BY <2>1, <2>3, <2>5 DEF Opens, g
  <2> QED BY <2>1, <2>5, <2>6 DEF Moves
<1>7. CASE SkipEntry
  <2>1. pc = "readdir" /\ pc' = pc /\ kind' = kind /\ opt' = opt /\ listed' = listed /\ dirs' = dirs
        /\ stack' = SetTop(Advanced(Top)) /\ Failed
    BY <1>7 DEF SkipEntry, modem, host
  <2>2. ~clean'
    BY <2>1 DEF Failed, Lost, Silent
  <2>3. Advanced(Top) \in Activation
    BY <1>2, ActivationsAre
  <2>4. stack' \in Seq(Activation) /\ TopIs(Advanced(Top))
    <3> DEFINE g == Advanced(Top)
    <3>1. g \in Activation /\ stack' = SetTop(g)
      BY <2>1, <2>3
    <3> HIDE DEF g
    <3>2. stack' \in Seq(Activation) /\ TopIs(g)
      BY <1>1, <3>1, TopReplaced
    <3> QED BY <3>2 DEF g
  <2>5. Skips
    BY <2>1, <2>2, <2>4 DEF Skips
  <2> QED BY <2>1, <2>4, <2>5 DEF Moves
<1>8. CASE ReadEntry
  <2>1. stack' \in Seq(Activation) /\ \E e, g : Reads(e, g) \/ GoesInto(e, g)
    BY <1>8, ReadingIs
  <2>2. kind' = kind /\ opt' = opt
    BY <1>8 DEF ReadEntry, modem, host
  <2> QED BY <2>1, <2>2 DEF Moves
<1>9. CASE Descend
  <2>1. pc = "closedir" /\ pc' = "opendir" /\ kind' = kind /\ opt' = opt /\ listed' = listed
        /\ stack' = <<Frame(Last(Top.todo), NamesEntries)>> \o stack /\ CloseDir(Top.dirp)
    BY <1>9 DEF Descend, files, host
  <2> DEFINE f == Frame(Last(Top.todo), NamesEntries)
  <2>2. Last(Top.todo) \in Nodes
    BY <1>2, <2>1 DEF Ahead, Last
  <2>3. f \in Activation
    BY <1>2, <1>4, <2>2, ActivationsAre
  <2>4. stack' = <<f>> \o stack
    BY <2>1
  <2>5. DOMAIN dirs' = DOMAIN dirs /\ (clean' => clean)
    <3>1. Root \in Nodes /\ Top.dirp \in 0 .. MaxDir /\ TRUE \in BOOLEAN
      BY <1>2, ConstantsAssumption
    <3> QED BY <1>3, <2>1, <3>1, WalkRequests
  <2> HIDE DEF f
  <2>6. stack' \in Seq(Activation) /\ OneMore(f, Top)
    BY <1>1, <1>2, <2>3, <2>4, Entered
  <2>7. GoesDown
    BY <1>1, <2>1, <2>5, <2>6 DEF GoesDown, f
  <2> QED BY <2>1, <2>6, <2>7 DEF Moves
<1>10. CASE EndOfList
  <2>1. /\ pc = "readdir" /\ pc' = "leave" /\ kind' = kind /\ opt' = opt /\ listed' = listed
        /\ stack' = stack /\ dirs' = dirs /\ clean' = clean /\ Entry = NoNode
    BY <1>10 DEF EndOfList, modem, host, Answered
  <2> QED BY <1>1, <2>1 DEF Stays, Moves
<1>11. CASE Leave
  <2>1. /\ pc = "leave" /\ kind' = kind /\ opt' = opt /\ listed' = listed
        /\ LeaveTo /\ CloseDir(Top.dirp)
    BY <1>11 DEF Leave, files, host
  <2>2. /\ DOMAIN dirs' = DOMAIN dirs /\ (clean' => clean)
        /\ \A x \in DOMAIN dirs : x # Top.dirp => dirs'[x] = dirs[x]
    <3>1. Root \in Nodes /\ Top.dirp \in 0 .. MaxDir /\ TRUE \in BOOLEAN
      BY <1>2, ConstantsAssumption
    <3> QED BY <1>3, <2>1, <3>1, WalkRequests
  <2>3. CASE (opt.cmd = "lf" /\ opt.r) \/ opt.cmd = "lm"
    <3>1. pc' = "subdirs" /\ stack' = stack
      BY <2>1, <2>3 DEF LeaveTo
    <3>2. ~AtOnce /\ Recursive
      BY <2>3 DEF AtOnce, Recursive
    <3> QED BY <1>1, <2>1, <2>2, <3>1, <3>2 DEF Stays, Moves
  <2>4. CASE ~((opt.cmd = "lf" /\ opt.r) \/ opt.cmd = "lm")
    <3>1. Return
      BY <2>1, <2>4 DEF LeaveTo
    <3>2. /\ stack' \in Seq(Activation)
          /\ IF Len(stack) = 1 THEN pc' = "done"
             ELSE /\ OneLess
                  /\ pc' = IF opt.cmd \in {"ld", "lt"} THEN "reopen" ELSE IF opt.cmd = "ll" THEN "readdir" ELSE "subdirs"
      BY <1>1, <3>1, BackIs
    <3>3. AtOnce \/ ~Recursive
      BY <1>1, <2>4 DEF AtOnce, Recursive, Lists
    <3>4. GoesBack
      BY <2>1, <2>2, <3>1, <3>2, <3>3 DEF GoesBack
    <3> QED BY <2>1, <3>2, <3>4 DEF Moves
  <2> QED BY <2>3, <2>4
<1>12. CASE Subdirs
  <2>1. /\ pc = "subdirs" /\ kind' = kind /\ opt' = opt /\ listed' = listed /\ dirs' = dirs /\ clean' = clean
    BY <1>12 DEF Subdirs, modem, host
  <2>2. CASE Top.todo = <<>>
    <3>1. Return
      BY <1>12, <2>2 DEF Subdirs
    <3>2. /\ stack' \in Seq(Activation)
          /\ IF Len(stack) = 1 THEN pc' = "done"
             ELSE /\ OneLess
                  /\ pc' = IF opt.cmd \in {"ld", "lt"} THEN "reopen" ELSE IF opt.cmd = "ll" THEN "readdir" ELSE "subdirs"
      BY <1>1, <3>1, BackIs
    <3>3. GoesBack
      BY <2>1, <2>2, <3>1, <3>2 DEF GoesBack
    <3> QED BY <2>1, <3>2, <3>3 DEF Moves
  <2>3. CASE Top.todo # <<>>
    <3> DEFINE f == Frame(Head(Top.todo), NamesEntries)
               v == Tail(Top.todo)
               g == [Top EXCEPT !.todo = v]
    <3>1. pc' = "opendir" /\ stack' = <<f, g>> \o Tail(stack)
      BY <1>12, <2>3 DEF Subdirs
    <3>2. Head(Top.todo) \in Nodes /\ v \in Seq(Nodes)
      BY <1>2, <2>3
    <3>3. f \in Activation
      BY <1>2, <1>4, <3>2, ActivationsAre
    <3>4. g \in Activation
      <4> HIDE DEF v
      <4> QED BY <1>2, <3>2, ActivationsAre
    <3>5. g = [Top EXCEPT !.todo = Tail(@)]
      OBVIOUS
    <3> HIDE DEF f, g
    <3>6. stack' \in Seq(Activation) /\ OneMore(f, g)
      BY <1>1, <3>1, <3>3, <3>4, Entered
    <3>7. OneMore(Frame(Head(Top.todo), NamesEntries), [Top EXCEPT !.todo = Tail(@)])
      BY <3>5, <3>6 DEF f
    <3>8. GoesOn
      BY <2>1, <2>3, <3>1, <3>7 DEF GoesOn
    <3> QED BY <2>1, <3>6, <3>8 DEF Moves
  <2> QED BY <2>2, <2>3
<1>13. CASE Kill
  BY <1>13 DEF Kill, modem, host
<1>14. CASE Unplug \/ UNCHANGED vars
  <2>1. /\ pc' = pc /\ kind' = kind /\ opt' = opt /\ listed' = listed
        /\ stack' = stack /\ dirs' = dirs /\ clean' = clean
    BY <1>14 DEF Unplug, vars, modem, host
  <2> QED BY <1>1, <2>1 DEF Stays, Moves
<1>15. CASE StartRun \/ Finished \/ CloseHandles \/ StatList
  BY <1>1, <1>15 DEF StartRun, Finished, CloseHandles, CloseHandlesFrom, StatList, Ended
<1>16. CASE Change \/ CloseFirst \/ GetStat \/ GetOpen \/ ReadBlock \/ GetClose
            \/ PutStat \/ PutOpen \/ WriteBlock \/ PutClose
            \/ Prepare \/ Begin \/ ReadPage \/ EndImage
  BY <1>1, <1>16 DEF Change, CloseFirst, GetStat, GetOpen, ReadBlock, GetClose, PutStat, PutOpen, WriteBlock,
       PutClose, Prepare, Begin, ReadPage, EndImage
<1>17. QED
  BY <1>5, <1>6, <1>7, <1>8, <1>9, <1>10, <1>11, <1>12, <1>13, <1>14, <1>15, <1>16 DEF Next, Step

-----------------------------------------------------------------------------
(* What sequences hold.                                                     *)

LEMMA AppendHolds ==
  ASSUME NEW R, NEW s \in Seq(R), NEW x \in R
  PROVE  /\ Append(s, x) \in Seq(R) /\ Len(Append(s, x)) = Len(s) + 1 /\ Len(s) \in Nat
         /\ Append(s, x) # <<>> /\ Last(Append(s, x)) = x
         /\ \A i \in 1 .. Len(s) : Append(s, x)[i] = s[i]
         /\ Append(s, x)[Len(s) + 1] = x
         /\ ToSet(Append(s, x)) = ToSet(s) \cup {x}
         /\ IsInjective(s) /\ x \notin ToSet(s) => IsInjective(Append(s, x))
<1> DEFINE t == Append(s, x)
           l == Len(s)
<1>1. t \in Seq(R) /\ Len(t) = l + 1 /\ l \in Nat /\ (\A i \in 1 .. l : t[i] = s[i]) /\ t[l + 1] = x
  OBVIOUS
<1>2. DOMAIN t = 1 .. l + 1 /\ DOMAIN s = 1 .. l
  OBVIOUS
<1> HIDE DEF t
<1>3. \A i \in 1 .. l + 1 : i \in 1 .. l \/ i = l + 1
  BY <1>1
<1>4. 1 .. l \subseteq 1 .. l + 1 /\ l + 1 \in 1 .. l + 1
  BY <1>1
<1> HIDE DEF l
<1>5. ToSet(t) = ToSet(s) \cup {x}
  BY <1>1, <1>2, <1>3, <1>4 DEF ToSet
<1>6. ASSUME IsInjective(s), x \notin ToSet(s) PROVE IsInjective(t)
  <2>1. \A i \in 1 .. l : s[i] # x
    BY <1>2, <1>6 DEF ToSet
  <2> QED BY <1>1, <1>2, <1>3, <1>6, <2>1 DEF IsInjective
<1>7. Last(t) = x /\ t # <<>>
  <2>1. Len(t) # 0
    BY <1>1
  <2>2. t # <<>>
    BY <2>1
  <2> QED BY <1>1, <2>2 DEF Last
<1>8. QED
  BY <1>1, <1>5, <1>6, <1>7 DEF t, l

LEMMA TailHolds ==
  ASSUME NEW R, NEW s \in Seq(R), s # <<>>
  PROVE  /\ Tail(s) \in Seq(R) /\ Head(s) \in ToSet(s) /\ Last(s) \in ToSet(s)
         /\ ToSet(s) \subseteq R /\ ToSet(s) = ToSet(Tail(s)) \cup {Head(s)}
         /\ IsInjective(s) => IsInjective(Tail(s)) /\ Head(s) \notin ToSet(Tail(s))
<1> DEFINE t == Tail(s)
           l == Len(s)
<1>1. t \in Seq(R) /\ Len(t) = l - 1 /\ l \in Nat \ {0} /\ \A i \in 1 .. l - 1 : t[i] = s[i + 1]
  OBVIOUS
<1>2. DOMAIN t = 1 .. l - 1 /\ DOMAIN s = 1 .. l /\ Head(s) = s[1] /\ \A i \in 1 .. l : s[i] \in R
  OBVIOUS
<1> HIDE DEF t
<1>3. /\ \A i \in 1 .. l : i = 1 \/ (i - 1 \in 1 .. l - 1 /\ i = (i - 1) + 1)
      /\ \A i \in 1 .. l - 1 : i + 1 \in 1 .. l /\ i + 1 # 1
      /\ 1 \in 1 .. l /\ l \in 1 .. l
  BY <1>1
<1>4. \A i, j \in 1 .. l - 1 : i + 1 = j + 1 => i = j
  BY <1>1
<1> HIDE DEF l
<1>5. ToSet(s) = ToSet(t) \cup {Head(s)}
  <2>1. ASSUME NEW i \in 1 .. l PROVE s[i] \in ToSet(t) \cup {Head(s)}
    <3>1. CASE i = 1
      BY <1>2, <3>1
    <3>2. CASE i # 1
      <4>1. i - 1 \in 1 .. l - 1 /\ i = (i - 1) + 1
        BY <1>3, <3>2
      <4>2. t[i - 1] = s[i]
        BY <1>1, <4>1
      <4> QED BY <1>2, <4>1, <4>2 DEF ToSet
    <3> QED BY <3>1, <3>2
  <2>2. ASSUME NEW i \in 1 .. l - 1 PROVE t[i] \in ToSet(s)
    BY <1>1, <1>2, <1>3 DEF ToSet
  <2>3. Head(s) \in ToSet(s)
    BY <1>2, <1>3 DEF ToSet
  <2>4. ToSet(s) \subseteq ToSet(t) \cup {Head(s)}
    BY <1>2, <2>1 DEF ToSet
  <2>5. ToSet(t) \subseteq ToSet(s)
    BY <1>2, <2>2 DEF ToSet
  <2> QED BY <2>3, <2>4, <2>5
<1>6. Head(s) \in ToSet(s) /\ Last(s) \in ToSet(s) /\ ToSet(s) \subseteq R
  BY <1>2, <1>3 DEF ToSet, Last, l
<1>7. ASSUME IsInjective(s) PROVE IsInjective(t) /\ Head(s) \notin ToSet(t)
  <2>1. IsInjective(t)
    BY <1>1, <1>2, <1>3, <1>4, <1>7 DEF IsInjective
  <2>2. ASSUME NEW i \in 1 .. l - 1 PROVE t[i] # Head(s)
    BY <1>1, <1>2, <1>3, <1>7 DEF IsInjective
  <2> QED BY <1>2, <2>1, <2>2 DEF ToSet
<1>8. QED
  BY <1>1, <1>5, <1>6, <1>7 DEF t

-----------------------------------------------------------------------------
(* An entry that is read is new, and nothing of what is in it was printed.  *)

LEMMA NewEntry ==
  ASSUME OnItsWay, ListedOK, Walking, Walk, NEW e, NEW g, ReadIs(e, g)
  PROVE  /\ e \in Nodes \ {Root} /\ kind[e] # "none" /\ Parent[e] = Top.dir
         /\ Top \in Activation /\ Top = stack[1] /\ 1 \in 1 .. Len(stack)
         /\ e \notin ToSet(listed) /\ Untouched(listed, e) /\ Parent[e] # e
         /\ opt.node \in Above(e) /\ e # opt.node /\ (~Recursive => Parent[e] = opt.node)
         /\ Parent[e] \in ToSet(listed) \/ Parent[e] = opt.node
         /\ AtOnce => \A y \in ToSet(listed) : Place(y) < Place(e)
         /\ ToSet(listed) \subseteq ToSet(listed') /\ ToSet(listed') \subseteq ToSet(listed) \cup {e}
         /\ (opt.cmd = "ld" => kind[e] = "dir") => e \in ToSet(listed')
<1>1. /\ stack \in Seq(Activation) /\ Len(stack) > 0
      /\ e \in Entries(kind, Top.dir) /\ Number(kind, e) = Top.at
      /\ listed' = IF opt.cmd = "ld" /\ kind[e] # "dir" THEN listed ELSE Append(listed, e)
  BY DEF Walking, OnItsWay, ListLabels, Walk, Chain, ReadIs
<1>2. Top \in Activation /\ Top = stack[1] /\ Len(stack) \in Nat \ {0} /\ 1 \in 1 .. Len(stack)
  <2>1. Len(stack) \in Nat \ {0} /\ \A i \in 1 .. Len(stack) : stack[i] \in Activation
    BY <1>1, StackTyped
  <2> QED BY <2>1 DEF Top
<1>3. e \in Nodes \ {Root} /\ kind[e] # "none" /\ Parent[e] = Top.dir /\ Parent[e] \in Nodes
  BY <1>1, ConstantsAssumption DEF Entries
<1>4. e \notin ToSet(listed)
  <2> SUFFICES ASSUME e \in ToSet(listed) PROVE FALSE
    OBVIOUS
  <2>1. Number(kind, e) < Top.at
    BY <1>2, <1>3 DEF Walk, Passed
  <2>2. Top.at \in Nat
    BY <1>2 DEF Activation, LastNumber
  <2> QED BY <1>1, <2>1, <2>2
<1>5. Above(e) = {Parent[e]} \cup Above(Parent[e]) /\ e \notin Above(e)
  BY <1>3, AboveIs, AboveBefore
<1>6. opt.node \in Above(e)
  <2>1. CASE Len(stack) = 1
    BY <1>2, <1>3, <1>5, <2>1 DEF Walk, Chain
  <2>2. CASE Len(stack) # 1
    <3>1. Len(stack) \in 1 .. Len(stack) /\ 1 < Len(stack)
      BY <1>2, <2>2
    <3>2. stack[Len(stack)].dir \in Above(stack[1].dir)
      BY <1>2, <3>1 DEF Walk, Chain
    <3> QED BY <1>2, <1>3, <1>5, <3>2 DEF Walk, Chain
  <2> QED BY <2>1, <2>2
<1>7. Parent[e] \in ToSet(listed) \/ Parent[e] = opt.node
  <2>1. CASE Len(stack) = 1
    BY <1>2, <1>3, <2>1 DEF Walk, Chain
  <2>2. CASE Len(stack) # 1
    BY <1>2, <1>3, <2>2 DEF Walk, Chain
  <2> QED BY <2>1, <2>2
<1>8. ~Recursive => Parent[e] = opt.node
  BY <1>2, <1>3 DEF Walk, Chain
<1>9. Untouched(listed, e)
  <2> SUFFICES ASSUME NEW x \in ToSet(listed), Parent[x] = e PROVE FALSE
    BY DEF Untouched
  <2>1. e \in ToSet(listed) \/ e = opt.node
    BY DEF ListedOK
  <2> QED BY <1>4, <1>5, <1>6, <2>1
<1>10. AtOnce => \A y \in ToSet(listed) : Place(y) < Place(e)
  <2>1. Top.at \in Nat
    BY <1>2 DEF Activation, LastNumber
  <2> QED BY <1>1, <1>2, <2>1 DEF Walk, Ordered
<1>11. listed \in Seq(Nodes)
  BY DEF ListedOK
<1>12. ToSet(Append(listed, e)) = ToSet(listed) \cup {e}
  BY <1>3, <1>11, AppendHolds
<1>13. QED
  BY <1>1, <1>2, <1>3, <1>4, <1>5, <1>6, <1>7, <1>8, <1>9, <1>10, <1>12

\* What an entry makes of the list.
LEMMA ReadListed ==
  ASSUME OnItsWay, ListedOK, Walking, Walk, NEW e, NEW g, ReadIs(e, g), kind' = kind, opt' = opt,
         pc' \notin {"close", "stat"}
  PROVE  ListedOK'
<1>1. /\ e \in Nodes \ {Root} /\ kind[e] # "none" /\ e \notin ToSet(listed)
      /\ opt.node \in Above(e) /\ e # opt.node /\ (~Recursive => Parent[e] = opt.node)
      /\ Parent[e] \in ToSet(listed) \/ Parent[e] = opt.node
      /\ AtOnce => \A y \in ToSet(listed) : Place(y) < Place(e)
  BY NewEntry
<1>2. opt.cmd \in Lists /\ listed \in Seq(Nodes) /\ IsInjective(listed)
  BY DEF Walking, OnItsWay, ListLabels, ListedOK
<1>3. CASE listed' = listed
  BY <1>2, <1>3 DEF ListedOK, Asked, AtOnce
<1>4. CASE listed' = Append(listed, e) /\ (opt.cmd = "ld" => kind[e] = "dir")
  <2>1. /\ listed' \in Seq(Nodes) /\ ToSet(listed') = ToSet(listed) \cup {e} /\ IsInjective(listed')
        /\ Len(listed') = Len(listed) + 1 /\ Len(listed) \in Nat
        /\ \A i \in 1 .. Len(listed) : listed'[i] = listed[i]
        /\ listed'[Len(listed) + 1] = e
    BY <1>1, <1>2, <1>4, AppendHolds
  <2>2. Asked(e)
    BY <1>1, <1>4 DEF Asked, Recursive
  <2>3. \A x \in ToSet(listed) : Asked(x) /\ (Parent[x] \in ToSet(listed) \/ Parent[x] = opt.node)
    BY DEF ListedOK
  <2>4. \A x : Asked(x)' <=> Asked(x)
    BY DEF Asked
  <2>5. \A x \in ToSet(listed') : Asked(x)' /\ (Parent[x] \in ToSet(listed') \/ Parent[x] = opt'.node)
    BY <1>1, <2>1, <2>2, <2>3, <2>4
  <2>6. ASSUME AtOnce, NEW i \in DOMAIN listed', NEW j \in DOMAIN listed', i < j
        PROVE  Place(listed'[i]) < Place(listed'[j])
    <3>1. i \in 1 .. Len(listed) + 1 /\ j \in 1 .. Len(listed) + 1
      BY <2>1
    <3>2. i \in 1 .. Len(listed) /\ listed'[i] = listed[i]
      BY <2>1, <2>6, <3>1
    <3>3. CASE j \in 1 .. Len(listed)
      <4>1. i \in DOMAIN listed /\ j \in DOMAIN listed /\ listed'[j] = listed[j]
        BY <1>2, <2>1, <3>2, <3>3
      <4> QED BY <2>6, <3>2, <4>1 DEF ListedOK
    <3>4. CASE j = Len(listed) + 1
      <4>1. listed[i] \in ToSet(listed) /\ listed'[j] = e
        BY <1>2, <2>1, <3>2, <3>4 DEF ToSet
      <4> QED BY <1>1, <2>6, <3>2, <4>1
    <3> QED BY <2>1, <3>1, <3>3, <3>4
  <2>7. AtOnce' <=> AtOnce
    BY DEF AtOnce
  <2> QED BY <1>2, <2>1, <2>5, <2>6, <2>7 DEF ListedOK
<1>5. QED
  BY <1>3, <1>4 DEF ReadIs

-----------------------------------------------------------------------------
(* The three ways down have in common that directory e below the one in     *)
(* hand is entered, which was printed and nothing of what is in it.         *)

Grown(e, g) ==
    /\ OneMore(Frame(e, NamesEntries), g) /\ pc' = "opendir"
    /\ g \in Activation /\ g.dir = Top.dir /\ g.named = Top.named /\ g.dirp = Top.dirp
    /\ Top.at <= g.at /\ Number(kind, e) < g.at
    /\ e \in Nodes \ {Root} /\ kind[e] = "dir" /\ Parent[e] = Top.dir
    /\ ToSet(listed) \subseteq ToSet(listed') /\ ToSet(listed') \subseteq ToSet(listed) \cup {e}
    /\ e \in ToSet(listed') /\ Untouched(listed', e) /\ Recursive
    /\ AtOnce => \A y \in ToSet(listed') : Place(y) <= Place(e)

LEMMA Growing ==
  ASSUME OnItsWay, ListedOK, Walking, Walk
  PROVE  /\ \A e, g : GoesInto(e, g) => Grown(e, g)
         /\ GoesDown => Grown(Last(Top.todo), Top)
         /\ GoesOn => Grown(Head(Top.todo), [Top EXCEPT !.todo = Tail(@)])
<1>1. /\ stack \in Seq(Activation) /\ Len(stack) > 0
      /\ \A x \in ToSet(listed) : x \in Nodes \ {Root}
  <2>1. \A x \in ToSet(listed) : x \in Nodes
    BY DEF ListedOK, ToSet
  <2> QED BY <2>1 DEF Walking, OnItsWay, ListLabels, Walk, Chain, ListedOK, Asked
<1>2. /\ Top \in Activation /\ Top = stack[1] /\ 1 \in 1 .. Len(stack)
      /\ Top.at \in Nat /\ Top.todo \in Seq(Nodes)
  <2>1. Len(stack) \in Nat \ {0} /\ \A i \in 1 .. Len(stack) : stack[i] \in Activation
    BY <1>1, StackTyped
  <2> QED BY <2>1 DEF Top, Activation, LastNumber
<1>3. \A x \in ToSet(listed) : Place(x) \in Nat
  BY <1>1, PlaceIs
<1>4. ASSUME NEW e, NEW g, GoesInto(e, g) PROVE Grown(e, g)
  <2>1. ReadIs(e, g)
    BY <1>4 DEF GoesInto
  <2>2. /\ e \in Nodes \ {Root} /\ Parent[e] = Top.dir
        /\ Untouched(listed, e) /\ Parent[e] # e
        /\ AtOnce => \A y \in ToSet(listed) : Place(y) < Place(e)
        /\ ToSet(listed) \subseteq ToSet(listed') /\ ToSet(listed') \subseteq ToSet(listed) \cup {e}
        /\ (opt.cmd = "ld" => kind[e] = "dir") => e \in ToSet(listed')
    BY <2>1, NewEntry
  <2>3. Untouched(listed', e)
    <3>1. \A L : ToSet(L) \subseteq ToSet(listed) \cup {e} => Untouched(L, e)
      BY <2>2 DEF Untouched
    <3> QED BY <2>2, <3>1
  <2>4. AtOnce => \A y \in ToSet(listed') : Place(y) <= Place(e)
    <3>1. Place(e) \in Nat
      BY <2>2, PlaceIs
    <3> QED BY <1>3, <2>2, <3>1
  <2>5. Number(kind, e) < g.at /\ Top.at <= g.at
    BY <1>2, <2>1 DEF ReadIs
  <2> QED BY <1>4, <2>1, <2>2, <2>3, <2>4, <2>5 DEF Grown, GoesInto, ReadIs, Recursive
<1>5. ASSUME GoesDown PROVE Grown(Last(Top.todo), Top)
  <2> DEFINE e == Last(Top.todo)
  <2>1. pc = "closedir" /\ opt.cmd \in {"ld", "lt"} /\ listed' = listed /\ pc' = "opendir"
        /\ OneMore(Frame(e, NamesEntries), Top)
    BY <1>5 DEF GoesDown
  <2>2. /\ e \in ToSet(listed) /\ Parent[e] = stack[1].dir /\ kind[e] = "dir"
        /\ Untouched(listed, e) /\ \A y \in ToSet(listed) : Place(y) <= Place(e)
    BY <2>1 DEF Walk, Ahead, Top
  <2>3. Number(kind, e) < Top.at
    BY <1>2, <2>2 DEF Walk, Passed
  <2> HIDE DEF e
  <2>4. Untouched(listed', e)
    BY <2>1, <2>2
  <2>5. Grown(e, Top)
    BY <1>1, <1>2, <2>1, <2>2, <2>3, <2>4 DEF Grown, Recursive
  <2> QED BY <2>5 DEF e
<1>6. ASSUME GoesOn PROVE Grown(Head(Top.todo), [Top EXCEPT !.todo = Tail(@)])
  <2> DEFINE e == Head(Top.todo)
             v == Tail(Top.todo)
             g == [Top EXCEPT !.todo = v]
  <2>1. pc = "subdirs" /\ listed' = listed /\ pc' = "opendir" /\ Top.todo # <<>>
        /\ OneMore(Frame(e, NamesEntries), g)
    BY <1>6 DEF GoesOn
  <2>2. ~AtOnce /\ Recursive
    BY <2>1 DEF Walk, Ahead
  <2>3. e \in ToSet(Top.todo) /\ v \in Seq(Nodes)
    BY <1>2, <2>1, TailHolds
  <2>4. e \in ToSet(listed) /\ Parent[e] = Top.dir /\ kind[e] = "dir" /\ Untouched(listed, e)
    <3> HIDE DEF e
    <3> QED BY <1>2, <2>2, <2>3 DEF Walk, Queued
  <2>5. g \in Activation /\ g.dir = Top.dir /\ g.named = Top.named /\ g.dirp = Top.dirp /\ g.at = Top.at
    <3> HIDE DEF v, g
    <3>1. g = [Top EXCEPT !.todo = v]
      BY DEF g
    <3>2. g \in Activation /\ g = [dir |-> Top.dir, named |-> Top.named, at |-> Top.at, dirp |-> Top.dirp, todo |-> v]
      BY <1>2, <2>3, <3>1, ActivationsAre
    <3> QED BY <3>2
  <2>6. Number(kind, e) < Top.at
    <3> HIDE DEF e
    <3> QED BY <1>2, <2>4 DEF Walk, Passed
  <2> HIDE DEF e, g
  <2>7. Untouched(listed', e)
    BY <2>1, <2>4
  <2>8. Grown(e, g)
    BY <1>1, <1>2, <2>1, <2>2, <2>4, <2>5, <2>6, <2>7 DEF Grown
  <2> QED BY <2>8 DEF e, g, v
<1>7. QED
  BY <1>4, <1>5, <1>6

\* The other moves but the return leave the directories as they are.
Kept ==
    /\ Len(stack') = Len(stack) /\ ToSet(listed) \subseteq ToSet(listed')
    /\ \A i \in 1 .. Len(stack) :
          /\ stack'[i].dir = stack[i].dir /\ stack'[i].named = stack[i].named
          /\ stack[i].at <= stack'[i].at /\ (i > 1 => stack'[i] = stack[i])

LEMMA Keeping ==
  ASSUME OnItsWay, ListedOK, Walking, Walk
  PROVE  /\ Stays => Kept
         /\ Skips => Kept
         /\ \A h \in 0 .. MaxDir : Opens(h) => Kept /\ stack'[1].dirp = h /\ stack'[1].at = Top.at /\ stack'[1].todo = Top.todo
         /\ \A e, g : Reads(e, g) => Kept
<1>1. stack \in Seq(Activation) /\ Len(stack) > 0
  BY DEF Walking, OnItsWay, ListLabels, Walk, Chain
<1>2. /\ Top \in Activation /\ Top = stack[1] /\ 1 \in 1 .. Len(stack) /\ Len(stack) \in Nat
      /\ \A i \in 1 .. Len(stack) : stack[i] \in Activation /\ stack[i].at \in Nat /\ (i = 1 \/ i \in 2 .. Len(stack))
  <2>1. Len(stack) \in Nat \ {0} /\ \A i \in 1 .. Len(stack) : stack[i] \in Activation
    BY <1>1, StackTyped
  <2> QED BY <2>1 DEF Top, Activation, LastNumber
<1>3. ASSUME NEW g, TopIs(g), g.dir = Top.dir, g.named = Top.named, Top.at <= g.at,
             ToSet(listed) \subseteq ToSet(listed')
      PROVE  Kept
  <2>1. ASSUME NEW i \in 1 .. Len(stack)
        PROVE  /\ stack'[i].dir = stack[i].dir /\ stack'[i].named = stack[i].named
               /\ stack[i].at <= stack'[i].at /\ (i > 1 => stack'[i] = stack[i])
    <3>1. CASE i = 1
      BY <1>2, <1>3, <3>1 DEF TopIs
    <3>2. CASE i \in 2 .. Len(stack)
      BY <1>2, <1>3, <3>2 DEF TopIs
    <3> QED BY <1>2, <3>1, <3>2
  <2> QED BY <1>3, <2>1 DEF Kept, TopIs
<1>4. Stays => Kept
  BY <1>2 DEF Stays, Kept
<1>5. ASSUME Skips PROVE Kept
  <2> DEFINE g == Advanced(Top)
  <2>1. TopIs(g) /\ g.dir = Top.dir /\ g.named = Top.named /\ Top.at <= g.at /\ listed' = listed
    BY <1>2, <1>5, ActivationsAre DEF Skips
  <2> HIDE DEF g
  <2> QED BY <1>3, <2>1
<1>6. ASSUME NEW h \in 0 .. MaxDir, Opens(h)
      PROVE  Kept /\ stack'[1].dirp = h /\ stack'[1].at = Top.at /\ stack'[1].todo = Top.todo
  <2> DEFINE g == [Top EXCEPT !.dirp = h]
  <2>1. g = [dir |-> Top.dir, named |-> Top.named, at |-> Top.at, dirp |-> h, todo |-> Top.todo]
    BY <1>2, ActivationsAre
  <2>2. TopIs(g) /\ listed' = listed
    BY <1>6 DEF Opens
  <2> HIDE DEF g
  <2>3. g.dir = Top.dir /\ g.named = Top.named /\ g.at = Top.at /\ g.dirp = h /\ g.todo = Top.todo
    BY <2>1
  <2>4. Kept
    BY <1>2, <1>3, <2>2, <2>3
  <2> QED BY <2>2, <2>3, <2>4 DEF TopIs
<1>7. ASSUME NEW e, NEW g, Reads(e, g) PROVE Kept
  <2>1. ReadIs(e, g) /\ TopIs(g)
    BY <1>7 DEF Reads
  <2>2. ToSet(listed) \subseteq ToSet(listed')
    BY <2>1, NewEntry
  <2>3. Top.at <= g.at
    BY <1>2, <2>1 DEF ReadIs
  <2> QED BY <1>3, <2>1, <2>2, <2>3 DEF ReadIs
<1>8. QED
  BY <1>4, <1>5, <1>6, <1>7

\* The activations stay those of a directory and the directories above it.
LEMMA ChainOn ==
  ASSUME OnItsWay, ListedOK, Walking, Walk, kind' = kind, opt' = opt, Moves, Walking'
  PROVE  Chain'
<1> DEFINE l == Len(stack)
<1>0. stack' \in Seq(Activation)
  BY DEF Moves
<1>1. /\ stack \in Seq(Activation) /\ l \in Nat \ {0} /\ stack[l].dir = opt.node
      /\ \A i \in 1 .. l :
           /\ stack[i] \in Activation /\ stack[i].dir \in Nodes
           /\ kind[stack[i].dir] = "dir"
           /\ Depth(stack[i].dir) = Depth(opt.node) + l - i
           /\ i < l => stack[i].dir \in ToSet(listed) /\ Parent[stack[i].dir] = stack[i + 1].dir
           /\ \A j \in 1 .. l : i < j => stack[j].dir \in Above(stack[i].dir)
      /\ ~Recursive => l = 1
  <2>1. stack \in Seq(Activation) /\ l > 0
    BY DEF Walking, OnItsWay, ListLabels, Walk, Chain
  <2>2. l \in Nat \ {0} /\ \A i \in 1 .. l : stack[i] \in Activation
    BY <2>1, StackTyped
  <2> QED BY <2>1, <2>2 DEF Walk, Chain, Activation
<1>2. Recursive' <=> Recursive
  BY DEF Recursive
<1>3. CASE Kept
  <2>1. /\ Len(stack') = l /\ ToSet(listed) \subseteq ToSet(listed')
        /\ \A i \in 1 .. l : stack'[i].dir = stack[i].dir
    BY <1>3 DEF Kept
  <2> HIDE DEF l
  <2>2. stack'[Len(stack')].dir = opt'.node
    BY <1>1, <2>1
  <2>3. ASSUME NEW i \in 1 .. Len(stack')
        PROVE  /\ kind'[stack'[i].dir] = "dir"
               /\ Depth(stack'[i].dir) = Depth(opt'.node) + Len(stack') - i
               /\ i < Len(stack') =>
                    stack'[i].dir \in ToSet(listed') /\ Parent[stack'[i].dir] = stack'[i + 1].dir
               /\ \A j \in 1 .. Len(stack') : i < j => stack'[j].dir \in Above(stack'[i].dir)
    <3>1. i < l => i + 1 \in 1 .. l
      BY <1>1, <2>1
    <3> QED BY <1>1, <2>1, <3>1
  <2> QED BY <1>0, <1>1, <1>2, <2>1, <2>2, <2>3 DEF Chain
<1>4. ASSUME NEW e, NEW g, Grown(e, g) PROVE Chain'
  <2>1. /\ Len(stack') = l + 1 /\ stack'[1].dir = e /\ stack'[2].dir = stack[1].dir
        /\ \A i \in 2 .. l : stack'[i + 1] = stack[i]
        /\ e \in Nodes \ {Root} /\ kind[e] = "dir" /\ Parent[e] = stack[1].dir
        /\ ToSet(listed) \subseteq ToSet(listed') /\ e \in ToSet(listed') /\ Recursive
    BY <1>4 DEF Grown, OneMore, Top, Frame
  <2>2. \A i \in 1 .. l : stack'[i + 1].dir = stack[i].dir
    <3>1. \A i \in 1 .. l : i = 1 \/ i \in 2 .. l
      BY <1>1
    <3> QED BY <2>1, <3>1
  <2>3. Above(e) = {stack[1].dir} \cup Above(stack[1].dir) /\ Depth(e) = Depth(stack[1].dir) + 1
    BY <2>1, AboveIs, DepthIs
  <2>4. \A x \in Nodes : Depth(x) \in Nat
    BY DepthIs
  <2> HIDE DEF l
  <2>5. stack'[Len(stack')].dir = opt'.node
    <3>1. l \in 1 .. l
      BY <1>1
    <3> QED BY <1>1, <2>1, <2>2, <3>1
  <2>6. ASSUME NEW i \in 1 .. Len(stack')
        PROVE  /\ kind'[stack'[i].dir] = "dir"
               /\ Depth(stack'[i].dir) = Depth(opt'.node) + Len(stack') - i
               /\ i < Len(stack') =>
                    stack'[i].dir \in ToSet(listed') /\ Parent[stack'[i].dir] = stack'[i + 1].dir
               /\ \A j \in 1 .. Len(stack') : i < j => stack'[j].dir \in Above(stack'[i].dir)
    <3>0. \A j \in 1 .. Len(stack') : j = 1 \/ (j - 1 \in 1 .. l /\ (j - 1) + 1 = j)
      BY <1>1, <2>1
    <3>1. opt.node \in Nodes
      BY <1>1
    <3>2. CASE i = 1
      <4>1. 1 \in 1 .. l /\ 1 + 1 = 2
        BY <1>1
      <4>2. Depth(stack[1].dir) = Depth(opt.node) + l - 1 /\ Depth(opt.node) \in Nat
        BY <1>1, <2>4, <3>1, <4>1
      <4>3. Depth(stack'[1].dir) = Depth(opt'.node) + Len(stack') - 1
        BY <1>1, <2>1, <2>3, <4>2
      <4>4. ASSUME NEW j \in 1 .. Len(stack'), 1 < j PROVE stack'[j].dir \in Above(e)
        <5>1. j - 1 \in 1 .. l /\ (j - 1) + 1 = j
          BY <3>0, <4>4
        <5>2. stack'[j].dir = stack[j - 1].dir
          BY <2>2, <5>1
        <5>3. CASE j - 1 = 1
          BY <2>3, <5>2, <5>3
        <5>4. CASE j - 1 # 1
          <6>1. stack[j - 1].dir \in Above(stack[1].dir)
            BY <1>1, <4>1, <5>1, <5>4
          <6> QED BY <2>3, <5>2, <6>1
        <5> QED BY <5>3, <5>4
      <4> QED BY <2>1, <3>2, <4>1, <4>3, <4>4
    <3>3. CASE i # 1
      <4> DEFINE k == i - 1
      <4>1. k \in 1 .. l /\ k + 1 = i
        BY <3>0, <3>3
      <4>2. stack'[i].dir = stack[k].dir
        BY <2>2, <4>1
      <4>3. Depth(opt.node) \in Nat /\ Depth(stack[k].dir) = Depth(opt.node) + l - k
        BY <1>1, <2>4, <3>1, <4>1
      <4>4. Depth(stack'[i].dir) = Depth(opt'.node) + Len(stack') - i
        BY <1>1, <2>1, <4>1, <4>2, <4>3
      <4>5. ASSUME i < Len(stack')
            PROVE  stack'[i].dir \in ToSet(listed') /\ Parent[stack'[i].dir] = stack'[i + 1].dir
        <5>0. l \in Nat /\ i < l + 1 /\ k \in 1 .. l /\ i = k + 1
          BY <1>1, <2>1, <4>1, <4>5
        <5>1. k < l /\ i \in 1 .. l
          <6> HIDE DEF k
          <6> QED BY <5>0
        <5>2. stack'[i + 1].dir = stack[i].dir
          BY <2>2, <5>1
        <5> QED BY <1>1, <2>1, <4>1, <4>2, <5>1, <5>2
      <4>6. ASSUME NEW j \in 1 .. Len(stack'), i < j PROVE stack'[j].dir \in Above(stack'[i].dir)
        <5>1. j # 1
          BY <4>1, <4>6
        <5>2. j - 1 \in 1 .. l /\ (j - 1) + 1 = j /\ k < j - 1
          BY <3>0, <4>1, <4>6, <5>1
        <5>3. stack'[j].dir = stack[j - 1].dir
          BY <2>2, <5>2
        <5> QED BY <1>1, <4>1, <4>2, <5>2, <5>3
      <4>7. kind'[stack'[i].dir] = "dir"
        BY <1>1, <4>1, <4>2
      <4> QED BY <4>4, <4>5, <4>6, <4>7
    <3> QED BY <3>2, <3>3
  <2> QED BY <1>0, <1>2, <2>1, <2>5, <2>6 DEF Chain
<1>5. CASE GoesBack
  <2>1. l # 1 /\ OneLess /\ listed' = listed
    BY <1>5 DEF GoesBack, Walking, ListLabels
  <2>2. Len(stack') = l - 1 /\ \A i \in 1 .. l - 1 : stack'[i] = stack[i + 1] /\ i + 1 \in 1 .. l
    BY <1>1, <2>1 DEF OneLess
  <2> HIDE DEF l
  <2>3. stack'[Len(stack')].dir = opt'.node
    <3>1. l - 1 \in 1 .. l - 1 /\ (l - 1) + 1 = l
      BY <1>1, <2>1
    <3> QED BY <1>1, <2>2, <3>1
  <2>4. ASSUME NEW i \in 1 .. Len(stack')
        PROVE  /\ kind'[stack'[i].dir] = "dir"
               /\ Depth(stack'[i].dir) = Depth(opt'.node) + Len(stack') - i
               /\ i < Len(stack') =>
                    stack'[i].dir \in ToSet(listed') /\ Parent[stack'[i].dir] = stack'[i + 1].dir
               /\ \A j \in 1 .. Len(stack') : i < j => stack'[j].dir \in Above(stack'[i].dir)
    <3> DEFINE k == i + 1
    <3>1. k \in 1 .. l /\ stack'[i] = stack[k] /\ opt.node \in Nodes
      BY <1>1, <2>2
    <3>2. Depth(stack'[i].dir) = Depth(opt'.node) + Len(stack') - i
      <4>1. Depth(opt.node) \in Nat /\ Depth(stack[k].dir) = Depth(opt.node) + l - k
        BY <1>1, <3>1, DepthIs
      <4>2. l - k = Len(stack') - i
        BY <1>1, <2>2
      <4>3. Depth(opt.node) + l - k = Depth(opt.node) + (l - k) /\ Len(stack') \in Nat /\ i \in Nat
        BY <1>1, <2>1, <2>2, <4>1
      <4> QED BY <1>1, <2>2, <3>1, <4>1, <4>2, <4>3
    <3>3. ASSUME i < Len(stack')
          PROVE  stack'[i].dir \in ToSet(listed') /\ Parent[stack'[i].dir] = stack'[i + 1].dir
      <4>1. k < l /\ k \in 1 .. l - 1
        BY <1>1, <2>2, <3>3
      <4>2. stack'[i + 1] = stack[k + 1]
        BY <2>2, <4>1
      <4> QED BY <1>1, <2>1, <3>1, <4>1, <4>2
    <3>4. ASSUME NEW j \in 1 .. Len(stack'), i < j PROVE stack'[j].dir \in Above(stack'[i].dir)
      <4>1. j \in 1 .. l - 1 /\ k < j + 1
        BY <2>2, <3>4
      <4>2. stack'[j] = stack[j + 1] /\ j + 1 \in 1 .. l
        BY <2>2, <4>1
      <4> QED BY <1>1, <3>1, <4>1, <4>2
    <3> QED BY <1>1, <3>1, <3>2, <3>3, <3>4
  <2>5. ~Recursive' => Len(stack') = 1
    BY <1>1, <1>2, <2>1
  <2> QED BY <1>0, <2>3, <2>4, <2>5 DEF Chain
<1>6. QED
  BY <1>3, <1>4, <1>5, Keeping, Growing DEF Moves

\* What a walk has in hand, spelled out, and no directory twice.
LEMMA WalkIs ==
  ASSUME OnItsWay, ListedOK, Walking, Walk
  PROVE  /\ stack \in Seq(Activation) /\ Len(stack) \in Nat \ {0} /\ IsStack(stack)
         /\ opt.cmd \in Lists /\ 1 \in 1 .. Len(stack) /\ Top = stack[1] /\ opt \in Commands
         /\ \A i \in 1 .. Len(stack) :
              /\ stack[i] \in Activation /\ stack[i].dir \in Nodes /\ stack[i].at \in 1 .. LastNumber /\ stack[i].at \in Nat
              /\ stack[i].dirp \in 0 .. MaxDir /\ stack[i].todo \in Seq(Nodes)
              /\ i = 1 \/ i \in 2 .. Len(stack)
              /\ \A j \in 1 .. Len(stack) : i < j => stack[i].dir # stack[j].dir /\ stack[i].dir \in Nodes \ {Root}
         /\ \A x \in ToSet(listed) : x \in Nodes \ {Root} /\ kind[x] # "none" /\ Place(x) \in Nat
         /\ pc \in {"opendir", "readdir", "closedir", "leave", "subdirs", "reopen"}
<1>1. stack \in Seq(Activation) /\ Len(stack) > 0 /\ opt.cmd \in Lists /\ opt \in Commands
  BY DEF Walking, OnItsWay, ListLabels, Walk, Chain
<1>2. Len(stack) \in Nat \ {0} /\ \A i \in 1 .. Len(stack) : stack[i] \in Activation
  BY <1>1, StackTyped
<1>3. \A i \in 1 .. Len(stack) :
              /\ stack[i].dir \in Nodes /\ stack[i].at \in 1 .. LastNumber /\ stack[i].at \in Nat
              /\ stack[i].dirp \in 0 .. MaxDir /\ stack[i].todo \in Seq(Nodes)
              /\ i = 1 \/ i \in 2 .. Len(stack)
  BY <1>2 DEF Activation, LastNumber
<1>4. \A x \in ToSet(listed) : x \in Nodes \ {Root} /\ kind[x] # "none"
  <2>1. \A x \in ToSet(listed) : x \in Nodes
    BY DEF ListedOK, ToSet
  <2> QED BY <2>1 DEF ListedOK, Asked
<1>5. \A x \in ToSet(listed) : Place(x) \in Nat
  BY <1>4, PlaceIs
<1>6. ASSUME NEW i \in 1 .. Len(stack), NEW j \in 1 .. Len(stack), i < j
      PROVE  stack[i].dir # stack[j].dir /\ stack[i].dir \in Nodes \ {Root}
  <2>1. i < Len(stack)
    BY <1>2, <1>6
  <2>2. stack[i].dir \in ToSet(listed) /\ stack[j].dir \in Above(stack[i].dir)
    BY <1>6, <2>1 DEF Walk, Chain
  <2> QED BY <1>4, <2>2, AboveBefore
<1>7. QED
  BY <1>1, <1>2, <1>3, <1>4, <1>5, <1>6, StackTyped DEF Top, Walking, ListLabels

\* Handles stand for the directories they were opened for.
LEMMA OpenedOn ==
  ASSUME OnItsWay, ListedOK, Walking, Walk, kind' = kind, opt' = opt, Moves, Walking'
  PROVE  Opened'
<1> DEFINE OK(i) == \/ stack[i].dirp \in 1 .. MaxDir /\ dirs[stack[i].dirp] = stack[i].dir
                    \/ i = 1 /\ stack[i].dirp = 0
<1>1. /\ DOMAIN dirs = 1 .. MaxDir /\ \A i \in 1 .. Len(stack) : InHand(i) => OK(i)
      /\ DOMAIN dirs' = DOMAIN dirs
      /\ NoNode \notin Nodes
  BY ConstantsAssumption DEF Walk, Opened, Moves, Stays, Skips, Opens, GoesDown, GoesOn, GoesBack, Reads, ReadIs, GoesInto
<1>2. SUFFICES ASSUME NEW i \in 1 .. Len(stack'), InHand(i)' PROVE OK(i)'
  BY <1>1 DEF Opened
<1>3. /\ Len(stack) \in Nat \ {0} /\ opt.cmd \in Lists /\ 1 \in 1 .. Len(stack) /\ Top = stack[1]
      /\ \A k \in 1 .. Len(stack) :
              /\ stack[k] \in Activation /\ stack[k].dir \in Nodes /\ stack[k].dirp \in 0 .. MaxDir
              /\ k = 1 \/ k \in 2 .. Len(stack)
              /\ \A j \in 1 .. Len(stack) : k < j => stack[k].dir # stack[j].dir
  BY WalkIs
<1>4. CASE Stays
  <2>1. i \in 1 .. Len(stack) /\ stack' = stack
    BY <1>4 DEF Stays
  <2>2. InHand(i) /\ dirs' = dirs
    BY <1>2, <1>4 DEF Stays, InHand, AtOnce
  <2> QED BY <1>1, <2>1, <2>2
<1>5. ASSUME NEW h \in 0 .. MaxDir, Opens(h) PROVE OK(i)'
  <2>1. Kept /\ stack'[1].dirp = h
    BY <1>5, Keeping
  <2>2. i \in 1 .. Len(stack) /\ stack'[i].dir = stack[i].dir /\ (i > 1 => stack'[i] = stack[i])
    BY <2>1 DEF Kept
  <2>3. /\ \A x \in DOMAIN dirs : dirs[x] # NoNode => dirs'[x] = dirs[x]
        /\ h # 0 => dirs'[h] = Top.dir
    BY <1>5 DEF Opens
  <2>4. CASE i = 1
    BY <1>3, <1>5, <2>1, <2>2, <2>3, <2>4
  <2>5. CASE i # 1
    <3>1. i > 1
      BY <1>3, <2>2, <2>5
    <3>2. InHand(i) /\ stack'[i] = stack[i]
      BY <1>2, <2>2, <3>1 DEF InHand
    <3>3. stack[i].dirp \in 1 .. MaxDir /\ dirs[stack[i].dirp] = stack[i].dir /\ stack[i].dir # NoNode
      BY <1>1, <1>3, <2>2, <2>5, <3>2
    <3> QED BY <1>1, <2>3, <3>2, <3>3
  <2> QED BY <2>4, <2>5
<1>6. ASSUME NEW g, TopIs(g), Kept, g.dirp = Top.dirp, dirs' = dirs, pc = "readdir" PROVE OK(i)'
  <2>1. i \in 1 .. Len(stack) /\ stack'[i].dir = stack[i].dir /\ (i > 1 => stack'[i] = stack[i]) /\ stack'[1] = g
    BY <1>6 DEF Kept, TopIs
  <2>2. stack'[i].dirp = stack[i].dirp
    BY <1>3, <1>6, <2>1
  <2>3. InHand(i)
    BY <1>2, <1>6 DEF InHand
  <2> QED BY <1>1, <1>6, <2>1, <2>2, <2>3
<1>7. CASE Skips
  <2>1. TopIs(Advanced(Top)) /\ Advanced(Top).dirp = Top.dirp /\ dirs' = dirs /\ pc = "readdir"
    BY <1>3, <1>7, ActivationsAre DEF Skips
  <2> QED BY <1>6, <1>7, <2>1, Keeping
<1>8. ASSUME NEW e, NEW g, Reads(e, g) PROVE OK(i)'
  <2>1. TopIs(g) /\ g.dirp = Top.dirp /\ dirs' = dirs /\ pc = "readdir"
    BY <1>8 DEF Reads, ReadIs
  <2> QED BY <1>6, <1>8, <2>1, Keeping
<1>9. ASSUME NEW e, NEW g, GoesInto(e, g) PROVE OK(i)'
  <2>1. /\ Len(stack') = Len(stack) + 1 /\ stack'[2] = g
        /\ \A k \in 2 .. Len(stack) : stack'[k + 1] = stack[k]
        /\ g.dir = Top.dir /\ g.dirp = Top.dirp /\ Top.dirp \in 1 .. MaxDir /\ dirs' = dirs
        /\ pc = "readdir" /\ pc' = "opendir" /\ opt.cmd = "ll"
    BY <1>9 DEF GoesInto, OneMore, ReadIs
  <2>2. i > 1
    BY <1>2, <2>1 DEF InHand
  <2>3. CASE i = 2
    <3>1. InHand(1)
      BY <2>1 DEF InHand
    <3>2. dirs[Top.dirp] = Top.dir
      BY <1>1, <1>3, <2>1, <3>1, ConstantsAssumption
    <3> QED BY <1>1, <2>1, <2>3, <3>2
  <2>4. CASE i # 2
    <3> DEFINE k == i - 1
    <3>1. k \in 2 .. Len(stack) /\ k \in 1 .. Len(stack) /\ k > 1 /\ k + 1 = i /\ k # 1
      BY <1>3, <2>1, <2>2, <2>4
    <3>2. stack'[i] = stack[k] /\ InHand(k)
      BY <2>1, <3>1 DEF InHand
    <3> HIDE DEF k
    <3>3. stack[k].dirp \in 1 .. MaxDir /\ dirs[stack[k].dirp] = stack[k].dir
      BY <1>1, <3>1, <3>2
    <3> QED BY <2>1, <3>2, <3>3
  <2> QED BY <2>3, <2>4
<1>10. CASE GoesDown
  BY <1>2, <1>10 DEF GoesDown, InHand
<1>11. CASE GoesOn
  <2>1. opt.cmd # "ll"
    BY <1>11 DEF GoesOn, Walk, Ahead, AtOnce
  <2> QED BY <1>2, <1>11, <2>1 DEF GoesOn, InHand
<1>12. CASE GoesBack
  <2>1. Len(stack) # 1 /\ OneLess
        /\ pc' = IF opt.cmd \in {"ld", "lt"} THEN "reopen" ELSE IF opt.cmd = "ll" THEN "readdir" ELSE "subdirs"
    BY <1>12 DEF GoesBack, Walking, ListLabels
  <2>2. opt.cmd = "ll"
    BY <1>2, <2>1 DEF InHand
  <2> DEFINE k == i + 1
  <2>3. k \in 1 .. Len(stack) /\ k > 1 /\ k # 1 /\ 1 < k /\ stack'[i] = stack[k]
    BY <1>3, <2>1 DEF OneLess
  <2> HIDE DEF k
  <2>4. InHand(k)
    BY <2>2, <2>3 DEF InHand
  <2>5. stack[k].dirp \in 1 .. MaxDir /\ dirs[stack[k].dirp] = stack[k].dir /\ stack[k].dir # NoNode
        /\ stack[1].dir # stack[k].dir
    BY <1>1, <1>3, <2>3, <2>4
  <2>6. stack[k].dirp = Top.dirp => pc # "leave"
    <3> SUFFICES ASSUME stack[k].dirp = Top.dirp, pc = "leave" PROVE FALSE
      OBVIOUS
    <3>1. InHand(1)
      BY DEF InHand
    <3>2. stack[1].dirp # 0 /\ stack[1].dirp = stack[k].dirp
      BY <1>3, <2>5, ConstantsAssumption
    <3>3. dirs[stack[1].dirp] = stack[1].dir
      BY <1>1, <1>3, <3>1, <3>2
    <3> QED BY <2>5, <3>2, <3>3
  <2>7. dirs'[stack[k].dirp] = stack[k].dir
    BY <1>1, <1>12, <2>5, <2>6 DEF GoesBack
  <2> QED BY <1>1, <2>3, <2>5, <2>7
<1>13. QED
  BY <1>4, <1>5, <1>7, <1>8, <1>9, <1>10, <1>11, <1>12 DEF Moves

\* The entries printed are those with numbers already read.
LEMMA PassedOn ==
  ASSUME OnItsWay, ListedOK, Walking, Walk, kind' = kind, opt' = opt, Moves, Walking'
  PROVE  Passed'
<1>1. /\ Len(stack) \in Nat \ {0} /\ 1 \in 1 .. Len(stack) /\ Top = stack[1]
      /\ \A k \in 1 .. Len(stack) :
              /\ stack[k].at \in Nat /\ (k = 1 \/ k \in 2 .. Len(stack))
              /\ \A j \in 1 .. Len(stack) : k < j => stack[k].dir # stack[j].dir
      /\ \A x \in ToSet(listed) : x \in Nodes \ {Root} /\ kind[x] # "none"
  BY WalkIs
<1>2. \A k \in 1 .. Len(stack) : \A x \in ToSet(listed) :
         Parent[x] = stack[k].dir => Number(kind, x) < stack[k].at
  BY DEF Walk, Passed
<1>3. \A x \in Nodes \ {Root} : kind[x] # "none" => Number(kind, x) \in Nat
  <2>1. Cardinality(Nodes) \in Nat
    BY ConstantsAssumption, FS_CardinalityType
  <2> QED BY <2>1, Numbers
<1>4. SUFFICES ASSUME NEW i \in 1 .. Len(stack'), NEW x \in ToSet(listed'), Parent[x] = stack'[i].dir
               PROVE  Number(kind, x) < stack'[i].at
  <2>1. \A x : Number(kind', x) = Number(kind, x)
    OBVIOUS
  <2>2. ASSUME NEW i \in 1 .. Len(stack'), NEW x \in ToSet(listed'), Parent[x] = stack'[i].dir
        PROVE  Number(kind', x) < stack'[i].at
    BY <1>4, <2>1, <2>2
  <2> QED BY <2>2 DEF Passed
<1>5. stack'[i].at \in Nat
  <2>1. stack'[i] \in Activation
    BY DEF Moves
  <2> QED BY <2>1 DEF Activation, LastNumber
<1>6. CASE Kept /\ listed' = listed
  <2>1. i \in 1 .. Len(stack) /\ stack'[i].dir = stack[i].dir /\ stack[i].at <= stack'[i].at
    BY <1>6 DEF Kept
  <2>2. Number(kind, x) < stack[i].at /\ stack[i].at \in Nat /\ Number(kind, x) \in Nat
    BY <1>1, <1>2, <1>3, <1>4, <1>6, <2>1
  <2> QED BY <1>5, <2>1, <2>2
<1>7. ASSUME NEW e, NEW g, Reads(e, g) PROVE Number(kind, x) < stack'[i].at
  <2>1. ReadIs(e, g) /\ TopIs(g) /\ Kept /\ g.at = Top.at + 1 /\ Number(kind, e) = Top.at
    BY <1>7, Keeping DEF Reads, ReadIs
  <2>2. Parent[e] = stack[1].dir /\ x \in ToSet(listed) \cup {e}
    BY <2>1, NewEntry
  <2>3. i \in 1 .. Len(stack) /\ Parent[x] = stack[i].dir /\ (i > 1 => stack'[i] = stack[i]) /\ stack'[1] = g
    BY <1>4, <2>1 DEF Kept, TopIs
  <2>4. CASE i = 1
    <3>1. x \in ToSet(listed) => Number(kind, x) < Top.at /\ Number(kind, x) \in Nat
      BY <1>1, <1>2, <1>3, <2>3, <2>4
    <3> QED BY <1>1, <2>1, <2>2, <2>3, <2>4, <3>1
  <2>5. CASE i # 1
    <3>1. 1 < i /\ stack[1].dir # stack[i].dir
      BY <1>1, <2>3, <2>5
    <3> QED BY <1>2, <2>2, <2>3, <3>1
  <2> QED BY <2>4, <2>5
<1>8. ASSUME NEW e, NEW g, Grown(e, g) PROVE Number(kind, x) < stack'[i].at
  <2>1. /\ Len(stack') = Len(stack) + 1 /\ stack'[1].dir = e /\ stack'[2] = g
        /\ \A k \in 2 .. Len(stack) : stack'[k + 1] = stack[k]
        /\ g.dir = Top.dir /\ Top.at <= g.at /\ Number(kind, e) < g.at /\ Parent[e] = Top.dir
        /\ x \in ToSet(listed) \cup {e} /\ Untouched(listed', e)
    BY <1>8 DEF Grown, OneMore, Frame
  <2>2. i # 1
    BY <1>4, <2>1 DEF Untouched
  <2>3. CASE i = 2
    <3>1. x \in ToSet(listed) => Number(kind, x) < Top.at /\ Number(kind, x) \in Nat
      BY <1>1, <1>2, <1>3, <1>4, <2>1, <2>3
    <3> QED BY <1>1, <1>5, <2>1, <2>3, <3>1
  <2>4. CASE i # 2
    <3> DEFINE k == i - 1
    <3>1. k \in 2 .. Len(stack) /\ k \in 1 .. Len(stack) /\ 1 < k /\ k + 1 = i
      BY <1>1, <2>1, <2>2, <2>4
    <3> HIDE DEF k
    <3>2. stack'[i] = stack[k] /\ stack[1].dir # stack[k].dir
      BY <1>1, <2>1, <3>1
    <3> QED BY <1>1, <1>2, <1>4, <2>1, <3>1, <3>2
  <2> QED BY <2>3, <2>4
<1>9. CASE GoesBack
  <2>1. OneLess /\ listed' = listed
    BY <1>9 DEF GoesBack, Walking, ListLabels
  <2> DEFINE k == i + 1
  <2>2. k \in 1 .. Len(stack) /\ stack'[i] = stack[k]
    BY <1>1, <2>1 DEF OneLess
  <2> HIDE DEF k
  <2> QED BY <1>2, <1>4, <2>1, <2>2
<1>10. (Stays \/ Skips \/ \E h \in 0 .. MaxDir : Opens(h)) => Kept /\ listed' = listed
  BY Keeping DEF Stays, Skips, Opens
<1>11. QED
  BY <1>6, <1>7, <1>8, <1>9, <1>10, Growing DEF Moves

\* Directories that are still to be entered were printed, and nothing of what is in them.
LEMMA AheadOn ==
  ASSUME OnItsWay, ListedOK, Walking, Walk, kind' = kind, opt' = opt, Moves, Walking'
  PROVE  Ahead'
<1>1. /\ stack \in Seq(Activation) /\ 1 \in 1 .. Len(stack) /\ Top = stack[1] /\ opt.cmd \in Lists
      /\ Top.todo \in Seq(Nodes)
      /\ \A x \in ToSet(listed) : Place(x) \in Nat
  BY WalkIs
<1>2. Ahead
  BY DEF Walk
<1>3. CASE Stays
  <2>1. CASE pc' = pc /\ stack' = stack /\ listed' = listed
    BY <1>2, <2>1 DEF Ahead, Untouched, AtOnce, Recursive
  <2>2. CASE pc' = "leave"
    BY <2>2 DEF Ahead
  <2>3. CASE pc' = "subdirs" /\ ~AtOnce /\ Recursive
    BY <2>3 DEF Ahead, AtOnce, Recursive
  <2> QED BY <1>3, <2>1, <2>2, <2>3 DEF Stays
<1>4. ASSUME pc' = "readdir" PROVE Ahead'
  BY <1>4 DEF Ahead
<1>5. ASSUME NEW e, NEW g, Reads(e, g) PROVE Ahead'
  <2>1. CASE pc' = "readdir"
    BY <1>4, <2>1
  <2>2. CASE pc' # "readdir"
    <3>1. pc' = "closedir" /\ kind[e] = "dir" /\ opt.cmd \in {"ld", "lt"} /\ ReadIs(e, g) /\ TopIs(g)
      BY <1>5, <2>2 DEF Reads
    <3>2. /\ e \in Nodes \ {Root} /\ Parent[e] = Top.dir /\ Parent[e] # e /\ Untouched(listed, e)
          /\ \A y \in ToSet(listed) : Place(y) < Place(e)
          /\ ToSet(listed') \subseteq ToSet(listed) \cup {e} /\ e \in ToSet(listed')
      BY <3>1, NewEntry DEF AtOnce
    <3>3. stack'[1] = g /\ g.todo = Append(Top.todo, e) /\ g.dir = Top.dir
      BY <3>1 DEF ReadIs, TopIs
    <3>4. g.todo # <<>> /\ Last(g.todo) = e
      BY <1>1, <3>2, <3>3, AppendHolds
    <3>5. \A y \in ToSet(listed') : Parent[y] # e /\ Place(y) <= Place(e)
      <4>1. Place(e) \in Nat
        BY <3>2, PlaceIs
      <4> QED BY <1>1, <3>2, <4>1 DEF Untouched
    <3>6. /\ stack'[1].todo # <<>> /\ Last(stack'[1].todo) = e
      BY <3>3, <3>4
    <3>7. Untouched(listed', e)
      <4>1. \A L : (\A y \in ToSet(L) : Parent[y] # e) => Untouched(L, e)
        BY DEF Untouched
      <4> QED BY <3>5, <4>1
    <3>8. Last(stack'[1].todo) \in ToSet(listed') /\ Parent[Last(stack'[1].todo)] = stack'[1].dir
          /\ kind'[Last(stack'[1].todo)] = "dir" /\ Untouched(listed', Last(stack'[1].todo))
          /\ \A y \in ToSet(listed') : Place(y) <= Place(Last(stack'[1].todo))
      BY <3>1, <3>2, <3>3, <3>5, <3>6, <3>7
    <3> QED BY <3>1, <3>6, <3>8 DEF Ahead
  <2> QED BY <2>1, <2>2
<1>6. ASSUME NEW e, NEW g, Grown(e, g) PROVE Ahead'
  <2>1. /\ pc' = "opendir" /\ stack'[1].dir = e /\ stack'[1].at = 1 /\ stack'[1].todo = <<>>
        /\ Untouched(listed', e)
    BY <1>6 DEF Grown, OneMore, Frame
  <2>2. Untouched(listed', stack'[1].dir)
    BY <2>1
  <2> QED BY <2>1, <2>2 DEF Ahead
<1>7. CASE GoesBack
  <2>1. /\ Len(stack) # 1
        /\ pc' = IF opt.cmd \in {"ld", "lt"} THEN "reopen" ELSE IF opt.cmd = "ll" THEN "readdir" ELSE "subdirs"
    BY <1>7 DEF GoesBack, Walking, ListLabels
  <2>2. Recursive
    BY <2>1 DEF Walk, Chain
  <2>3. pc' = "subdirs" => ~AtOnce
    BY <1>1, <2>1 DEF AtOnce, Lists
  <2>4. pc' \in {"reopen", "readdir", "subdirs"}
    BY <2>1
  <2> QED BY <2>2, <2>3, <2>4 DEF Ahead, AtOnce, Recursive
<1>8. (Skips \/ \E h \in 0 .. MaxDir : Opens(h)) => pc' = "readdir"
  BY DEF Skips, Opens
<1>9. QED
  BY <1>3, <1>4, <1>5, <1>6, <1>7, <1>8, Growing DEF Moves

\* What waits in a list of subdirectories was printed, and nothing of what is in it.
LEMMA QueuedOn ==
  ASSUME OnItsWay, ListedOK, Walking, Walk, kind' = kind, opt' = opt, Moves, Walking'
  PROVE  Queued'
<1> DEFINE OK(i) ==
       /\ IsInjective(stack[i].todo)
       /\ \A t \in ToSet(stack[i].todo) :
             /\ t \in ToSet(listed) /\ Parent[t] = stack[i].dir /\ kind[t] = "dir"
             /\ Untouched(listed, t)
             /\ i > 1 => t # stack[i - 1].dir
<1>1. /\ Len(stack) \in Nat \ {0} /\ 1 \in 1 .. Len(stack) /\ Top = stack[1] /\ opt.cmd \in Lists
      /\ \A k \in 1 .. Len(stack) :
              /\ stack[k] \in Activation /\ stack[k].todo \in Seq(Nodes) /\ (k = 1 \/ k \in 2 .. Len(stack))
              /\ \A j \in 1 .. Len(stack) : k < j => stack[k].dir # stack[j].dir
      /\ \A x \in ToSet(listed) : x \in Nodes \ {Root}
  BY WalkIs
<1>2. SUFFICES ASSUME ~AtOnce, NEW i \in 1 .. Len(stack') PROVE OK(i)'
  BY DEF Queued, AtOnce
<1>3. \A k \in 1 .. Len(stack) : OK(k)
  BY <1>2 DEF Walk, Queued
<1>4. opt.cmd \in {"lf", "lm"}
  BY <1>1, <1>2 DEF AtOnce, Lists
<1>5. ASSUME Kept, listed' = listed, \A k \in 1 .. Len(stack) : stack'[k].todo = stack[k].todo
      PROVE  OK(i)'
  <2>1. /\ i \in 1 .. Len(stack) /\ stack'[i].dir = stack[i].dir /\ stack'[i].todo = stack[i].todo
        /\ i > 1 => stack'[i - 1].dir = stack[i - 1].dir
    <3>1. i \in 1 .. Len(stack) /\ (i > 1 => i - 1 \in 1 .. Len(stack))
      BY <1>1, <1>5 DEF Kept
    <3> QED BY <1>5, <3>1 DEF Kept
  <2>2. OK(i)
    BY <1>3, <2>1
  <2> QED BY <1>5, <2>1, <2>2
<1>6. CASE Stays
  <2>1. Kept
    BY <1>6, Keeping
  <2> QED BY <1>5, <1>6, <2>1 DEF Stays
<1>7. CASE Skips
  <2>1. TopIs(Advanced(Top)) /\ listed' = listed /\ Advanced(Top).todo = Top.todo
    BY <1>1, <1>7, ActivationsAre DEF Skips
  <2>2. ASSUME NEW k \in 1 .. Len(stack) PROVE stack'[k].todo = stack[k].todo
    BY <1>1, <2>1 DEF TopIs
  <2> QED BY <1>5, <1>7, <2>1, <2>2, Keeping
<1>8. ASSUME NEW h \in 0 .. MaxDir, Opens(h) PROVE OK(i)'
  <2>1. Kept /\ stack'[1].todo = Top.todo /\ listed' = listed
    BY <1>8, Keeping DEF Opens
  <2>2. ASSUME NEW k \in 1 .. Len(stack) PROVE stack'[k].todo = stack[k].todo
    <3>1. k > 1 => stack'[k] = stack[k]
      BY <2>1 DEF Kept
    <3>2. k = 1 \/ k > 1
      OBVIOUS
    <3> QED BY <1>1, <2>1, <3>1, <3>2
  <2> QED BY <1>5, <2>1, <2>2
<1>9. ASSUME NEW e, NEW g, Reads(e, g) PROVE OK(i)'
  <2>1. ReadIs(e, g) /\ TopIs(g) /\ Kept
    BY <1>9, Keeping DEF Reads
  <2>2. /\ e \in Nodes \ {Root} /\ Parent[e] = stack[1].dir /\ e \notin ToSet(listed)
        /\ Untouched(listed, e) /\ Parent[e] # e /\ e \in ToSet(listed')
        /\ ToSet(listed) \subseteq ToSet(listed') /\ ToSet(listed') \subseteq ToSet(listed) \cup {e}
    BY <1>1, <1>4, <2>1, NewEntry
  <2>3. \A t : Untouched(listed, t) /\ Parent[e] # t => Untouched(listed', t)
    <3>1. \A L, t : ToSet(L) \subseteq ToSet(listed) \cup {e} /\ Untouched(listed, t) /\ Parent[e] # t => Untouched(L, t)
      BY DEF Untouched
    <3> QED BY <2>2, <3>1
  <2>4. i \in 1 .. Len(stack) /\ stack'[i].dir = stack[i].dir
    BY <2>1 DEF Kept
  <2>5. OK(i)
    BY <1>3, <2>4
  <2>6. \A t \in ToSet(stack[i].todo) : Parent[t] # t
    BY <1>1, <2>5, AboveIs, AboveBefore
  <2>7. CASE i = 1
    <3>1. stack'[1] = g /\ g.dir = Top.dir
          /\ g.todo = IF kind[e] = "dir" THEN Append(Top.todo, e) ELSE Top.todo
      BY <2>1 DEF ReadIs, TopIs
    <3>2. \A t \in ToSet(Top.todo) : t \in ToSet(listed) /\ Parent[t] = Top.dir /\ kind[t] = "dir" /\ Untouched(listed', t)
      BY <1>1, <2>2, <2>3, <2>5, <2>6, <2>7
    <3>3. Untouched(listed', e)
      BY <2>2, <2>3
    <3>4. CASE kind[e] # "dir"
      <4>1. stack'[i].todo = Top.todo /\ IsInjective(Top.todo) /\ stack'[i].dir = Top.dir
        BY <1>1, <2>5, <2>7, <3>1, <3>4
      <4> QED BY <2>2, <2>7, <3>2, <4>1
    <3>5. CASE kind[e] = "dir"
      <4>0. e \notin ToSet(Top.todo)
        BY <2>2, <3>2
      <4>1. ToSet(g.todo) = ToSet(Top.todo) \cup {e} /\ IsInjective(g.todo)
        BY <1>1, <2>2, <2>5, <2>7, <3>1, <3>5, <4>0, AppendHolds
      <4>2. \A t \in ToSet(g.todo) : t \in ToSet(listed') /\ Parent[t] = Top.dir /\ kind[t] = "dir" /\ Untouched(listed', t)
        BY <1>1, <2>2, <3>2, <3>3, <3>5, <4>1
      <4> QED BY <2>7, <3>1, <4>1, <4>2
    <3> QED BY <3>4, <3>5
  <2>8. CASE i # 1
    <3>1. i > 1 /\ stack'[i] = stack[i] /\ i - 1 \in 1 .. Len(stack)
      BY <1>1, <2>1, <2>4, <2>8 DEF Kept
    <3>2. stack'[i - 1].dir = stack[i - 1].dir
      BY <2>1, <3>1 DEF Kept
    <3>3. ASSUME NEW t \in ToSet(stack[i].todo) PROVE t # stack[1].dir
      <4>1. t # stack[i - 1].dir /\ Parent[t] = stack[i].dir
        BY <2>5, <3>1
      <4>2. CASE i = 2
        <5>1. i - 1 = 1
          BY <4>2
        <5> QED BY <4>1, <5>1
      <4>3. CASE i # 2
        <5>1. 2 \in 1 .. Len(stack) /\ 2 < i /\ 1 < Len(stack) /\ 1 + 1 = 2
          BY <1>1, <2>4, <3>1, <4>3
        <5>2. Parent[stack[1].dir] = stack[2].dir /\ stack[2].dir # stack[i].dir
          BY <1>1, <2>4, <5>1 DEF Walk, Chain
        <5> QED BY <4>1, <5>2
      <4> QED BY <4>2, <4>3
    <3>4. \A t \in ToSet(stack[i].todo) : t \in ToSet(listed') /\ Parent[t] = stack[i].dir /\ kind[t] = "dir"
                /\ Untouched(listed', t) /\ t # stack[i - 1].dir
      BY <2>2, <2>3, <2>5, <3>1, <3>3
    <3> QED BY <2>5, <3>1, <3>2, <3>4
  <2> QED BY <2>7, <2>8
<1>10. CASE GoesOn
  <2> DEFINE e == Head(Top.todo)
             v == Tail(Top.todo)
             g == [Top EXCEPT !.todo = v]
  <2>1. listed' = listed /\ Top.todo # <<>> /\ Grown(e, g) /\ OneMore(Frame(e, NamesEntries), g)
    BY <1>10, Growing DEF GoesOn
  <2>2. /\ ToSet(Top.todo) = ToSet(v) \cup {e} /\ v \in Seq(Nodes)
        /\ IsInjective(Top.todo) => IsInjective(v) /\ e \notin ToSet(v)
    BY <1>1, <2>1, TailHolds
  <2>3. OK(1)
    BY <1>1, <1>3
  <2>4. g.todo = v
    <3> HIDE DEF v, g
    <3>1. g = [Top EXCEPT !.todo = v]
      BY DEF g
    <3>2. g = [dir |-> Top.dir, named |-> Top.named, at |-> Top.at, dirp |-> Top.dirp, todo |-> v]
      BY <1>1, <2>2, <3>1, ActivationsAre
    <3> QED BY <3>2
  <2> HIDE DEF g
  <2>5. /\ Len(stack') = Len(stack) + 1 /\ stack'[1].dir = e /\ stack'[1].todo = <<>> /\ stack'[2] = g
        /\ \A k \in 2 .. Len(stack) : stack'[k + 1] = stack[k]
        /\ g.dir = Top.dir
    BY <2>1 DEF Grown, OneMore, Frame
  <2> HIDE DEF e, v
  <2>6. CASE i = 1
    <3>1. ToSet(<<>>) = {} /\ IsInjective(<<>>)
      BY DEF ToSet, IsInjective
    <3> QED BY <2>5, <2>6, <3>1
  <2>7. CASE i = 2
    <3>1. i - 1 = 1 /\ stack'[i].todo = v /\ stack'[i].dir = Top.dir
      BY <2>4, <2>5, <2>7
    <3>2. IsInjective(v)
      BY <1>1, <2>2, <2>3
    <3>3. \A t \in ToSet(v) : t \in ToSet(listed) /\ Parent[t] = Top.dir /\ kind[t] = "dir"
              /\ Untouched(listed, t) /\ t # e
      BY <1>1, <2>2, <2>3
    <3>4. \A t : Untouched(listed', t) <=> Untouched(listed, t)
      BY <2>1
    <3> QED BY <2>1, <2>5, <3>1, <3>2, <3>3, <3>4
  <2>8. CASE i # 1 /\ i # 2
    <3> DEFINE k == i - 1
    <3>1. k \in 2 .. Len(stack) /\ k \in 1 .. Len(stack) /\ k > 1 /\ k + 1 = i
      BY <1>1, <2>5, <2>8
    <3>2. stack'[i] = stack[k] /\ OK(k)
      BY <1>3, <2>5, <3>1
    <3>3. stack'[k].dir = stack[k - 1].dir
      <4>1. CASE k = 2
        <5>1. k - 1 = 1
          BY <4>1
        <5> QED BY <1>1, <2>5, <4>1, <5>1
      <4>2. CASE k # 2
        <5>1. k - 1 \in 2 .. Len(stack) /\ (k - 1) + 1 = k
          BY <1>1, <3>1, <4>2
        <5> QED BY <2>5, <5>1
      <4> QED BY <4>1, <4>2
    <3>4. \A t : Untouched(listed', t) <=> Untouched(listed, t)
      BY <2>1
    <3> QED BY <2>1, <3>1, <3>2, <3>3, <3>4
  <2> QED BY <2>6, <2>7, <2>8
<1>11. CASE GoesBack
  <2>1. OneLess /\ listed' = listed
    BY <1>11 DEF GoesBack, Walking, ListLabels
  <2> DEFINE k == i + 1
  <2>2. k \in 1 .. Len(stack) /\ stack'[i] = stack[k] /\ k > 1 /\ k - 1 = i
    BY <1>1, <2>1 DEF OneLess
  <2>3. OK(k)
    BY <1>3, <2>2
  <2>4. i > 1 => stack'[i - 1].dir = stack[i].dir
    <3>1. i > 1 => i - 1 \in 1 .. Len(stack) - 1 /\ (i - 1) + 1 = i
      BY <1>1, <2>1 DEF OneLess
    <3> QED BY <2>1, <3>1 DEF OneLess
  <2>5. \A t : Untouched(listed', t) <=> Untouched(listed, t)
    BY <2>1
  <2> HIDE DEF k
  <2> QED BY <2>1, <2>2, <2>3, <2>4, <2>5
<1>12. ~GoesDown /\ \A e, g : ~GoesInto(e, g)
  BY <1>4 DEF GoesDown, GoesInto
<1>13. QED
  BY <1>6, <1>7, <1>8, <1>9, <1>10, <1>11, <1>12 DEF Moves

\* What is printed comes before all that is still to be read.
LEMMA OrderedOn ==
  ASSUME OnItsWay, ListedOK, Walking, Walk, kind' = kind, opt' = opt, Moves, Walking'
  PROVE  Ordered'
<1>1. /\ Len(stack) \in Nat \ {0} /\ 1 \in 1 .. Len(stack) /\ Top = stack[1] /\ Top \in Activation
      /\ \A k \in 1 .. Len(stack) :
              /\ stack[k].at \in Nat /\ stack[k].dir \in Nodes /\ (k = 1 \/ k \in 2 .. Len(stack))
      /\ \A x \in ToSet(listed) : x \in Nodes \ {Root} /\ Place(x) \in Nat
  BY WalkIs
<1>2. SUFFICES ASSUME AtOnce, NEW i \in 1 .. Len(stack'), NEW c \in Entries(kind, stack'[i].dir),
                      NEW y \in ToSet(listed'), Number(kind, c) >= stack'[i].at
               PROVE  Place(y) < Place(c)
  BY DEF Ordered, AtOnce
<1>3. \A k \in 1 .. Len(stack) : \A x \in Entries(kind, stack[k].dir) : \A z \in ToSet(listed) :
        Number(kind, x) >= stack[k].at => Place(z) < Place(x)
  BY <1>2 DEF Walk, Ordered
<1>4. /\ c \in Nodes \ {Root} /\ kind[c] # "none" /\ Parent[c] = stack'[i].dir /\ Place(c) \in Nat
      /\ Number(kind, c) \in Nat /\ stack'[i].at \in Nat
  <2>1. c \in Nodes \ {Root} /\ kind[c] # "none" /\ Parent[c] = stack'[i].dir
    BY DEF Entries
  <2>2. Cardinality(Nodes) \in Nat
    BY ConstantsAssumption, FS_CardinalityType
  <2>3. Number(kind, c) \in Nat
    BY <2>1, <2>2, Numbers
  <2>4. stack'[i] \in Activation
    BY DEF Moves
  <2> QED BY <2>1, <2>3, <2>4, PlaceIs DEF Activation, LastNumber
\* An entry that comes in is before what is left in the directories above.
<1>5. ASSUME NEW e \in Nodes \ {Root}, Parent[e] = stack[1].dir, NEW k \in 2 .. Len(stack),
             NEW x \in Entries(kind, stack[k].dir), Number(kind, x) >= stack[k].at
      PROVE  Place(e) < Place(x)
  <2> DEFINE j == k - 1
  <2>1. j \in 1 .. Len(stack) /\ j < Len(stack) /\ j + 1 = k /\ k \in 1 .. Len(stack) /\ (j = 1 \/ 1 < j)
    BY <1>1
  <2>2. stack[j].dir \in ToSet(listed) /\ Parent[stack[j].dir] = stack[k].dir
    <3> HIDE DEF j
    <3> QED BY <2>1 DEF Walk, Chain
  <2>3. x \in Nodes \ {Root} /\ Parent[x] = stack[k].dir
    BY DEF Entries
  <2>4. Place(stack[j].dir) < Place(x)
    BY <1>3, <1>5, <2>1, <2>2
  <2>5. Above(e) = {stack[1].dir} \cup Above(stack[1].dir)
    BY <1>5, AboveIs
  <2>6. stack[j].dir \in Above(e)
    <3>1. CASE j = 1
      BY <2>5, <3>1
    <3>2. CASE 1 < j
      <4>1. stack[j].dir \in Above(stack[1].dir)
        BY <1>1, <2>1, <3>2 DEF Walk, Chain
      <4> QED BY <2>5, <4>1
    <3> QED BY <2>1, <3>1, <3>2
  <2>7. stack[j].dir \in Nodes \ {Root}
    BY <1>1, <2>2
  <2> HIDE DEF j
  <2> QED BY <1>5, <2>2, <2>3, <2>4, <2>6, <2>7, OrderAssumption
\* And before what is left in its own.
<1>6. ASSUME NEW e \in Nodes \ {Root}, kind[e] # "none", NEW x \in Nodes \ {Root}, kind[x] # "none",
             Parent[e] = Parent[x], Number(kind, e) < Number(kind, x)
      PROVE  Place(e) < Place(x)
  BY <1>6, Numbers
<1>7. CASE Kept /\ listed' = listed
  <2>1. i \in 1 .. Len(stack) /\ stack'[i].dir = stack[i].dir /\ stack[i].at <= stack'[i].at
    BY <1>7 DEF Kept
  <2>2. Number(kind, c) >= stack[i].at
    BY <1>1, <1>2, <1>4, <2>1
  <2> QED BY <1>3, <1>7, <2>1, <2>2
<1>8. ASSUME NEW e, NEW g, Reads(e, g) PROVE Place(y) < Place(c)
  <2>1. ReadIs(e, g) /\ TopIs(g) /\ Kept /\ g.at = Top.at + 1 /\ Number(kind, e) = Top.at
    BY <1>8, Keeping DEF Reads, ReadIs
  <2>2. Parent[e] = stack[1].dir /\ y \in ToSet(listed) \cup {e} /\ e \in Nodes \ {Root} /\ kind[e] # "none"
    BY <2>1, NewEntry
  <2>3. i \in 1 .. Len(stack) /\ stack'[i].dir = stack[i].dir /\ stack[i].at <= stack'[i].at
        /\ (i > 1 => stack'[i] = stack[i]) /\ stack'[1] = g
    BY <2>1 DEF Kept, TopIs
  <2>4. Number(kind, c) >= stack[i].at
    BY <1>1, <1>2, <1>4, <2>3
  <2>5. CASE y \in ToSet(listed)
    BY <1>3, <2>3, <2>4, <2>5
  <2>6. CASE y = e
    <3>1. CASE i = 1
      <4>1. Number(kind, e) < Number(kind, c) /\ Parent[e] = Parent[c]
        BY <1>1, <1>2, <1>4, <2>1, <2>2, <2>3, <3>1
      <4> QED BY <1>4, <1>6, <2>2, <2>6, <4>1
    <3>2. CASE i # 1
      <4>1. i \in 2 .. Len(stack) /\ c \in Entries(kind, stack[i].dir)
        BY <1>1, <2>3, <3>2
      <4> QED BY <1>5, <2>2, <2>4, <2>6, <4>1
    <3> QED BY <3>1, <3>2
  <2> QED BY <2>2, <2>5, <2>6
<1>9. ASSUME NEW e, NEW g, Grown(e, g) PROVE Place(y) < Place(c)
  <2>1. /\ Len(stack') = Len(stack) + 1 /\ stack'[1].dir = e /\ stack'[2] = g
        /\ \A k \in 2 .. Len(stack) : stack'[k + 1] = stack[k]
        /\ g.dir = Top.dir /\ Top.at <= g.at /\ Number(kind, e) < g.at /\ Parent[e] = stack[1].dir
        /\ e \in Nodes \ {Root} /\ kind[e] = "dir" /\ g \in Activation
        /\ y \in ToSet(listed) \cup {e} /\ e \in ToSet(listed')
        /\ Place(y) <= Place(e)
    BY <1>1, <1>2, <1>9 DEF Grown, OneMore, Frame
  <2>2. CASE i = 1
    <3>1. Parent[c] = e
      BY <1>4, <2>1, <2>2
    <3>2. Place(e) < Place(c) /\ Place(e) \in Nat /\ Place(y) \in Nat
      BY <1>1, <1>4, <2>1, <3>1, OrderAssumption, PlaceIs
    <3> QED BY <1>4, <2>1, <3>2
  <2>3. CASE i = 2
    <3>1. c \in Entries(kind, stack[1].dir) /\ Number(kind, c) >= g.at
      BY <1>1, <1>2, <2>1, <2>3
    <3>2. g.at \in Nat /\ Number(kind, c) >= stack[1].at
      BY <1>1, <1>4, <2>1, <2>3, <3>1
    <3>3. CASE y \in ToSet(listed)
      BY <1>1, <1>3, <3>1, <3>2, <3>3
    <3>4. CASE y = e
      <4>1. Number(kind, e) \in Nat
        <5>1. Cardinality(Nodes) \in Nat
          BY ConstantsAssumption, FS_CardinalityType
        <5> QED BY <2>1, <5>1, Numbers
      <4>2. Number(kind, e) < Number(kind, c) /\ Parent[e] = Parent[c]
        BY <1>1, <1>4, <2>1, <2>3, <3>1, <3>2, <4>1
      <4> QED BY <1>4, <1>6, <2>1, <3>4, <4>2
    <3> QED BY <2>1, <3>3, <3>4
  <2>4. CASE i # 1 /\ i # 2
    <3> DEFINE k == i - 1
    <3>1. k \in 2 .. Len(stack) /\ k \in 1 .. Len(stack) /\ k + 1 = i
      BY <1>1, <2>1, <2>4
    <3> HIDE DEF k
    <3>2. stack'[i] = stack[k]
      BY <2>1, <3>1
    <3>3. c \in Entries(kind, stack[k].dir) /\ Number(kind, c) >= stack[k].at
      BY <1>2, <3>2
    <3>4. CASE y \in ToSet(listed)
      BY <1>3, <3>1, <3>3, <3>4
    <3>5. CASE y = e
      BY <1>5, <2>1, <3>1, <3>3, <3>5
    <3> QED BY <2>1, <3>4, <3>5
  <2> QED BY <2>2, <2>3, <2>4
<1>10. CASE GoesBack
  <2>1. OneLess /\ listed' = listed
    BY <1>10 DEF GoesBack, Walking, ListLabels
  <2> DEFINE k == i + 1
  <2>2. k \in 1 .. Len(stack) /\ stack'[i] = stack[k]
    BY <1>1, <2>1 DEF OneLess
  <2> HIDE DEF k
  <2> QED BY <1>2, <1>3, <2>1, <2>2
<1>11. (Stays \/ Skips \/ \E h \in 0 .. MaxDir : Opens(h)) => Kept /\ listed' = listed
  BY Keeping DEF Stays, Skips, Opens
<1>12. QED
  BY <1>7, <1>8, <1>9, <1>10, <1>11, Growing DEF Moves

-----------------------------------------------------------------------------
(* Every step.                                                              *)

LEMMA InitTree == Init => TreeOK
  BY ConstantsAssumption DEF Init, TreeOK

LEMMA NextTree == OnItsWay /\ Shapes /\ TreeOK /\ [Next]_vars => TreeOK'
<1> SUFFICES ASSUME OnItsWay, Shapes, TreeOK, [Next]_vars PROVE TreeOK'
  OBVIOUS
<1>1. CASE kind' = kind
  BY <1>1 DEF TreeOK
<1>2. CASE Change
  <2> DEFINE x == opt.node
  <2>1. x \in Nodes /\ Root \in Nodes /\ Parent[Root] = Root /\ \A y \in Nodes : Parent[y] \in Nodes
    BY ConstantsAssumption DEF OnItsWay
  <2>2. CASE kind' = Changed
    <3>1. CASE opt.cmd = "ef" /\ kind[x] = "file"
      <4>1. Changed = [kind EXCEPT ![x] = "none"]
        BY <3>1 DEF Changed
      <4> QED BY <2>1, <2>2, <3>1, <4>1 DEF TreeOK
    <3>2. CASE opt.cmd = "ed" /\ kind[x] = "dir" /\ x # Root /\ Entries(kind, x) = {}
      <4>1. Changed = [kind EXCEPT ![x] = "none"]
        BY <3>2 DEF Changed
      <4>2. \A y \in Nodes : Parent[y] = x => kind[y] = "none"
        BY <2>1, <3>2 DEF Entries
      <4> QED BY <2>1, <2>2, <3>2, <4>1, <4>2 DEF TreeOK
    <3>3. CASE opt.cmd = "md" /\ kind[x] = "none" /\ kind[Parent[x]] = "dir"
      <4>1. Changed = [kind EXCEPT ![x] = "dir"]
        BY <3>3 DEF Changed
      <4> QED BY <2>1, <2>2, <3>3, <4>1 DEF TreeOK
    <3>4. CASE ~(opt.cmd = "ef" /\ kind[x] = "file") /\ ~(opt.cmd = "md" /\ kind[x] = "none" /\ kind[Parent[x]] = "dir")
               /\ ~(opt.cmd = "ed" /\ kind[x] = "dir" /\ x # Root /\ Entries(kind, x) = {})
      <4>1. Changed = kind
        BY <3>4 DEF Changed
      <4> QED BY <1>1, <2>2, <4>1
    <3> QED BY <3>1, <3>2, <3>3, <3>4
  <2> QED BY <1>1, <1>2, <2>2 DEF Change, files
<1>3. CASE PutOpen
  <2>1. target \in Nodes /\ Root \in Nodes /\ Parent[Root] = Root /\ \A y \in Nodes : Parent[y] \in Nodes
    BY <1>3, ConstantsAssumption DEF PutOpen, Shapes
  <2>2. kind' = kind \/ (kind[target] # "dir" /\ kind[Parent[target]] = "dir" /\ kind' = [kind EXCEPT ![target] = "file"])
    BY <1>3 DEF PutOpen
  <2> QED BY <1>1, <2>1, <2>2 DEF TreeOK
<1>4. CASE ~Change /\ ~PutOpen
  <2>1. kind' = kind
    BY <1>4 DEF Next, Step, CloseHandles, CloseHandlesFrom, StatList, Opendir, ReadEntry, SkipEntry, Descend,
       Reopen, EndOfList, Leave, Subdirs, CloseFirst, GetStat, GetOpen, ReadBlock, GetClose, PutStat, WriteBlock,
       PutClose, Prepare, Begin, ReadPage, EndImage, Kill, Unplug, StartRun, Finished, vars, modem, files
  <2> QED BY <1>1, <2>1
<1>5. QED
  BY <1>2, <1>3, <1>4

LEMMA EmptyList ==
  ASSUME listed = <<>>
  PROVE  ListedOK /\ ToSet(listed) = {} /\ \A d : Untouched(listed, d)
  BY DEF ListedOK, ToSet, IsInjective, Untouched

LEMMA InitListed == Init => ListedOK
  BY EmptyList DEF Init, InitRun

LEMMA NextListed == OnItsWay /\ ListedOK /\ Walk /\ [Next]_vars => ListedOK'
<1> SUFFICES ASSUME OnItsWay, ListedOK, Walk, [Next]_vars PROVE ListedOK'
  OBVIOUS
<1>1. CASE listed' = <<>>
  <2>1. \A L : L = <<>> => L \in Seq(Nodes) /\ ToSet(L) = {} /\ IsInjective(L) /\ DOMAIN L = {}
    BY DEF ToSet, IsInjective
  <2> QED BY <1>1, <2>1 DEF ListedOK
<1>2. CASE listed' = listed /\ opt' = opt /\ kind' = kind /\ (pc' \in {"close", "stat"} => listed = <<>>)
  <2>1. \A x : Asked(x)' <=> Asked(x)
    BY <1>2 DEF Asked
  <2> QED BY <1>2, <2>1 DEF ListedOK, AtOnce
<1>3. CASE Walking
  <2>1. kind' = kind /\ opt' = opt /\ ((pc' = "killed" /\ listed' = listed) \/ Moves)
    BY <1>3, MovesAre DEF Walk
  <2>2. CASE pc' = "killed" /\ listed' = listed
    BY <1>2, <2>1, <2>2
  <2>3. ASSUME NEW e, NEW g, Reads(e, g) \/ GoesInto(e, g) PROVE ListedOK'
    <3>1. ReadIs(e, g) /\ pc' \notin {"close", "stat"}
      BY <2>3 DEF Reads, GoesInto
    <3> QED BY <1>3, <2>1, <3>1, ReadListed
  <2>4. CASE Stays \/ Skips \/ GoesDown \/ GoesOn \/ GoesBack \/ \E h \in 0 .. MaxDir : Opens(h)
    <3>1. listed' = listed
      BY <2>4 DEF Stays, Skips, GoesDown, GoesOn, GoesBack, Opens
    <3>2. pc' \notin {"close", "stat"}
      BY <1>3, <2>4 DEF Stays, Skips, GoesDown, GoesOn, GoesBack, Opens, Walking, ListLabels
    <3> QED BY <1>2, <2>1, <3>1, <3>2
  <2> QED BY <2>1, <2>2, <2>3, <2>4 DEF Moves
<1>4. CASE ~Walking
  <2>1. CASE StartRun
    BY <1>1, <2>1 DEF StartRun
  <2>2. CASE Change \/ PutOpen
    <3>1. listed' = listed /\ opt.cmd \notin Lists
      BY <2>2 DEF Change, PutOpen, OnItsWay, GetLabels, PutLabels, Lists
    <3> QED BY <1>1, <3>1 DEF ListedOK
  <2>3. CASE Opendir \/ ReadEntry \/ SkipEntry \/ Descend \/ Reopen \/ EndOfList \/ Leave \/ Subdirs
    BY <1>4, <2>3 DEF Opendir, ReadEntry, SkipEntry, Descend, Reopen, EndOfList, Leave, Subdirs, Walking, ListLabels
  <2>4. CASE CloseHandles \/ StatList
    <3>1. listed' = listed /\ opt' = opt /\ kind' = kind /\ pc \in {"close", "stat"}
      BY <2>4 DEF CloseHandles, CloseHandlesFrom, StatList, host, files, modem
    <3> QED BY <1>2, <3>1 DEF ListedOK
  <2>5. CASE CloseFirst \/ GetStat \/ GetOpen \/ ReadBlock \/ GetClose \/ PutStat \/ WriteBlock
             \/ PutClose \/ Prepare \/ Begin \/ ReadPage \/ EndImage
    <3>1. listed' = listed /\ opt' = opt /\ kind' = kind
      BY <2>5 DEF CloseFirst, GetStat, GetOpen, ReadBlock, GetClose, PutStat, WriteBlock,
       PutClose, Prepare, Begin, ReadPage, EndImage, modem, files, host
    <3>2. pc' \notin {"close", "stat"}
      BY <2>5 DEF CloseFirst, AfterClose1, GetStat, GetOpen, ReadBlock, GetClose, PutStat, WriteBlock,
       PutClose, Prepare, Begin, ReadPage, EndImage
    <3> QED BY <1>2, <3>1, <3>2
  <2>6. CASE Kill \/ Unplug \/ Finished \/ UNCHANGED vars
    <3>1. listed' = listed /\ opt' = opt /\ kind' = kind /\ (pc' = pc \/ pc' = "killed")
      BY <2>6 DEF Kill, Unplug, Finished, vars, modem, files, host
    <3> QED BY <1>2, <3>1 DEF ListedOK
  <2> QED BY <2>1, <2>2, <2>3, <2>4, <2>5, <2>6 DEF Next, Step
<1>5. QED
  BY <1>3, <1>4

LEMMA InitWalk == Init => Walk
  BY DEF Init, InitRun, Walk, Walking, ListLabels

\* A listing begins with the directory of the command line.
LEMMA Starting ==
  ASSUME OnItsWay, HandlesHeld, ListedOK, ~Walking, [Next]_vars, Walking'
  PROVE  /\ pc = "stat" /\ pc' = "opendir" /\ kind' = kind /\ opt' = opt /\ listed' = <<>>
         /\ stack' \in Seq(Activation) /\ Len(stack') = 1 /\ stack'[1] = Frame(opt.node, TRUE)
         /\ kind[opt.node] = "dir" /\ opt.node \in Nodes /\ dirs' = dirs
<1>1. StatList
  <2>1. pc' \in {"opendir", "readdir", "closedir", "leave", "subdirs", "reopen"}
        /\ pc \notin {"opendir", "readdir", "closedir", "leave", "subdirs", "reopen"}
    BY DEF Walking, ListLabels
  <2> QED BY <2>1 DEF Next, Step, CloseHandles, CloseHandlesFrom, Work, Opendir, ReadEntry, SkipEntry, Descend,
       Reopen, EndOfList, Leave, Subdirs, Change, CloseFirst, AfterClose1, GetStat, GetOpen, ReadBlock, GetClose, PutStat,
       PutOpen, WriteBlock, PutClose, Prepare, Begin, ReadPage, EndImage, Kill, Unplug, StartRun, Finished, vars
<1> DEFINE f == Frame(opt.node, TRUE)
<1>2. /\ pc = "stat" /\ pc' = "opendir" /\ kind' = kind /\ opt' = opt /\ listed' = listed
      /\ stack' = <<f>> /\ kind[opt.node] = "dir" /\ dirs' = dirs
  BY <1>1 DEF StatList, modem, host, Walking, ListLabels
<1>3. opt.node \in Nodes
  BY ConstantsAssumption DEF OnItsWay
<1>4. f \in Activation
  <2>1. LastNumber \in Nat \ {0} /\ MaxDir \in Nat
    <3>1. Cardinality(Nodes) \in Nat /\ Cardinality(Nodes) # 0 /\ MaxFails \in Nat /\ MaxDir \in Nat
      BY ConstantsAssumption, FS_CardinalityType, FS_EmptySet
    <3> QED BY <3>1 DEF LastNumber
  <2> QED BY <1>3, <2>1 DEF Frame, Activation
<1> HIDE DEF f
<1>5. stack' \in Seq(Activation) /\ Len(stack') = 1 /\ stack'[1] = f
  BY <1>2, <1>4
<1>6. listed = <<>>
  BY <1>2 DEF ListedOK
<1>7. QED
  BY <1>2, <1>3, <1>5, <1>6 DEF f

LEMMA NextWalk == OnItsWay /\ HandlesHeld /\ ListedOK /\ Walk /\ [Next]_vars => Walk'
<1> SUFFICES ASSUME OnItsWay, HandlesHeld, ListedOK, Walk, [Next]_vars, Walking'
             PROVE  (Chain /\ Opened /\ Passed /\ Ahead /\ Queued /\ Ordered)'
  BY DEF Walk
<1>1. CASE Walking
  <2>1. kind' = kind /\ opt' = opt /\ Moves
    <3>1. pc' # "killed"
      BY DEF Walking, ListLabels
    <3> QED BY <1>1, <3>1, MovesAre DEF Walk
  <2> QED BY <1>1, <2>1, ChainOn, OpenedOn, PassedOn, AheadOn, QueuedOn, OrderedOn
<1>2. CASE ~Walking
  <2> DEFINE f == Frame(opt.node, TRUE)
  <2>1. /\ pc' = "opendir" /\ kind' = kind /\ opt' = opt /\ listed' = <<>>
        /\ stack' \in Seq(Activation) /\ Len(stack') = 1 /\ stack'[1] = f
        /\ kind[opt.node] = "dir" /\ opt.node \in Nodes /\ dirs' = dirs
    BY <1>2, Starting
  <2>2. f.dir = opt.node /\ f.at = 1 /\ f.todo = <<>>
    BY DEF Frame
  <2> HIDE DEF f
  <2>3. ToSet(listed') = {} /\ \A d : Untouched(listed', d)
    <3>1. \A L : L = <<>> => ToSet(L) = {} /\ \A d : Untouched(L, d)
      BY DEF ToSet, Untouched
    <3> QED BY <2>1, <3>1
  <2>4. \A i \in 1 .. Len(stack') : i = 1
    BY <2>1
  <2>5. Chain'
    <3>1. Depth(opt.node) \in Nat
      BY <2>1, DepthIs
    <3>2. ASSUME NEW i \in 1 .. Len(stack')
          PROVE  /\ kind'[stack'[i].dir] = "dir"
                 /\ Depth(stack'[i].dir) = Depth(opt'.node) + Len(stack') - i
                 /\ i < Len(stack') =>
                      stack'[i].dir \in ToSet(listed') /\ Parent[stack'[i].dir] = stack'[i + 1].dir
                 /\ \A j \in 1 .. Len(stack') : i < j => stack'[j].dir \in Above(stack'[i].dir)
      <4>1. i = 1 /\ Len(stack') = 1 /\ stack'[i].dir = opt.node /\ opt'.node = opt.node
        BY <2>1, <2>2, <2>4
      <4>2. Depth(stack'[i].dir) = Depth(opt'.node) + Len(stack') - i
        <5> DEFINE D == Depth(opt.node)
        <5>1. Depth(stack'[i].dir) = D /\ Depth(opt'.node) = D /\ D \in Nat
          BY <3>1, <4>1
        <5> HIDE DEF D
        <5> QED BY <4>1, <5>1
      <4> QED BY <2>1, <2>4, <4>1, <4>2
    <3> QED BY <2>1, <2>2, <3>2 DEF Chain
  <2>6. Opened'
    <3>1. DOMAIN dirs' = 1 .. MaxDir
      BY <2>1 DEF HandlesHeld
    <3>2. \A i \in 1 .. Len(stack') : ~InHand(i)'
      BY <2>1, <2>4 DEF InHand
    <3> QED BY <3>1, <3>2 DEF Opened
  <2>7. Passed' /\ Ordered'
    BY <2>3 DEF Passed, Ordered
  <2>8. Ahead'
    BY <2>1, <2>2, <2>3 DEF Ahead
  <2>9. Queued'
    <3>1. \A L : L = <<>> => ToSet(L) = {} /\ IsInjective(L)
      BY DEF ToSet, IsInjective
    <3>2. \A i \in 1 .. Len(stack') : stack'[i].todo = <<>>
      BY <2>1, <2>2, <2>4
    <3> QED BY <3>1, <3>2 DEF Queued
  <2> QED BY <2>5, <2>6, <2>7, <2>8, <2>9
<1>3. QED
  BY <1>1, <1>2

-----------------------------------------------------------------------------
(* Nothing is left out.                                                     *)

\* Which listings promise all: every request was answered, there are handles enough, and the
\* paths are right.
Promised ==
    /\ clean /\ opt.cmd \in Lists /\ kind[opt.node] = "dir" /\ Reaches
    /\ opt.slash \/ opt.cmd \in {"lf", "lm"}
\* What a listing shows of directory d.
Due(t, o, d) == {c \in Entries(t, d) : o.cmd = "ld" => t[c] = "dir"}
\* A directory that is still to be entered, or that is being read.
Waits(d) ==
    \/ \E i \in 1 .. Len(stack) : stack[i].dir = d
    \/ ~AtOnce /\ \E i \in 1 .. Len(stack) : d \in ToSet(stack[i].todo)
    \/ pc = "closedir" /\ Last(stack[1].todo) = d

\* The directories in hand were found and opened, and what they hold was printed as far as it
\* was read.
Thorough ==
    \A i \in 1 .. Len(stack) :
      /\ stack[i].named /\ (InHand(i) => stack[i].dirp # 0)
      /\ \A c \in Due(kind, opt, stack[i].dir) : Number(kind, c) < stack[i].at => c \in ToSet(listed)
      /\ (i > 1 /\ ~AtOnce) \/ (i = 1 /\ pc \in {"leave", "subdirs"}) =>
            Due(kind, opt, stack[i].dir) \subseteq ToSet(listed)
\* Of the other directories that were printed all was printed.
Settled ==
    Recursive => \A d \in ToSet(listed) :
        kind[d] = "dir" /\ ~Waits(d) => Due(kind, opt, d) \subseteq ToSet(listed)
Whole ==
    /\ Due(kind, opt, opt.node) \subseteq ToSet(listed)
    /\ Recursive => \A d \in ToSet(listed) : kind[d] = "dir" => Due(kind, opt, d) \subseteq ToSet(listed)
Complete == Promised => (Walking => Thorough /\ Settled) /\ (pc = "done" => Whole)

\* While every request is answered, there is a handle for the next directory.
LEMMA HandleFree ==
  ASSUME OnItsWay, HandlesHeld, ListedOK, Walking, Walk, Promised, pc \in {"opendir", "reopen"}
  PROVE  Free # {}
<1> DEFINE l == Len(stack)
<1>1. /\ DOMAIN dirs = 1 .. MaxDir /\ MaxDir \in Nat \ {0} /\ 1 \in 1 .. MaxDir
      /\ \A h \in 1 .. MaxDir : h \notin Below => dirs[h] = NoNode
  <2>1. Held \subseteq Below
    BY DEF Held
  <2> QED BY <2>1, ConstantsAssumption DEF HandlesHeld, Promised
<1>2. l \in Nat \ {0} /\ opt.cmd \in Lists /\ opt.r \in BOOLEAN
  BY WalkIs, ConstantsAssumption
<1>3. CASE Below = {}
  BY <1>1, <1>3 DEF Free
<1>4. CASE Below # {}
  <2>1. opt.cmd = "ll" /\ Below = {stack[i].dirp : i \in 2 .. l}
    BY <1>4 DEF Below
  <2>2. 1 < l
    <3>1. 2 .. l # {}
      BY <1>4, <2>1
    <3> QED BY <1>2, <3>1
  <2>3. opt.r
    BY <1>2, <2>1, <2>2 DEF Walk, Chain, Recursive
  <2>4. stack[1].dir \in ToSet(listed) /\ kind[stack[1].dir] = "dir"
        /\ Depth(stack[1].dir) = Depth(opt.node) + l - 1
    <3>1. 1 \in 1 .. l
      BY <1>2
    <3> QED BY <2>2, <3>1 DEF Walk, Chain
  <2>5. Depth(stack[1].dir) - Depth(opt.node) < MaxDir
    <3>1. Asked(stack[1].dir) /\ stack[1].dir \in Nodes
      BY <2>4, WalkIs DEF ListedOK
    <3> QED BY <2>1, <2>3, <2>4, <3>1 DEF Promised, Reaches
  <2>6. l - 1 < MaxDir
    <3>1. Depth(opt.node) \in Nat
      BY DepthIs, ConstantsAssumption DEF OnItsWay
    <3> DEFINE D == Depth(opt.node)
               E == Depth(stack[1].dir)
    <3>2. D \in Nat /\ E = D + l - 1 /\ E - D < MaxDir
      BY <2>4, <2>5, <3>1
    <3> HIDE DEF D, E, l
    <3> QED BY <1>1, <1>2, <3>2
  <2>7. IsFiniteSet(Below) /\ Cardinality(Below) <= l - 1
    <3> DEFINE f == [i \in 2 .. l |-> stack[i].dirp]
    <3>1. f \in Surjection(2 .. l, Below)
      BY <2>1 DEF Surjection
    <3>2. IsFiniteSet(2 .. l) /\ Cardinality(2 .. l) = l - 1
      <4>1. 2 \in Int /\ l \in Int /\ ~(2 > l)
        BY <1>2, <2>2
      <4> HIDE DEF l
      <4>2. IsFiniteSet(2 .. l) /\ Cardinality(2 .. l) = l - 2 + 1
        BY <4>1, FS_Interval
      <4> QED BY <1>2, <4>2
    <3> HIDE DEF f
    <3> QED BY <3>1, <3>2, FS_Surjection
  <2>8. \E h \in 1 .. MaxDir : h \notin Below
    <3> SUFFICES ASSUME 1 .. MaxDir \subseteq Below PROVE FALSE
      OBVIOUS
    <3>1. Cardinality(1 .. MaxDir) = MaxDir
      <4>1. 1 \in Int /\ MaxDir \in Int /\ ~(1 > MaxDir)
        BY <1>1
      <4>2. Cardinality(1 .. MaxDir) = MaxDir - 1 + 1
        BY <4>1, FS_Interval
      <4> QED BY <1>1, <4>2
    <3>2. Cardinality(1 .. MaxDir) <= Cardinality(Below)
      BY <2>7, FS_Subset
    <3>3. Cardinality(Below) \in Nat
      BY <2>7, FS_CardinalityType
    <3> HIDE DEF l
    <3> QED BY <1>1, <1>2, <2>6, <2>7, <3>1, <3>2, <3>3
  <2> QED BY <1>1, <2>8 DEF Free
<1>5. QED
  BY <1>3, <1>4

LEMMA DueIs ==
  ASSUME NEW d \in Nodes, NEW c \in Due(kind, opt, d)
  PROVE  /\ c \in Nodes \ {Root} /\ kind[c] # "none" /\ Parent[c] = d /\ c \in Entries(kind, d)
         /\ Number(kind, c) \in Nat \ {0} /\ (opt.cmd = "ld" => kind[c] = "dir")
<1>1. c \in Nodes \ {Root} /\ kind[c] # "none" /\ Parent[c] = d /\ c \in Entries(kind, d)
      /\ (opt.cmd = "ld" => kind[c] = "dir")
  BY DEF Due, Entries
<1>2. Cardinality(Nodes) \in Nat
  BY ConstantsAssumption, FS_CardinalityType
<1>3. QED
  BY <1>1, <1>2, Numbers

LEMMA ThoroughOn ==
  ASSUME OnItsWay, HandlesHeld, ListedOK, Walking, Walk, Promised, Thorough,
         clean', kind' = kind, opt' = opt, Moves, Walking'
  PROVE  Thorough'
<1> DEFINE T(i) ==
      /\ stack[i].named /\ (InHand(i) => stack[i].dirp # 0)
      /\ \A c \in Due(kind, opt, stack[i].dir) : Number(kind, c) < stack[i].at => c \in ToSet(listed)
      /\ (i > 1 /\ ~AtOnce) \/ (i = 1 /\ pc \in {"leave", "subdirs"}) =>
            Due(kind, opt, stack[i].dir) \subseteq ToSet(listed)
<1>1. /\ Len(stack) \in Nat \ {0} /\ 1 \in 1 .. Len(stack) /\ Top = stack[1] /\ Top \in Activation
      /\ opt.cmd \in Lists
      /\ \A k \in 1 .. Len(stack) :
              /\ stack[k].at \in Nat /\ stack[k].dir \in Nodes /\ (k = 1 \/ k \in 2 .. Len(stack))
  BY WalkIs
<1>2. \A k \in 1 .. Len(stack) : T(k)
  BY DEF Thorough
<1>3. SUFFICES ASSUME NEW i \in 1 .. Len(stack') PROVE T(i)'
  BY DEF Thorough
<1>4. DOMAIN dirs = 1 .. MaxDir /\ MaxDir \in Nat /\ opt.slash \in BOOLEAN
  BY ConstantsAssumption DEF HandlesHeld, OnItsWay
\* What has a number below the next one was printed, with the entry that comes in.
<1>5. ASSUME NEW e, NEW g, ReadIs(e, g), NEW c \in Due(kind, opt, Top.dir), Number(kind, c) < g.at
      PROVE  c \in ToSet(listed')
  <2>1. /\ e \in Nodes \ {Root} /\ kind[e] # "none" /\ Parent[e] = Top.dir
        /\ ToSet(listed) \subseteq ToSet(listed') /\ ((opt.cmd = "ld" => kind[e] = "dir") => e \in ToSet(listed'))
    BY <1>5, NewEntry
  <2>2. /\ c \in Nodes \ {Root} /\ kind[c] # "none" /\ Parent[c] = Top.dir /\ Number(kind, c) \in Nat
        /\ (opt.cmd = "ld" => kind[c] = "dir")
    BY <1>1, DueIs
  <2>3. CASE Number(kind, c) < Top.at
    BY <1>1, <1>2, <2>1, <2>3
  <2>4. CASE Number(kind, c) = Top.at
    <3>1. Number(kind, e) = Number(kind, c)
      BY <1>5, <2>4 DEF ReadIs
    <3>2. ~(Place(e) < Place(c)) /\ ~(Place(c) < Place(e))
      BY <2>1, <2>2, <3>1, Numbers
    <3>3. Place(e) = Place(c)
      BY <2>1, <2>2, <3>2, PlaceIs
    <3>4. e = c
      BY <2>1, <2>2, <3>3, PlaceIs
    <3> QED BY <2>1, <2>2, <3>4
  <2> QED BY <1>1, <1>5, <2>2, <2>3, <2>4 DEF ReadIs
<1>6. CASE Stays
  <2>1. stack' = stack /\ listed' = listed /\ i \in 1 .. Len(stack)
    BY <1>6 DEF Stays
  <2>2. T(i)
    BY <1>2, <2>1
  <2>3. InHand(i)' => InHand(i)
    BY <1>6 DEF Stays, InHand
  <2>4. i = 1 /\ pc' \in {"leave", "subdirs"} => Due(kind, opt, stack[i].dir) \subseteq ToSet(listed)
    <3>1. CASE pc \in {"leave", "subdirs"}
      BY <2>2, <3>1
    <3>2. CASE pc = "readdir" /\ pc' = "leave" /\ Entry = NoNode
      <4> SUFFICES ASSUME i = 1 PROVE Due(kind, opt, Top.dir) \subseteq ToSet(listed)
        BY <1>1
      <4>1. InHand(1)
        BY <3>2 DEF InHand
      <4>2. Top.dirp \in DOMAIN dirs /\ dirs[Top.dirp] = Top.dir
        <5>1. Top.dirp # 0
          BY <1>1, <1>2, <4>1
        <5> QED BY <1>1, <1>4, <4>1, <5>1 DEF Walk, Opened
      <4>3. \A c \in Entries(kind, Top.dir) : Number(kind, c) # Top.at
        BY <3>2, <4>2, EntryIs
      <4>4. Top.at \in Nat \ {0}
        BY <1>1 DEF Activation
      <4>5. \A c \in Entries(kind, Top.dir) : Number(kind, c) < Top.at
        BY <1>1, <4>3, <4>4, NumbersEnd
      <4> QED BY <1>1, <1>2, <4>5, DueIs
    <3> QED BY <1>6, <3>1, <3>2 DEF Stays
  <2> QED BY <2>1, <2>2, <2>3, <2>4 DEF AtOnce
<1>7. ASSUME NEW h \in 0 .. MaxDir, Opens(h) PROVE T(i)'
  <2>1. Kept /\ stack'[1].dirp = h /\ stack'[1].at = Top.at /\ listed' = listed /\ pc' = "readdir"
    BY <1>7, Keeping DEF Opens
  <2>2. i \in 1 .. Len(stack) /\ stack'[i].dir = stack[i].dir /\ stack'[i].named = stack[i].named
        /\ (i > 1 => stack'[i] = stack[i]) /\ (i = 1 \/ i > 1)
    BY <2>1 DEF Kept
  <2>3. T(i)
    BY <1>2, <2>2
  <2>4. h # 0
    <3>1. pc \in {"opendir", "reopen"} /\ (pc = "opendir" => h # 0) /\ (h = 0 => Free = {})
      BY <1>7 DEF Opens
    <3> QED BY <3>1, HandleFree
  <2>5. stack'[i].at = stack[i].at
    BY <1>1, <2>1, <2>2
  <2>6. InHand(i)' => stack'[i].dirp # 0
    <3>1. CASE i = 1
      BY <2>1, <2>4, <3>1
    <3>2. CASE i > 1
      BY <2>2, <2>3, <3>2 DEF InHand
    <3> QED BY <2>2, <3>1, <3>2
  <2> QED BY <2>1, <2>2, <2>3, <2>5, <2>6 DEF AtOnce
<1>8. ~Skips
  BY DEF Skips
<1>9. ASSUME NEW e, NEW g, Reads(e, g) PROVE T(i)'
  <2>1. ReadIs(e, g) /\ TopIs(g) /\ Kept /\ pc' \in {"readdir", "closedir"}
    BY <1>9, Keeping DEF Reads
  <2>2. i \in 1 .. Len(stack) /\ stack'[i].dir = stack[i].dir /\ stack'[i].named = stack[i].named
        /\ (i > 1 => stack'[i] = stack[i]) /\ (i = 1 \/ i > 1) /\ stack'[1] = g
        /\ ToSet(listed) \subseteq ToSet(listed')
    BY <2>1 DEF Kept, TopIs
  <2>3. T(i)
    BY <1>2, <2>2
  <2>4. CASE i = 1
    <3>1. g.dirp # 0 /\ g.dir = Top.dir
      BY <1>4, <2>1 DEF ReadIs
    <3>2. \A c \in Due(kind, opt, Top.dir) : Number(kind, c) < g.at => c \in ToSet(listed')
      BY <1>5, <2>1
    <3> QED BY <2>1, <2>2, <2>3, <2>4, <3>1, <3>2
  <2>5. CASE i > 1
    BY <2>1, <2>2, <2>3, <2>5 DEF InHand, AtOnce
  <2> QED BY <2>2, <2>4, <2>5
<1>10. ASSUME NEW e, NEW g, Grown(e, g), opt.cmd = "ll" => Top.dirp # 0,
              ~AtOnce => Due(kind, opt, Top.dir) \subseteq ToSet(listed),
              \A c \in Due(kind, opt, Top.dir) : Number(kind, c) < g.at => c \in ToSet(listed')
       PROVE  T(i)'
  <2>1. /\ Len(stack') = Len(stack) + 1 /\ stack'[1].dir = e /\ stack'[1].named = NamesEntries
        /\ stack'[1].at = 1 /\ stack'[2] = g
        /\ \A k \in 2 .. Len(stack) : stack'[k + 1] = stack[k]
        /\ g.dir = Top.dir /\ g.named = Top.named /\ g.dirp = Top.dirp /\ pc' = "opendir"
        /\ e \in Nodes /\ ToSet(listed) \subseteq ToSet(listed')
    BY <1>10 DEF Grown, OneMore, Frame
  <2>2. CASE i = 1
    <3>1. NamesEntries
      BY DEF Promised, NamesEntries
    <3>2. \A c \in Due(kind, opt, e) : ~(Number(kind, c) < 1)
      BY <2>1, DueIs
    <3>3. ~InHand(1)' /\ pc' \notin {"leave", "subdirs"}
      BY <2>1 DEF InHand
    <3>4. stack'[i].named /\ stack'[i].at = 1 /\ Due(kind', opt', stack'[i].dir) = Due(kind, opt, e)
      BY <2>1, <2>2, <3>1
    <3>5. \A c \in Due(kind', opt', stack'[i].dir) : ~(Number(kind', c) < stack'[i].at)
      BY <3>2, <3>4
    <3>6. ~InHand(i)' /\ ~(i > 1) /\ ~(i = 1 /\ pc' \in {"leave", "subdirs"})
      BY <2>2, <3>3
    <3> QED BY <3>4, <3>5, <3>6
  <2>3. CASE i = 2
    <3>1. T(1)
      BY <1>1, <1>2
    <3>2. Due(kind, opt, g.dir) = Due(kind, opt, Top.dir)
      BY <2>1
    <3> QED BY <1>1, <1>10, <2>1, <2>3, <3>1, <3>2 DEF InHand, AtOnce
  <2>4. CASE i # 1 /\ i # 2
    <3> DEFINE k == i - 1
    <3>1. k \in 2 .. Len(stack) /\ k \in 1 .. Len(stack) /\ k > 1 /\ k + 1 = i
      BY <1>1, <2>1, <2>4
    <3> HIDE DEF k
    <3>2. stack'[i] = stack[k] /\ T(k)
      BY <1>2, <2>1, <3>1
    <3>3. InHand(i)' => InHand(k)
      BY <2>4, <3>1 DEF InHand
    <3> QED BY <2>1, <2>4, <3>1, <3>2, <3>3 DEF AtOnce
  <2> QED BY <2>2, <2>3, <2>4
<1>11. ASSUME NEW e, NEW g, GoesInto(e, g) PROVE T(i)'
  <2>1. ReadIs(e, g) /\ opt.cmd = "ll" /\ Grown(e, g)
    BY <1>11, Growing DEF GoesInto
  <2>2. Top.dirp # 0
    BY <1>4, <2>1 DEF ReadIs
  <2>3. AtOnce
    BY <2>1 DEF AtOnce
  <2>4. \A c \in Due(kind, opt, Top.dir) : Number(kind, c) < g.at => c \in ToSet(listed')
    BY <1>5, <2>1
  <2> QED BY <1>10, <2>1, <2>2, <2>3, <2>4
<1>12. CASE GoesDown
  <2>1. Grown(Last(Top.todo), Top) /\ AtOnce /\ opt.cmd # "ll" /\ listed' = listed
    BY <1>12, Growing DEF GoesDown, AtOnce
  <2>2. \A c \in Due(kind, opt, Top.dir) : Number(kind, c) < Top.at => c \in ToSet(listed')
    BY <1>1, <1>2, <2>1
  <2> QED BY <1>10, <2>1, <2>2
<1>13. CASE GoesOn
  <2> DEFINE g == [Top EXCEPT !.todo = Tail(@)]
  <2>1. Grown(Head(Top.todo), g) /\ pc = "subdirs" /\ listed' = listed
    BY <1>13, Growing DEF GoesOn
  <2>2. opt.cmd # "ll"
    BY <2>1 DEF Walk, Ahead, AtOnce
  <2>3. Due(kind, opt, Top.dir) \subseteq ToSet(listed)
    BY <1>1, <1>2, <2>1
  <2> HIDE DEF g
  <2>4. \A c \in Due(kind, opt, Top.dir) : Number(kind, c) < g.at => c \in ToSet(listed')
    BY <2>1, <2>3
  <2> QED BY <1>10, <2>1, <2>2, <2>3, <2>4
<1>14. CASE GoesBack
  <2>1. OneLess /\ listed' = listed
        /\ pc' = IF opt.cmd \in {"ld", "lt"} THEN "reopen" ELSE IF opt.cmd = "ll" THEN "readdir" ELSE "subdirs"
    BY <1>14 DEF GoesBack, Walking, ListLabels
  <2> DEFINE k == i + 1
  <2>2. k \in 1 .. Len(stack) /\ stack'[i] = stack[k] /\ k > 1
    BY <1>1, <2>1 DEF OneLess
  <2>3. T(k)
    BY <1>2, <2>2
  <2> HIDE DEF k
  <2>4. InHand(i)' => InHand(k)
    BY <1>1, <2>1, <2>2 DEF InHand, Lists
  <2>5. (i > 1 /\ ~AtOnce)' \/ (i = 1 /\ pc' \in {"leave", "subdirs"}) => Due(kind, opt, stack[k].dir) \subseteq ToSet(listed)
    <3>1. pc' \in {"leave", "subdirs"} => ~AtOnce
      BY <1>1, <2>1 DEF AtOnce, Lists
    <3>2. AtOnce' <=> AtOnce
      BY DEF AtOnce
    <3> QED BY <2>2, <2>3, <3>1, <3>2
  <2> QED BY <2>1, <2>2, <2>3, <2>4, <2>5
<1>15. QED
  BY <1>6, <1>7, <1>8, <1>9, <1>11, <1>12, <1>13, <1>14 DEF Moves

\* A directory is left when all in it was printed.
LEMMA BackFrom ==
  ASSUME OnItsWay, HandlesHeld, ListedOK, Walking, Walk, Promised, Thorough, clean', GoesBack
  PROVE  /\ Due(kind, opt, stack[1].dir) \subseteq ToSet(listed) /\ pc # "closedir"
         /\ Recursive /\ ~AtOnce => stack[1].todo = <<>>
<1>1. 1 \in 1 .. Len(stack) /\ Top = stack[1]
  BY WalkIs
<1>2. pc # "opendir"
  <2> SUFFICES ASSUME pc = "opendir" PROVE FALSE
    OBVIOUS
  <2>1. ~Top.named \/ Free = {}
    BY DEF GoesBack
  <2>2. Top.named
    BY <1>1 DEF Thorough
  <2> QED BY <2>1, <2>2, HandleFree
<1>3. pc \in {"leave", "subdirs"} /\ (pc = "leave" => AtOnce \/ ~Recursive) /\ (pc = "subdirs" => Top.todo = <<>>)
  BY <1>2 DEF GoesBack
<1>4. QED
  BY <1>1, <1>3 DEF Thorough

\* What waits under a directory that goes on waiting.
LEMMA SettledOn ==
  ASSUME OnItsWay, HandlesHeld, ListedOK, Walking, Walk, Promised, Thorough, Settled,
         clean', kind' = kind, opt' = opt, Moves, Walking'
  PROVE  Settled'
<1>1. /\ Len(stack) \in Nat \ {0} /\ 1 \in 1 .. Len(stack) /\ Top = stack[1] /\ Top \in Activation
      /\ opt.cmd \in Lists /\ Top.todo \in Seq(Nodes)
      /\ \A k \in 1 .. Len(stack) : k = 1 \/ k \in 2 .. Len(stack)
  BY WalkIs
<1>2. SUFFICES ASSUME Recursive, NEW d \in ToSet(listed'), kind[d] = "dir", ~Waits(d)'
               PROVE  Due(kind, opt, d) \subseteq ToSet(listed')
  BY DEF Settled, Recursive
<1>3. ASSUME d \in ToSet(listed), ToSet(listed) \subseteq ToSet(listed'), ~Waits(d)
      PROVE  Due(kind, opt, d) \subseteq ToSet(listed')
  BY <1>2, <1>3 DEF Settled
<1>4. AtOnce' <=> AtOnce
  BY DEF AtOnce
<1>5. CASE Stays
  <2>1. Waits(d) => Waits(d)'
    BY <1>4, <1>5 DEF Stays, Waits
  <2> QED BY <1>2, <1>3, <1>5, <2>1 DEF Stays
<1>6. ASSUME Kept, listed' = listed, \A k \in 1 .. Len(stack) : stack'[k].todo = stack[k].todo, pc # "closedir"
      PROVE  Due(kind, opt, d) \subseteq ToSet(listed')
  <2>1. Waits(d) => Waits(d)'
    BY <1>4, <1>6 DEF Kept, Waits
  <2> QED BY <1>2, <1>3, <1>6, <2>1
<1>7. ASSUME NEW h \in 0 .. MaxDir, Opens(h) PROVE Due(kind, opt, d) \subseteq ToSet(listed')
  <2>1. Kept /\ stack'[1].todo = Top.todo /\ listed' = listed /\ pc # "closedir"
    BY <1>7, Keeping DEF Opens
  <2>2. ASSUME NEW k \in 1 .. Len(stack) PROVE stack'[k].todo = stack[k].todo
    <3>1. k > 1 => stack'[k] = stack[k]
      BY <2>1 DEF Kept
    <3>2. k = 1 \/ k > 1
      OBVIOUS
    <3> QED BY <1>1, <2>1, <3>1, <3>2
  <2> QED BY <1>6, <2>1, <2>2
<1>8. ~Skips
  BY DEF Skips
<1>9. ASSUME NEW e, NEW g, Reads(e, g) PROVE Due(kind, opt, d) \subseteq ToSet(listed')
  <2>1. ReadIs(e, g) /\ TopIs(g) /\ Kept /\ pc = "readdir"
    BY <1>9, Keeping DEF Reads, ReadIs
  <2>2. /\ Len(stack') = Len(stack) /\ ToSet(listed) \subseteq ToSet(listed')
        /\ \A k \in 1 .. Len(stack) : stack'[k].dir = stack[k].dir /\ (k > 1 => stack'[k] = stack[k])
        /\ stack'[1] = g /\ g.todo = (IF kind[e] = "dir" THEN Append(Top.todo, e) ELSE Top.todo)
        /\ e \in Nodes /\ ToSet(listed') \subseteq ToSet(listed) \cup {e}
    BY <2>1, NewEntry DEF Kept, TopIs, ReadIs
  <2>3. ToSet(Append(Top.todo, e)) = ToSet(Top.todo) \cup {e} /\ Append(Top.todo, e) # <<>> /\ Last(Append(Top.todo, e)) = e
    BY <1>1, <2>2, AppendHolds
  <2>4. CASE d = e
    <3>1. g.todo = Append(Top.todo, e)
      BY <1>2, <2>2, <2>4
    <3>2. CASE opt.cmd \in {"ld", "lt"}
      <4>1. pc' = "closedir"
        BY <1>2, <1>9, <2>4, <3>2 DEF Reads
      <4>2. Last(stack'[1].todo) = d
        BY <2>2, <2>3, <2>4, <3>1
      <4> QED BY <1>2, <4>1, <4>2 DEF Waits
    <3>3. CASE opt.cmd = "ll"
      BY <1>2, <1>9, <2>4, <3>3 DEF Reads, Recursive
    <3>4. CASE opt.cmd \in {"lf", "lm"}
      <4>1. ~AtOnce'
        BY <1>4, <3>4 DEF AtOnce
      <4>2. 1 \in 1 .. Len(stack') /\ d \in ToSet(stack'[1].todo)
        BY <1>1, <2>2, <2>3, <2>4, <3>1
      <4> QED BY <1>2, <4>1, <4>2 DEF Waits
    <3> QED BY <1>1, <3>2, <3>3, <3>4 DEF Lists
  <2>5. CASE d # e
    <3>1. d \in ToSet(listed)
      BY <1>2, <2>2, <2>5
    <3>2. ASSUME NEW k \in 1 .. Len(stack), d \in ToSet(stack[k].todo) PROVE d \in ToSet(stack'[k].todo)
      <4>1. CASE k = 1
        BY <1>1, <2>2, <2>3, <3>2, <4>1
      <4>2. CASE k > 1
        BY <2>2, <3>2, <4>2
      <4> QED BY <4>1, <4>2
    <3>3. Waits(d) => Waits(d)'
      BY <1>4, <2>1, <2>2, <3>2 DEF Waits
    <3> QED BY <1>2, <1>3, <2>2, <3>1, <3>3
  <2> QED BY <2>4, <2>5
<1>10. ASSUME NEW e, NEW g, Grown(e, g),
              d # e /\ ~AtOnce /\ d \in ToSet(Top.todo) => d \in ToSet(g.todo),
              pc = "closedir" => Last(Top.todo) = e
       PROVE  Due(kind, opt, d) \subseteq ToSet(listed')
  <2>1. /\ Len(stack') = Len(stack) + 1 /\ stack'[1].dir = e /\ stack'[2] = g
        /\ \A k \in 2 .. Len(stack) : stack'[k + 1] = stack[k]
        /\ g.dir = Top.dir
        /\ ToSet(listed) \subseteq ToSet(listed') /\ ToSet(listed') \subseteq ToSet(listed) \cup {e}
    BY <1>10 DEF Grown, OneMore, Frame
  <2>2. 1 \in 1 .. Len(stack') /\ 2 \in 1 .. Len(stack') /\ \A k \in 2 .. Len(stack) : k + 1 \in 1 .. Len(stack')
    BY <1>1, <2>1
  <2>3. d # e
    BY <1>2, <2>1, <2>2 DEF Waits
  <2>4. ASSUME Waits(d) PROVE Waits(d)'
    <3>1. CASE \E i \in 1 .. Len(stack) : stack[i].dir = d
      <4>1. PICK i \in 1 .. Len(stack) : stack[i].dir = d
        BY <3>1
      <4>2. CASE i = 1
        BY <1>1, <2>1, <2>2, <4>1, <4>2 DEF Waits
      <4>3. CASE i \in 2 .. Len(stack)
        BY <2>1, <2>2, <4>1, <4>3 DEF Waits
      <4> QED BY <1>1, <4>2, <4>3
    <3>2. CASE ~AtOnce /\ \E i \in 1 .. Len(stack) : d \in ToSet(stack[i].todo)
      <4>1. PICK i \in 1 .. Len(stack) : d \in ToSet(stack[i].todo)
        BY <3>2
      <4>2. CASE i = 1
        BY <1>1, <1>4, <1>10, <2>1, <2>2, <2>3, <3>2, <4>1, <4>2 DEF Waits
      <4>3. CASE i \in 2 .. Len(stack)
        BY <1>4, <2>1, <2>2, <3>2, <4>1, <4>3 DEF Waits
      <4> QED BY <1>1, <4>2, <4>3
    <3>3. CASE pc = "closedir" /\ Last(stack[1].todo) = d
      BY <1>1, <1>10, <2>3, <3>3
    <3> QED BY <2>4, <3>1, <3>2, <3>3 DEF Waits
  <2> QED BY <1>2, <1>3, <2>1, <2>3, <2>4
<1>11. ASSUME NEW e, NEW g, GoesInto(e, g) PROVE Due(kind, opt, d) \subseteq ToSet(listed')
  <2>1. Grown(e, g) /\ AtOnce /\ pc # "closedir"
    BY <1>11, Growing DEF GoesInto, ReadIs, AtOnce
  <2> QED BY <1>10, <2>1
<1>12. CASE GoesDown
  <2>1. Grown(Last(Top.todo), Top)
    BY <1>12, Growing
  <2> QED BY <1>10, <2>1
<1>13. CASE GoesOn
  <2> DEFINE e == Head(Top.todo)
             v == Tail(Top.todo)
             g == [Top EXCEPT !.todo = v]
  <2>1. Grown(e, g) /\ Top.todo # <<>> /\ pc # "closedir"
    BY <1>13, Growing DEF GoesOn
  <2>2. ToSet(Top.todo) = ToSet(v) \cup {e} /\ v \in Seq(Nodes)
    BY <1>1, <2>1, TailHolds
  <2>3. g.todo = v
    <3> HIDE DEF v, g
    <3>1. g = [Top EXCEPT !.todo = v]
      BY DEF g
    <3>2. g = [dir |-> Top.dir, named |-> Top.named, at |-> Top.at, dirp |-> Top.dirp, todo |-> v]
      BY <1>1, <2>2, <3>1, ActivationsAre
    <3> QED BY <3>2
  <2> HIDE DEF e, v, g
  <2> QED BY <1>10, <2>1, <2>2, <2>3
<1>14. CASE GoesBack
  <2>1. OneLess /\ listed' = listed /\ pc # "closedir" /\ Len(stack) # 1
    BY <1>14 DEF GoesBack, Walking, ListLabels
  <2>2. Due(kind, opt, stack[1].dir) \subseteq ToSet(listed) /\ (~AtOnce => stack[1].todo = <<>>)
    BY <1>2, <1>14, BackFrom
  <2>3. \A k \in 2 .. Len(stack) : k - 1 \in 1 .. Len(stack') /\ stack'[k - 1] = stack[k]
    <3>1. \A k \in 2 .. Len(stack) : k - 1 \in 1 .. Len(stack) - 1 /\ (k - 1) + 1 = k
      BY <1>1
    <3> QED BY <1>1, <2>1, <3>1 DEF OneLess
  <2>4. CASE d = stack[1].dir
    BY <2>1, <2>2, <2>4
  <2>5. CASE d # stack[1].dir
    <3>1. ASSUME Waits(d) PROVE Waits(d)'
      <4>1. CASE \E i \in 1 .. Len(stack) : stack[i].dir = d
        <5>1. PICK i \in 2 .. Len(stack) : stack[i].dir = d
          BY <1>1, <2>5, <4>1
        <5> QED BY <2>3, <5>1 DEF Waits
      <4>2. CASE ~AtOnce /\ \E i \in 1 .. Len(stack) : d \in ToSet(stack[i].todo)
        <5>1. PICK i \in 1 .. Len(stack) : d \in ToSet(stack[i].todo)
          BY <4>2
        <5>2. ToSet(<<>>) = {}
          BY DEF ToSet
        <5>3. i \in 2 .. Len(stack)
          BY <1>1, <2>2, <4>2, <5>1, <5>2
        <5> QED BY <1>4, <2>3, <4>2, <5>1, <5>3 DEF Waits
      <4> QED BY <2>1, <3>1, <4>1, <4>2 DEF Waits
    <3> QED BY <1>2, <1>3, <2>1, <3>1
  <2> QED BY <2>4, <2>5
<1>15. QED
  BY <1>5, <1>7, <1>8, <1>9, <1>11, <1>12, <1>13, <1>14 DEF Moves

LEMMA InitComplete == Init => Complete
  BY DEF Init, InitRun, Complete, Walking, ListLabels

LEMMA NextComplete == OnItsWay /\ HandlesHeld /\ ListedOK /\ Walk /\ Complete /\ [Next]_vars => Complete'
<1> SUFFICES ASSUME OnItsWay, HandlesHeld, ListedOK, Walk, Complete, [Next]_vars, Promised'
             PROVE  (Walking' => Thorough' /\ Settled') /\ (pc' = "done" => Whole')
  BY DEF Complete
<1>0. clean'
  BY DEF Promised
<1>1. ASSUME kind' = kind, opt' = opt, clean PROVE Promised
  <2>1. \A x : Asked(x)' <=> Asked(x)
    BY <1>1 DEF Asked
  <2> QED BY <1>1, <2>1 DEF Promised, Reaches
<1>2. CASE Walking
  <2>1. kind' = kind /\ opt' = opt /\ ((pc' = "killed" /\ listed' = listed) \/ Moves)
    BY <1>2, MovesAre DEF Walk
  <2>2. CASE pc' = "killed"
    BY <2>2 DEF Walking, ListLabels
  <2>3. CASE Moves
    <3>1. clean
      BY <1>0, <2>3 DEF Moves, Stays, Opens, Skips, Reads, GoesInto, ReadIs, GoesDown, GoesOn, GoesBack
    <3>2. Promised /\ Thorough /\ Settled
      <4>1. Promised
        BY <1>1, <2>1, <3>1
      <4> QED BY <1>2, <4>1 DEF Complete
    <3>3. CASE Walking'
      <4>1. Thorough' /\ Settled'
        BY <1>0, <1>2, <2>1, <2>3, <3>2, <3>3, ThoroughOn, SettledOn
      <4>2. pc' # "done"
        BY <3>3 DEF Walking, ListLabels
      <4> QED BY <4>1, <4>2
    <3>4. ASSUME pc' = "done" PROVE Whole'
      <4>1. GoesBack
        BY <1>2, <2>3, <3>4 DEF Moves, Stays, Opens, Skips, Reads, GoesInto, GoesDown, GoesOn, Walking, ListLabels
      <4>2. Len(stack) = 1 /\ listed' = listed
        BY <3>4, <4>1 DEF GoesBack
      <4>3. stack[1].dir = opt.node
        BY <1>2, <4>2 DEF Walk, Chain
      <4>4. /\ Due(kind, opt, opt.node) \subseteq ToSet(listed) /\ pc # "closedir"
            /\ Recursive /\ ~AtOnce => stack[1].todo = <<>>
        BY <1>0, <1>2, <3>2, <4>1, <4>3, BackFrom
      <4>5. ASSUME Recursive, NEW d \in ToSet(listed), kind[d] = "dir"
            PROVE  Due(kind, opt, d) \subseteq ToSet(listed)
        <5>1. ToSet(<<>>) = {}
          BY DEF ToSet
        <5>2. Waits(d) => d = opt.node
          BY <4>2, <4>3, <4>4, <4>5, <5>1 DEF Waits
        <5> QED BY <3>2, <4>4, <4>5, <5>2 DEF Settled
      <4> QED BY <2>1, <4>2, <4>4, <4>5 DEF Whole, Recursive
    <3> QED BY <3>3, <3>4
  <2> QED BY <2>1, <2>2, <2>3
<1>3. CASE ~Walking
  <2>1. ASSUME Walking' PROVE Thorough' /\ Settled' /\ pc' # "done"
    <3> DEFINE f == Frame(opt.node, TRUE)
    <3>1. /\ pc' = "opendir" /\ kind' = kind /\ opt' = opt /\ listed' = <<>>
          /\ Len(stack') = 1 /\ stack'[1] = f /\ opt.node \in Nodes
      BY <1>3, <2>1, Starting
    <3>2. f.dir = opt.node /\ f.at = 1 /\ f.named
      BY DEF Frame
    <3> HIDE DEF f
    <3>3. ASSUME NEW i \in 1 .. Len(stack')
          PROVE  /\ i = 1 /\ stack'[i].named /\ ~InHand(i)'
                 /\ \A c \in Due(kind', opt', stack'[i].dir) : ~(Number(kind', c) < stack'[i].at)
      <4>1. i = 1
        BY <3>1
      <4>2. \A c \in Due(kind, opt, opt.node) : ~(Number(kind, c) < 1)
        BY <3>1, DueIs
      <4>3. Due(kind', opt', stack'[i].dir) = Due(kind, opt, opt.node) /\ stack'[i].at = 1
        BY <3>1, <3>2, <4>1
      <4> QED BY <3>1, <3>2, <4>1, <4>2, <4>3 DEF InHand
    <3>4. Thorough'
      BY <3>1, <3>3 DEF Thorough
    <3>5. \A L : L = <<>> => ToSet(L) = {}
      BY DEF ToSet
    <3>6. Settled'
      BY <3>1, <3>5 DEF Settled
    <3> QED BY <3>1, <3>4, <3>6
  <2>2. ASSUME pc' = "done" PROVE Whole'
    <3> USE DEF ListLabels, GetLabels, PutLabels, DumpLabels
    <3>1. CASE pc = "done" /\ listed' = listed /\ kind' = kind /\ opt' = opt /\ clean' = clean
      <4>1. Whole
        BY <1>0, <1>1, <3>1 DEF Complete
      <4> QED BY <3>1, <4>1 DEF Whole, Recursive
    <3>2. CASE StatList
      <4>1. opt' = opt /\ kind' = kind
        BY <3>2 DEF StatList, host, modem
      <4>2. kind[opt.node] = "dir"
        BY <4>1 DEF Promised
      <4>3. Failed
        BY <2>2, <3>2, <4>2 DEF StatList
      <4> QED BY <1>0, <4>3 DEF Failed, Lost, Silent
    <3>3. CASE Change \/ CloseFirst \/ GetStat \/ GetOpen \/ ReadBlock \/ GetClose
               \/ PutStat \/ PutOpen \/ WriteBlock \/ PutClose \/ Prepare \/ Begin \/ ReadPage \/ EndImage
      <4>1. opt' = opt
        BY <3>3 DEF Change, CloseFirst, GetStat, GetOpen, ReadBlock, GetClose, PutStat, PutOpen, WriteBlock,
             PutClose, Prepare, Begin, ReadPage, EndImage, host
      <4>2. pc \in {"change", "close1"} \cup GetLabels \cup PutLabels \cup DumpLabels
        BY <3>3 DEF Change, CloseFirst, GetStat, GetOpen, ReadBlock, GetClose, PutStat, PutOpen, WriteBlock,
             PutClose, Prepare, Begin, ReadPage, EndImage
      <4>3. opt.cmd \notin Lists
        BY <4>2 DEF OnItsWay, Lists
      <4> QED BY <4>1, <4>3 DEF Promised
    <3>4. CASE CloseHandles \/ StartRun \/ Kill
      BY <2>2, <3>4 DEF CloseHandles, CloseHandlesFrom, Work, StartRun, Kill
    <3>5. CASE Opendir \/ ReadEntry \/ SkipEntry \/ Descend \/ Reopen \/ EndOfList \/ Leave \/ Subdirs
      BY <1>3, <3>5 DEF Opendir, ReadEntry, SkipEntry, Descend, Reopen, EndOfList, Leave, Subdirs, Walking
    <3>6. CASE Unplug \/ Finished \/ UNCHANGED vars
      <4>1. pc' = pc /\ listed' = listed /\ kind' = kind /\ opt' = opt /\ clean' = clean
        BY <3>6 DEF Unplug, Finished, vars, modem, host
      <4> QED BY <2>2, <3>1, <4>1
    <3> QED BY <3>2, <3>3, <3>4, <3>5, <3>6 DEF Next, Step
  <2> QED BY <2>1, <2>2
<1>4. QED
  BY <1>2, <1>3

-----------------------------------------------------------------------------
\* Of what is asked for, nothing is missing at the end: the first object that is would be in a
\* directory of which all was printed.
LEMMA AllListed ==
  ASSUME OnItsWay, TreeOK, ListedOK, Complete, Promised, pc = "done"
  PROVE  ToSet(listed) = {x \in Nodes : Asked(x)}
<1> DEFINE M == {x \in Nodes : Asked(x) /\ x \notin ToSet(listed)}
<1>1. \A x \in ToSet(listed) : x \in Nodes /\ Asked(x)
  BY DEF ListedOK, ToSet
<1>2. SUFFICES ASSUME M # {} PROVE FALSE
  BY <1>1
<1>3. \A x \in M : x \in Nodes \ {Root} /\ Place(x) \in Nat
  BY PlaceIs DEF Asked
<1>4. PICK x \in M : \A y \in M : Place(x) <= Place(y)
  <2> DEFINE P == {Place(y) : y \in M}
  <2>1. P \subseteq Int /\ P # {} /\ 0 \in Int /\ \A k \in P : 0 <= k
    BY <1>2, <1>3
  <2>2. Min(P) \in P /\ \A k \in P : Min(P) <= k
    <3> HIDE DEF P
    <3> QED BY <2>1, BoundedMin
  <2> HIDE DEF M
  <2> QED BY <2>2
<1> DEFINE p == Parent[x]
<1>5. /\ x \in Nodes \ {Root} /\ Asked(x) /\ x \notin ToSet(listed) /\ kind[x] # "none" /\ p \in Nodes
      /\ x \in Due(kind, opt, p) /\ kind[p] = "dir"
  <2>1. x \in Nodes \ {Root} /\ Asked(x) /\ x \notin ToSet(listed) /\ p \in Nodes
    BY <1>3, ConstantsAssumption
  <2> QED BY <2>1 DEF Asked, Due, Entries, TreeOK
<1>6. Whole
  BY DEF Complete
<1>7. p # opt.node
  BY <1>5, <1>6 DEF Whole
<1>8. Recursive /\ opt.node \in Above(x)
  BY <1>5, <1>7 DEF Asked, Recursive
<1>9. Above(x) = {p} \cup Above(p)
  BY <1>5, AboveIs
<1>10. p # Root
  BY <1>7, <1>8, <1>9, AboveRoot
<1>11. Asked(p)
  BY <1>5, <1>7, <1>8, <1>9, <1>10 DEF Asked, Recursive
<1>12. Place(p) < Place(x)
  BY <1>5, <1>9, <1>10, AboveBefore
<1>13. p \in ToSet(listed)
  <2>1. Place(p) \in Nat /\ Place(x) \in Nat
    BY <1>5, <1>10, PlaceIs
  <2>2. p \notin M
    BY <1>4, <1>12, <2>1
  <2> QED BY <1>5, <1>11, <2>2
<1>14. QED
  BY <1>5, <1>6, <1>8, <1>13 DEF Whole

\* A listing shows no object twice, whatever happens to the requests, and the trees and the short list
\* keep the order of the directories, each followed by what is in it. If all requests were answered, it
\* shows every object asked for and no other (show_tree, show_files, qefs.c:202-351), for every tree,
\* every number of directory handles that reaches, and every command line.
THEOREM ListingIsExact == Spec => []ListingExact
<1> DEFINE I == OnItsWay /\ HandlesHeld /\ Shapes /\ TreeOK /\ ListedOK /\ Walk /\ Complete
<1>1. Init => I
  BY InitOnItsWay, InitHandlesHeld, InitShapes, InitTree, InitListed, InitWalk, InitComplete
<1>2. I /\ [Next]_vars => I'
  BY NextOnItsWay, NextHandlesHeld, NextShapes, NextTree, NextListed, NextWalk, NextComplete
<1>3. I => ListingExact
  <2> SUFFICES ASSUME I PROVE ListingExact
    OBVIOUS
  <2>1. IsInjective(listed)
        /\ (AtOnce => \A i, j \in DOMAIN listed : i < j => Place(listed[i]) < Place(listed[j]))
    BY DEF ListedOK
  <2>2. ASSUME pc = "done", Promised PROVE ToSet(listed) = {x \in Nodes : Asked(x)}
    BY <2>2, AllListed
  <2> QED BY <2>1, <2>2 DEF ListingExact, AtOnce, Promised
<1> HIDE DEF I
<1>4. QED
  BY <1>1, <1>2, <1>3, PTL DEF Spec
=============================================================================
