---------------------------- MODULE TraceFolder ----------------------------
(***************************************************************************)
(* The folder of a simulation's trace files.  quic-main makes "traces/"    *)
(* and then "traces/<folder>/" with MakePath, a recursion over the parents *)
(* of a path that asks the file system step by step, and gives up with "is *)
(* not right" when it answers false.  Several simulations may be started   *)
(* in one directory, one for each instance, and a simulation that was      *)
(* refused is started again by hand.                                       *)
(*                                                                         *)
(* A path is its names and the number of slashes behind the last of them.  *)
(* The directory quic-main is started in is the empty sequence of names.   *)
(***************************************************************************)
EXTENDS Integers, Sequences, FiniteSets, SequencesExt

CONSTANTS
    Simulations,    \* the processes
    Names,          \* names a user gives to folders
    MaxDepth        \* bound: names in the folder of one simulation

\* What the constants are assumed to be.
DepthAssumption == MaxDepth \in Nat \ {0}

Folders == UNION {[1..n -> Names] : n \in 1..MaxDepth}

VARIABLES
    dirs,       \* the directories there are
    files,      \* files that are no directories
    folder,     \* each simulation's --folder
    phase,      \* "traces", "log": the call of MakePath it is in; or its end
    stack,      \* the calls of MakePath, the innermost last
    tracePath   \* Ns3QuicTracePath of each

vars == <<dirs, files, folder, phase, stack, tracePath>>

Path(names, slashes) == [names |-> names, slashes |-> slashes]

NoPath == Path(<< >>, 0)

-----------------------------------------------------------------------------
TracesPath == Path(<<"traces">>, 1)

LogPath(s) == Path(<<"traces">> \o folder[s], 1)

Call(path) == [path |-> path, at |-> "mkdir"]

\* Directories and files that may be there when the first simulation starts.
Places == {<<"traces">>} \cup {<<"traces">> \o f : f \in Folders}

Trees ==
    {tree \in SUBSET Places : \A d \in tree : Len(d) > 1 => Front(d) \in tree}

Init ==
    /\ \E tree \in Trees : dirs = tree \cup {<< >>}
    /\ \E f \in SUBSET {p \in Places \ dirs : Front(p) \in dirs} :
        Cardinality(f) <= 1 /\ files = f
    /\ folder \in [Simulations -> Folders]
    /\ phase = [s \in Simulations |-> "traces"]
    /\ stack = [s \in Simulations |-> <<Call(TracesPath)>>]
    /\ tracePath = [s \in Simulations |-> NoPath]

-----------------------------------------------------------------------------
\* What mkdir(2) answers; slashes at the end do not matter to it.
Errno(path) ==
    CASE path.names \in dirs \cup files -> "EEXIST"
      [] \E i \in 1..Len(path.names) : SubSeq(path.names, 1, i) \in files -> "ENOTDIR"
      [] Front(path.names) \notin dirs -> "ENOENT"
      [] OTHER -> "done"

Made(path) == IF Errno(path) = "done" THEN dirs \cup {path.names} ELSE dirs

\* Mistake: find_first_of.
Parent_First(path) == Path(<< >>, 0)

\* path.substr(0, path.find_last_of('/'))
Parent(path) ==
    IF path.slashes > 0 THEN Path(path.names, path.slashes - 1)
    ELSE Path(Front(path.names), 0)

\* set_quic_trace_folder asks for a character of the folder that was set
\* before, at the last index of the new one.  That string is empty and has no
\* such index: a slash is added or not.
SetTraceFolder(s, path) ==
    \E more \in {0, 1} :
        tracePath' = [tracePath EXCEPT ![s] = Path(path.names, path.slashes + more)]

\* The innermost call returns.  A caller that gets false returns it as well,
\* and quic-main ends; one that gets true tries its own path again.
Return(s, ok) ==
    LET callers == Front(stack[s])
    IN  \/ /\ ~ok
           /\ stack' = [stack EXCEPT ![s] = << >>]
           /\ phase' = [phase EXCEPT ![s] = "refused"]
           /\ UNCHANGED tracePath
        \/ /\ ok
           /\ callers # << >>
           /\ stack' = [stack EXCEPT ![s] = callers]
           /\ UNCHANGED <<phase, tracePath>>
        \/ /\ ok
           /\ callers = << >>
           /\ phase[s] = "traces"
           /\ phase' = [phase EXCEPT ![s] = "log"]
           /\ stack' = [stack EXCEPT ![s] = <<Call(LogPath(s))>>]
           /\ SetTraceFolder(s, LogPath(s))
        \/ /\ ok
           /\ callers = << >>
           /\ phase[s] = "log"
           /\ phase' = [phase EXCEPT ![s] = "running"]
           /\ stack' = [stack EXCEPT ![s] = << >>]
           /\ UNCHANGED tracePath

In(s, where) == stack[s] # << >> /\ Last(stack[s]).at = where

Then(s, where) == Append(Front(stack[s]), [Last(stack[s]) EXCEPT !.at = where])

\* The first mkdir of MakePath.
Mkdir(s) ==
    LET path == Last(stack[s]).path
    IN  /\ In(s, "mkdir")
        /\ dirs' = Made(path)
        /\ \/ /\ Errno(path) = "done"
              /\ Return(s, TRUE)
           \/ /\ Errno(path) = "ENOENT"
              /\ stack' = [stack EXCEPT ![s] = Append(Then(s, "again"), Call(Parent(path)))]
              /\ UNCHANGED <<phase, tracePath>>
           \/ /\ Errno(path) = "EEXIST"
              /\ stack' = [stack EXCEPT ![s] = Then(s, "stat")]
              /\ UNCHANGED <<phase, tracePath>>
           \/ /\ Errno(path) = "ENOTDIR"
              /\ Return(s, FALSE)
        /\ UNCHANGED <<files, folder>>

\* "now, try to create again": here EEXIST is an error.
Again(s) ==
    LET path == Last(stack[s]).path
    IN  /\ In(s, "again")
        /\ dirs' = Made(path)
        /\ Return(s, Errno(path) = "done")
        /\ UNCHANGED <<files, folder>>

\* Mistake: whatever is there is taken for a directory.
IsDirExist_Any(path) == path.names \in dirs \cup files

IsDirExist(path) == path.names \in dirs

Stat(s) ==
    /\ In(s, "stat")
    /\ Return(s, IsDirExist(Last(stack[s]).path))
    /\ UNCHANGED <<dirs, files, folder>>

\* The user starts a simulation that was refused again.
StartAgain(s) ==
    /\ phase[s] = "refused"
    /\ phase' = [phase EXCEPT ![s] = "traces"]
    /\ stack' = [stack EXCEPT ![s] = <<Call(TracesPath)>>]
    /\ tracePath' = [tracePath EXCEPT ![s] = NoPath]
    /\ UNCHANGED <<dirs, files, folder>>

Step(s) == Mkdir(s) \/ Again(s) \/ Stat(s) \/ StartAgain(s)

Next == \E s \in Simulations : Step(s)

\* The operating system runs every process, and the user does not give up.
Fairness == \A s \in Simulations : WF_vars(Step(s))

Spec == Init /\ [][Next]_vars /\ Fairness

-----------------------------------------------------------------------------
TypeOK ==
    /\ \A d \in dirs \ {<< >>} : Front(d) \in dirs
    /\ dirs \cap files = {}
    /\ phase \in [Simulations -> {"traces", "log", "running", "refused"}]
    /\ \A s \in Simulations : phase[s] \in {"running", "refused"} <=> stack[s] = << >>

(***************************************************************************)
(* LogEnable glues the name of a file to the trace path and does not look  *)
(* whether it could be opened: a simulation that runs has a directory      *)
(* there, and a slash behind it, whatever the comparison with the previous *)
(* folder gave.                                                            *)
(***************************************************************************)
RunningHasItsFolder ==
    \A s \in Simulations :
        phase[s] = "running" =>
            /\ tracePath[s].names = LogPath(s).names
            /\ tracePath[s].names \in dirs
            /\ tracePath[s].slashes >= 1

\* A file where the simulation needs a directory.
Blocked(s) ==
    \E i \in 1..Len(LogPath(s).names) : SubSeq(LogPath(s).names, 1, i) \in files

(***************************************************************************)
(* A folder of one name is refused only if a file is in its way, also when *)
(* several simulations make the same directories at the same time.         *)
(***************************************************************************)
OneNameIsNeverRefused ==
    \A s \in Simulations :
        phase[s] = "refused" /\ Len(folder[s]) = 1 => Blocked(s)

(***************************************************************************)
(* A folder of several names may be refused, for what the simulation       *)
(* itself or another has made meanwhile; but every attempt leaves more of  *)
(* it behind, and in the end it runs.                                      *)
(***************************************************************************)
InTheEndItRuns ==
    \A s \in Simulations : ~Blocked(s) ~> phase[s] = "running"

(***************************************************************************)
(* ns3-quic-util.cc:54: "parent didn't exist, try to create it".  A path   *)
(* whose parents are missing is made, if no file is in the way.            *)
(***************************************************************************)
MissingParentsAreMade ==
    \A s \in Simulations : phase[s] = "refused" => Blocked(s)
=============================================================================
