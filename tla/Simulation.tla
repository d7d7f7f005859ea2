----------------------------- MODULE Simulation -----------------------------
(***************************************************************************)
(* What quic-main sets up, on small instances: the links and the report on *)
(* them (Topology), the folder of the traces (TraceFolder), and the        *)
(* controllers of the flows (CongestionChoice).  main() does one after the *)
(* other and none reads what another has made, so that one of them moves   *)
(* at a time: subject is the one that is looked at.                        *)
(***************************************************************************)
EXTENDS Integers, Sequences

CONSTANTS
    Horizon,        \* bound: half seconds the links are looked at
    Simulations,    \* simulations in one directory
    FolderNames,    \* names of folders
    MaxDepth,       \* bound: names in a --folder
    OtherNames,     \* names of controllers that do not exist
    OtherOptions    \* options that quic-main does not have

VARIABLES
    subject,
    instance, topology, credit, now, m_readBytes, m_receiptTime, f_util,
    dirs, files, folder, fPhase, stack, tracePath,
    args, debug, default, cPhase, factory, flows

topologyVars == <<instance, topology, credit, now, m_readBytes, m_receiptTime, f_util>>
folderVars == <<dirs, files, folder, fPhase, stack, tracePath>>
choiceVars == <<args, debug, default, cPhase, factory, flows>>
vars == <<subject, topologyVars, folderVars, choiceVars>>

Links == INSTANCE Topology

Folder == INSTANCE TraceFolder WITH Names <- FolderNames, phase <- fPhase

Choice == INSTANCE CongestionChoice WITH phase <- cPhase

ASSUME SimulationAssumption ==
    /\ Links!HorizonAssumption
    /\ Folder!DepthAssumption
    /\ FolderNames # {}
    /\ Choice!ChoiceAssumption

ShortFolder == <<CHOOSE n \in FolderNames : TRUE>>

\* The part that is not looked at begins as it does without options, in an
\* empty directory.
Init ==
    /\ subject \in {"links", "folder", "choice"}
    /\ IF subject = "links" THEN TRUE ELSE instance = "other"
    /\ Links!Init
    /\ IF subject = "folder" THEN TRUE
       ELSE dirs = {<< >>} /\ files = {} /\ folder = [s \in Simulations |-> ShortFolder]
    /\ Folder!Init
    /\ IF subject = "choice" THEN TRUE
       ELSE args = << >> /\ debug = TRUE /\ default = "kCubicBytes"
    /\ Choice!Init

FolderStep(s) ==
    subject = "folder" /\ Folder!Step(s) /\ UNCHANGED <<subject, topologyVars, choiceVars>>

Next ==
    \/ subject = "links" /\ Links!Next /\ UNCHANGED <<subject, folderVars, choiceVars>>
    \/ \E s \in Simulations : FolderStep(s)
    \/ subject = "choice" /\ Choice!Next /\ UNCHANGED <<subject, topologyVars, folderVars>>

\* The operating system runs every process that makes its folder, and the user
\* starts a simulation that was refused again.
Fairness == \A s \in Simulations : WF_vars(FolderStep(s))

Spec == Init /\ [][Next]_vars /\ Fairness

-----------------------------------------------------------------------------
(***************************************************************************)
(* The bottleneck's queue holds the round trips the instance asks for, to  *)
(* the packet, in 32-bit arithmetic and whatever the other links hold.     *)
(***************************************************************************)
BottleneckHoldsItsRtts == Links!BottleneckHoldsItsRtts

(***************************************************************************)
(* The utilisation that is reported is too high by what the link carries   *)
(* in less than a second, and too low in the instances of topoinfo1 only,  *)
(* where the bandwidth of the other topology is divided by.                *)
(***************************************************************************)
UtilisationIsNear ==
    Links!OvershootIsBelowASecond /\ Links!OnlyFirstTopologyIsUnderstated

(***************************************************************************)
(* A simulation that runs has the directory its trace files are opened in, *)
(* and one whose folder has one name is refused only if a file is in its   *)
(* way, also when another makes the same directories at the same time.     *)
(***************************************************************************)
RunningHasItsFolder ==
    Folder!RunningHasItsFolder /\ Folder!OneNameIsNeverRefused

(***************************************************************************)
(* A simulation that was refused without a file in its way gets through by *)
(* trying again: every attempt leaves more of the folder behind.           *)
(***************************************************************************)
InTheEndItRuns ==
    \A s \in Simulations : subject = "folder" /\ ~Folder!Blocked(s) ~> fPhase[s] = "running"

(***************************************************************************)
(* A flow runs the controller its option names, whatever sender quiche     *)
(* began with, and a BBRv2 sender takes over from BBR senders only.        *)
(***************************************************************************)
FlowRunsWhatIsNamed == Choice!FlowRunsWhatIsNamed /\ Choice!CastIsOfABbr
=============================================================================
