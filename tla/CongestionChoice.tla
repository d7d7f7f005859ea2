-------------------------- MODULE CongestionChoice --------------------------
(***************************************************************************)
(* Which congestion controller a flow runs: from the command line of       *)
(* quic-main over the names of the clients and their control types to the  *)
(* sender the factory makes.                                               *)
(*                                                                         *)
(* quiche gives a connection a sender of its default type and replaces it  *)
(* when Ns3QuicClient asks for another type; the factory sees the old one, *)
(* since a BBRv2 sender can take over from a BBR one.  What a debug build  *)
(* asserts an optimized one lets pass.                                     *)
(***************************************************************************)
EXTENDS Integers, Sequences

CONSTANTS
    OtherNames,     \* names of controllers that do not exist
    OtherOptions    \* options that quic-main does not have

Names == {"reno", "cubic", "bbr", "bbrv2", "copa", "vegas"}

VARIABLES
    args,       \* the options given, with their values
    debug,      \* whether NS_ASSERT is compiled in
    default,    \* the control type quiche starts a connection with
    phase,      \* of quic-main
    factory,    \* whether the external factory is registered
    flows       \* the clients in the order they are installed

vars == <<args, debug, default, phase, factory, flows>>

Options == {"topo", "cc1", "cc2"}

\* What the constants are assumed to be.
ChoiceAssumption == OtherNames \cap Names = {} /\ OtherOptions \cap Options = {}

\* What a command line without the option says.
Given(option, value) == IF option \in DOMAIN args THEN args[option] ELSE value

-----------------------------------------------------------------------------
\* A sender: its class, whether it is the Reno variant, and what it took over.
NoSender == [class |-> "none", reno |-> FALSE, took |-> "none"]

Sender(class) == [NoSender EXCEPT !.class = class]

Cubic(use_reno) == [Sender("TcpCubicSenderBytes") EXCEPT !.reno = use_reno]

\* GetCongestionControlType of a sender.
TypeOf(sender) ==
    CASE sender.class = "BbrSender"   -> "kBBR"
      [] sender.class = "Bbr2Sender"  -> "kBBRv2"
      [] sender.class = "CopaSender"  -> "kCopa"
      [] sender.class = "VegasSender" -> "kVegas"
      [] sender.class = "TcpCubicSenderBytes" ->
            IF sender.reno THEN "kRenoBytes" ELSE "kCubicBytes"

\* Mistake: only the beginning of the name is compared.
GetCongestionType_Prefix(name) ==
    CASE name \in {"bbr", "bbrv2"} -> "kBBR"
      [] name = "copa"  -> "kCopa"
      [] name = "vegas" -> "kVegas"
      [] name = "reno"  -> "kRenoBytes"
      [] OTHER          -> "kCubicBytes"

GetCongestionType(name) ==
    CASE name = "bbr"   -> "kBBR"
      [] name = "bbrv2" -> "kBBRv2"
      [] name = "copa"  -> "kCopa"
      [] name = "vegas" -> "kVegas"
      [] name = "reno"  -> "kRenoBytes"
      [] OTHER          -> "kCubicBytes"

\* Ns3QuicCongestionFactory::Create
Create(type, old) ==
    CASE type = "kBBR"        -> Sender("BbrSender")
      [] type = "kBBRv2"      ->
            [Sender("Bbr2Sender") EXCEPT
                !.took = IF old # NoSender /\ TypeOf(old) = "kBBR" THEN old.class ELSE "none"]
      [] type = "kCubicBytes" -> Cubic(FALSE)
      [] type = "kCopa"       -> Sender("CopaSender")
      [] type = "kVegas"      -> Sender("VegasSender")
      [] OTHER                -> Cubic(TRUE)

-----------------------------------------------------------------------------
Init ==
    /\ \E given \in SUBSET (Options \cup OtherOptions) :
        /\ args \in [given -> Names \cup OtherNames \cup {"dumbbell", "p2p"}]
        /\ \A o \in given : o = "topo" <=> args[o] \in {"dumbbell", "p2p"}
    /\ debug \in BOOLEAN
    /\ default \in {"kCubicBytes", "kBBR", "kBBRv2"}
    /\ phase = "parse"
    /\ factory = FALSE
    /\ flows = << >>

\* CommandLine ends the program at an option it was not told of.
Parse ==
    /\ phase = "parse"
    /\ phase' = IF DOMAIN args \subseteq Options THEN "check" ELSE "usage"
    /\ UNCHANGED <<args, debug, default, factory, flows>>

\* The two assertions on the names.
CheckNames ==
    /\ phase = "check"
    /\ phase' = IF debug /\ {Given("cc1", "cubic"), Given("cc2", "cubic")} \cap OtherNames # {}
                THEN "abort" ELSE "certificates"
    /\ UNCHANGED <<args, debug, default, factory, flows>>

\* Without the certificates quic-main returns 0 and has run nothing.
NoCertificates ==
    /\ phase = "certificates"
    /\ phase' = "end"
    /\ UNCHANGED <<args, debug, default, factory, flows>>

\* The names the clients are made with.
Clients ==
    LET cc1 == Given("cc1", "cubic")
        cc2 == Given("cc2", "cubic")
    IN  IF Given("topo", "p2p") = "dumbbell" THEN <<cc1, cc1, cc2, cc2>> ELSE <<cc1, cc1, cc2>>

\* The factory is registered and the clients are made.
Install ==
    /\ phase = "certificates"
    /\ phase' = "run"
    /\ factory' = TRUE
    /\ flows' = [i \in DOMAIN Clients |->
                    [type |-> GetCongestionType(Clients[i]), sender |-> NoSender]]
    /\ UNCHANGED <<args, debug, default>>

\* QuicSentPacketManager::SetSendAlgorithm: a type that is there is not made
\* again; without a factory quiche makes its own, and knows its own types only.
SetSendAlgorithm(type, old) ==
    LET there == old # NoSender /\ TypeOf(old) = type
        known == factory \/ type \notin {"kCopa", "kVegas"}
    IN  CASE there -> old
          [] ~there /\ known -> Create(type, old)
          [] ~there /\ ~known -> Cubic(FALSE)

\* A client starts: the connection comes with the default sender, and
\* CreateQuicClientSession asks for the client's.
CreateQuicClientSession(i) ==
    /\ phase = "run"
    /\ flows[i].sender = NoSender
    /\ flows' = [flows EXCEPT ![i].sender =
                    SetSendAlgorithm(flows[i].type, SetSendAlgorithm(default, NoSender))]
    /\ UNCHANGED <<args, debug, default, phase, factory>>

Next ==
    \/ Parse
    \/ CheckNames
    \/ NoCertificates
    \/ Install
    \/ \E i \in DOMAIN flows : CreateQuicClientSession(i)

Spec == Init /\ [][Next]_vars

-----------------------------------------------------------------------------
\* The clients run with the factory, or not at all.
TypeOK ==
    /\ phase \in {"parse", "usage", "check", "abort", "certificates", "end", "run"}
    /\ phase \in {"check", "abort", "certificates", "end", "run"} => DOMAIN args \subseteq Options
    /\ factory <=> phase = "run"
    /\ phase = "run" <=> flows # << >>

\* The sender a name stands for.
Named(name) ==
    CASE name = "reno"  -> <<"TcpCubicSenderBytes", TRUE>>
      [] name = "cubic" -> <<"TcpCubicSenderBytes", FALSE>>
      [] name = "bbr"   -> <<"BbrSender", FALSE>>
      [] name = "bbrv2" -> <<"Bbr2Sender", FALSE>>
      [] name = "copa"  -> <<"CopaSender", FALSE>>
      [] name = "vegas" -> <<"VegasSender", FALSE>>

(***************************************************************************)
(* A flow runs the sender its option names, whatever the connection        *)
(* started with; a name that does not exist gets past the assertions only  *)
(* in an optimized build, and stands for cubic.                            *)
(***************************************************************************)
FlowRunsWhatIsNamed ==
    \A i \in DOMAIN flows :
        flows[i].sender # NoSender =>
            /\ Clients[i] \in Names =>
                <<flows[i].sender.class, flows[i].sender.reno>> = Named(Clients[i])
            /\ Clients[i] \notin Names => ~debug /\ flows[i].sender = Cubic(FALSE)

(***************************************************************************)
(* The factory casts the old sender to a BbrSender without looking at its  *)
(* class: only its type stands for it, and copa and vegas have types       *)
(* quiche does not know.                                                   *)
(***************************************************************************)
CastIsOfABbr ==
    \A i \in DOMAIN flows : flows[i].sender.took \in {"none", "BbrSender"}

=============================================================================
