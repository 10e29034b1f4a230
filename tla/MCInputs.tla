------------------------------- MODULE MCInputs -------------------------------
(***************************************************************************)
(* The parts of the program that only compute, Framing and IceConfig, over *)
(* bounded inputs.  A behaviour gives an input to one of the two, and the  *)
(* other one is idle.                                                      *)
(***************************************************************************)
EXTENDS Naturals

CONSTANTS Lengths, Names, Bytes, Sizes

VARIABLES stage, text, name, packet, file, config, phase, agent

sizing == <<stage, text, name, packet>>
settings == <<file, config, phase, agent>>

Sizing == INSTANCE Framing
Settings == INSTANCE IceConfig

ASSUME InputsAssumption ==
    /\ Lengths \subseteq 1 .. Sizing!IpcMax - 1 /\ Names \subseteq 3 .. 32
    /\ Bytes \subseteq 0 .. 255 /\ Sizes \subseteq Nat

NoText == stage = "idle" /\ text = 0 /\ name = 3 /\ packet = Sizing!NoPacket
NoFile ==
    /\ phase = "idle" /\ file = [key \in {} |-> "absent"]
    /\ config = Settings!NoConfig /\ agent = Settings!NoAgent

InputsInit ==
    \/ Sizing!Init /\ NoFile
    \/ Settings!Init /\ NoText

InputsNext ==
    \/ Sizing!Next /\ UNCHANGED settings
    \/ Settings!Next /\ UNCHANGED sizing

InputsSpec == InputsInit /\ [][InputsNext]_<<sizing, settings>>

-----------------------------------------------------------------------------
(* A text that fits every limit between two CLIs is shown (client/main.c,  *)
(* daemon/main.c).                                                         *)
FittingIsShown == Sizing!FittingIsShown

(* A packet that handle_ice_app_packet handles is as long as its header    *)
(* says.                                                                   *)
HandledIsWhole == Sizing!HandledIsWhole

(* chat_ice_session_start forces the relay only of an agent that has one.  *)
ForcedHasRelay == Settings!ForcedHasRelay

(* A daemon that load_ice_config lets run uses all the settings given, and *)
(* its ports are ports.                                                    *)
NothingIgnored == Settings!NothingIgnored
===============================================================================
