------------------------------- MODULE IceConfig -------------------------------
(***************************************************************************)
(* The ICE settings of config.toml: load_ice_config in daemon/main.c, which*)
(* chatd runs once, and chat_ice_session_start in daemon/ice.c, which      *)
(* applies them to the agent of every session.                             *)
(*                                                                         *)
(* A setting is what chat_load_quoted_config_value finds: nothing (also    *)
(* for a line that is not written  key = "value"), a line it cannot use, an*)
(* empty value, or a value.                                                *)
(***************************************************************************)
EXTENDS Naturals

MaxPort == 65535

(* Texts that strtoul reads to their end, at the bounds of a port. *)
Strtoul == [zero |-> 0, least |-> 1, most |-> 65535, beyond |-> 65536]

Values(usable) == {"absent", "unusable", "empty"} \cup usable

(* A local address is text that names an address or text that does not.    *)
Files ==
    [local_address : Values({"address", "text"}),
     stun_host : Values({"text"}), stun_port : Values({"text"} \cup DOMAIN Strtoul),
     turn_host : Values({"text"}), turn_port : Values({"text"} \cup DOMAIN Strtoul),
     turn_username : Values({"text"}), turn_password : Values({"text"}),
     force_relay : {"absent", "unusable", "true", "false", "text"}]

VARIABLES
    file,       \* the settings in config.toml
    config,     \* state.ice_config
    phase,      \* "start", "refused", "loaded" or "session"
    agent       \* what chat_ice_session_start has set on its agent, or NoAgent

vars == <<file, config, phase, agent>>

NoConfig == [local |-> FALSE, stun |-> FALSE, turn |-> FALSE, force |-> FALSE]
NoAgent == [force |-> FALSE, relay |-> FALSE, stun |-> FALSE]

-----------------------------------------------------------------------------
Has(key) == file[key] # "absent"

(* parse_config_uint *)
IsPort(key) ==
    file[key] \in DOMAIN Strtoul /\ Strtoul[file[key]] \in 1 .. MaxPort

Stun == {"stun_host", "stun_port"}
Turn == {"turn_host", "turn_port", "turn_username", "turn_password"}

LocalRefused == file.local_address = "empty"

StunRefused_HostIgnored == Has("stun_port") /\ ~IsPort("stun_port")
StunRefused ==
    /\ \E key \in Stun : Has(key)
    /\ (\E key \in Stun : ~Has(key)) \/ ~IsPort("stun_port")

TurnRefused ==
    /\ \E key \in Turn : Has(key)
    /\ \/ \E key \in Turn : ~Has(key)
       \/ file.turn_username = "empty" \/ file.turn_password = "empty"
       \/ ~IsPort("turn_port")

HasTurn == \A key \in Turn : Has(key)

ForceRefused_Alone == file.force_relay = "text"
ForceRefused ==
    \/ file.force_relay = "text"
    \/ file.force_relay = "true" /\ ~HasTurn

(* load_ice_config.  Every way out but the last ends chatd. *)
Refused ==
    \/ \E key \in DOMAIN file : file[key] = "unusable"
    \/ LocalRefused \/ StunRefused \/ TurnRefused \/ ForceRefused

LoadIceConfig ==
    /\ phase = "start"
    /\ IF Refused
       THEN phase' = "refused" /\ UNCHANGED config
       ELSE /\ phase' = "loaded"
            /\ config' = [local |-> Has("local_address"),
                          stun |-> \A key \in Stun : Has(key),
                          turn |-> HasTurn, force |-> file.force_relay = "true"]
    /\ UNCHANGED <<file, agent>>

(* chat_ice_session_start.  relayed: whether libnice takes the relay.  An  *)
(* address that is none, or a refused relay, closes the session.           *)
SessionStart(relayed) ==
    /\ phase = "loaded"
    /\ config.turn \/ relayed
    /\ IF (config.local /\ file.local_address = "text") \/ ~relayed
       THEN agent' = NoAgent
       ELSE agent' = [force |-> config.force, relay |-> config.turn,
                      stun |-> config.stun]
    /\ phase' = "session"
    /\ UNCHANGED <<file, config>>

SessionClose ==
    /\ phase = "session"
    /\ phase' = "loaded"
    /\ agent' = NoAgent
    /\ UNCHANGED <<file, config>>

Init ==
    /\ file \in Files
    /\ config = NoConfig /\ phase = "start" /\ agent = NoAgent

Next == LoadIceConfig \/ (\E relayed \in BOOLEAN : SessionStart(relayed)) \/ SessionClose

Spec == Init /\ [][Next]_vars

-----------------------------------------------------------------------------
(* chat_ice_session_start: an agent that may use relayed candidates only   *)
(* has a relay, so that the session can be established at all.             *)
ForcedHasRelay == agent.force => agent.relay

(* load_ice_config: STUN is used when the host and a port are given, TURN  *)
(* when its four settings are.  A daemon that runs uses every setting that *)
(* is given, none is left out because another one is missing, and the      *)
(* ports it hands to libnice are ports.                                    *)
NothingIgnored ==
    phase \in {"loaded", "session"} =>
        /\ \A key \in Stun : Has(key) => config.stun
        /\ \A key \in Turn : Has(key) => config.turn
        /\ file.force_relay = "true" => config.force
        /\ config.stun => file.stun_port \in {"least", "most"}
        /\ config.turn => file.turn_port \in {"least", "most"}
================================================================================
