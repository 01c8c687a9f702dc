----------------------------- MODULE MCHostParts -----------------------------
(***************************************************************************)
(* Parts of a host, of what reaches it and of the services beside it that  *)
(* share no state, one of them in each behaviour: a managed process, the   *)
(* host agent with the game it starts, the RTP packetizer, the sound's     *)
(* demuxer, the keys and the controllers of a player, the rotation of a    *)
(* certificate, the frames of the signaling service's sockets, the links   *)
(* through the application's own host, the checks of a machine's native    *)
(* packages, the evidence for a release, and what a host comes up as.      *)
(***************************************************************************)
EXTENDS HostAgent, MediaFraming, RemoteInput, SocketBytes, HostMachine, Deployment

VARIABLE part
hostPartsVars == <<part, processVars, agentVars, packetVars, oggVars, keyVars, padVars, tlsVars,
                   wireVars, appHostVars, hardwareVars, evidenceVars, bootVars>>

\* The parts that are not looked at keep one of their initial states.
NoPackets ==
  /\ codec = "opus" /\ form = "whole" /\ frame = <<<<0>>>>
  /\ packets = <<>> /\ pushed = FALSE /\ sequence = 0
NoSound ==
  /\ stream = <<[kind |-> "header", full |-> 0]>> /\ breaks = {} /\ badPage = 0
  /\ got = 0 /\ page = 0 /\ parts = 0 /\ sent = <<>> /\ audio = "active" /\ encoder = "on"
NoRotation == live = [f \in File |-> "none"]
NoFrames ==
  /\ frames = <<"text">> /\ arrived = 0 /\ next = 1 /\ now = 0 /\ taken = <<>> /\ passed = <<>>
  /\ limiter = [startedAt |-> 0, count |-> 0] /\ wireEnd = "open"
NoMachine ==
  machine = [platform |-> "linux", compiled |-> TRUE, rumble |-> TRUE, xdotool |-> TRUE,
             ffmpeg |-> TRUE, device |-> TRUE]

NoHost ==
  installed = [package |-> "absent", claims |-> {}, binds |-> {}, werift |-> FALSE, driver |-> "none"]

HostPartsInit ==
  /\ part \in {"process", "agent", "packets", "sound", "keys", "pads", "rotation", "frames",
               "links", "checks", "evidence", "boot"}
  /\ part # "keys" => sticky = FALSE
  /\ part # "rotation" => NoRotation
  /\ part # "checks" => NoMachine
  /\ part # "boot" => NoHost
  /\ Init /\ PadInit /\ AppHostInit /\ KeysInit /\ RotationInit /\ HardwareInit
  /\ EvidenceInit /\ BootInit
  /\ IF part = "packets" THEN PacketInit ELSE NoPackets
  /\ IF part = "sound" THEN OggInit ELSE NoSound
  /\ IF part = "frames" THEN WireInit ELSE NoFrames

Others(p) ==
  /\ UNCHANGED part
  /\ p \notin {"process", "agent"} => UNCHANGED processVars
  /\ p # "agent"    => UNCHANGED agentVars
  /\ p # "packets"  => UNCHANGED packetVars
  /\ p # "sound"    => UNCHANGED oggVars
  /\ p # "keys"     => UNCHANGED keyVars
  /\ p # "pads"     => UNCHANGED padVars
  /\ p # "rotation" => UNCHANGED tlsVars
  /\ p # "frames"   => UNCHANGED wireVars
  /\ p # "links"    => UNCHANGED appHostVars
  /\ p # "checks"   => UNCHANGED hardwareVars
  /\ p # "evidence" => UNCHANGED evidenceVars
  /\ p # "boot"     => UNCHANGED bootVars

HostPartsNext ==
  \/ part = "process"  /\ ProcessNext  /\ Others("process")
  \/ part = "agent"    /\ Next         /\ Others("agent")
  \/ part = "packets"  /\ PacketNext   /\ Others("packets")
  \/ part = "sound"    /\ OggNext      /\ Others("sound")
  \/ part = "keys"     /\ KeysNext     /\ Others("keys")
  \/ part = "pads"     /\ PadNext      /\ Others("pads")
  \/ part = "rotation" /\ RotationNext /\ Others("rotation")
  \/ part = "frames"   /\ WireNext     /\ Others("frames")
  \/ part = "links"    /\ AppHostNext  /\ Others("links")
  \/ part = "checks"   /\ HardwareNext /\ Others("checks")
  \/ part = "evidence" /\ EvidenceNext /\ Others("evidence")
  \/ part = "boot"     /\ BootNext     /\ Others("boot")

\* The host agent is as fair as HostAgent says; nothing makes another part go on.
AgentIsFair ==
  /\ WF_hostPartsVars(part = "agent" /\ Continuation /\ Others("agent"))
  /\ WF_hostPartsVars(part = "agent" /\ ~Due /\ WrapperEvent /\ Others("agent"))
  /\ WF_hostPartsVars(part = "agent" /\ signal[Game] = "SIGKILL" /\ ProgramEnds /\ Others("agent"))

HostPartsSpec == HostPartsInit /\ [][HostPartsNext]_hostPartsVars
FairHostPartsSpec == HostPartsSpec /\ AgentIsFair

\* Of the host agent: one player is let in and one owner answers for the game.
AgentOwnsPlay == part = "agent" => PlayIsOwned

\* A game that the host agent is stopping ends, unless the host exits first.
StoppedGamesEnd == part = "agent" => GameStopsInTheEnd

\* What was sent as a stream of bytes arrives whole however it is cut: an encoder's pictures, its
\* sound, and the messages of a client, none of which is refused while it keeps to the limit; and
\* of a link through the application's host neither end outlives the other.
TrafficIsWhole ==
  FrameArrivesWhole /\ SoundIsWhole /\ FramesArriveWhole /\ LimitIsFair /\ LinksEndTogether

\* What the host takes for held is what the player holds: keys, controllers and touches.
InputFollows == KeysFollow /\ PadsFollow

\* The tools of an operator leave nothing half done and claim nothing they have not seen: a key
\* stays with its certificate, a package is verified only if it was exercised, a release is complete only
\* on the evidence of a rollout; and a host carries out, accepts and shows only what its operator
\* allowed and its machine has.
ToolsAreSafe == PairIsSafe /\ ChecksAreHonest /\ EvidenceIsReal /\ HostComesUpHonest
=============================================================================
