----------------------------- MODULE Components -----------------------------
(***************************************************************************)
(* The components that share no state with each other, each on its small   *)
(* instance, side by side: a behaviour is one of the component chosen by   *)
(* part, and all others stay as they are before they start.                *)
(***************************************************************************)
EXTENDS MCLspMirror, MCRtpCheck, MCFcbSearch, MCGainSearch, MCGainRepair,
        MCSerialFile, MCRtpWeb, Loopback, LoadTest

VARIABLE part  \* the component that runs

Parts == {"line spectra", "rtp", "pulses", "gains", "repair", "serial", "web",
          "loopback", "load"}

\* A component that does not run has one state.
Idle ==
  /\ part # "line spectra" => breadth = CHOOSE b \in Breadths : TRUE
  /\ part # "pulses" => profile = CHOOSE p \in FcbProfiles : TRUE
  /\ part # "repair" => policy = Policies[CHOOSE p \in DOMAIN Policies : TRUE]
  /\ part # "load" => realtime

ComponentsInit ==
  /\ part \in Parts
  /\ LspInit /\ RtpInit /\ FcbInit /\ GainSearchInit /\ RepairInit
  /\ SerialInit /\ WebInit /\ LoopInit /\ LoadInit
  /\ Idle

LspPart ==
  /\ part = "line spectra" /\ LspNext
  /\ UNCHANGED <<part, rtpVars, fcbVars, gainSearchVars, repairVars, serialVars,
                 webVars, loopVars, loadVars>>

RtpPart ==
  /\ part = "rtp" /\ RtpNext
  /\ UNCHANGED <<part, lspVars, fcbVars, gainSearchVars, repairVars, serialVars,
                 webVars, loopVars, loadVars>>

FcbPart ==
  /\ part = "pulses" /\ FcbNext
  /\ UNCHANGED <<part, lspVars, rtpVars, gainSearchVars, repairVars, serialVars,
                 webVars, loopVars, loadVars>>

GainSearchPart ==
  /\ part = "gains" /\ GainSearchNext
  /\ UNCHANGED <<part, lspVars, rtpVars, fcbVars, repairVars, serialVars, webVars,
                 loopVars, loadVars>>

RepairPart ==
  /\ part = "repair" /\ RepairNext
  /\ UNCHANGED <<part, lspVars, rtpVars, fcbVars, gainSearchVars, serialVars,
                 webVars, loopVars, loadVars>>

SerialPart ==
  /\ part = "serial" /\ SerialNext
  /\ UNCHANGED <<part, lspVars, rtpVars, fcbVars, gainSearchVars, repairVars,
                 webVars, loopVars, loadVars>>

WebPart ==
  /\ part = "web" /\ WebNext
  /\ UNCHANGED <<part, lspVars, rtpVars, fcbVars, gainSearchVars, repairVars,
                 serialVars, loopVars, loadVars>>

LoopPart ==
  /\ part = "loopback" /\ LoopNext
  /\ UNCHANGED <<part, lspVars, rtpVars, fcbVars, gainSearchVars, repairVars,
                 serialVars, webVars, loadVars>>

LoadPart ==
  /\ part = "load" /\ LoadNext
  /\ UNCHANGED <<part, lspVars, rtpVars, fcbVars, gainSearchVars, repairVars,
                 serialVars, webVars, loopVars>>

ComponentsNext ==
  \/ LspPart \/ RtpPart \/ FcbPart \/ GainSearchPart \/ RepairPart
  \/ SerialPart \/ WebPart \/ LoopPart \/ LoadPart

allVars == <<part, lspVars, rtpVars, fcbVars, gainSearchVars, repairVars,
             serialVars, webVars, loopVars, loadVars>>

\* Goroutines of the load test go on until they are done; nothing else has to.
ComponentsSpec ==
  ComponentsInit /\ [][ComponentsNext]_allVars /\ WF_allVars(LoadPart)

\* Every load test ends with its report, paced or not (LoadTestEnds, where the
\* component that runs is the load test; main.go 58-97).
TheLoadTestEnds == part = "load" => LoadTestEnds
=============================================================================
