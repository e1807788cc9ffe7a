---------------------------- MODULE ModuleDetect ----------------------------
(***************************************************************************)
(* Module detection at probe time (base.c): wctdm_locate_modules walks   *)
(* the ports of the board and, for each, tries the ProSLIC (FXS) with    *)
(* automatic and then manual calibration, the VoiceDAA (FXO), the QRV    *)
(* radio card, and on ports x with x & 3 = 1 of a 4- or 8-port board     *)
(* retries once with the alternate chip select (goto retry).             *)
(* wctdm_post_initialize then sets each channel's signalling from what   *)
(* was found, and wctdm_init_one registers the span.                     *)
(*                                                                         *)
(* The code runs in the probing process alone (wctdm_isr_misc does       *)
(* nothing until wc->initialized), so a port's whole pass is one step.   *)
(* The board is the environment: hw[x] is the module plugged at port x,  *)
(* and wire[x] the frame byte at which that module listens.  A module    *)
(* answers only when CMD_BYTE(x, 0, altcs[x]) addresses that byte; what  *)
(* it answers to the sanity and calibration steps of the init functions  *)
(* is chosen from the results those functions can return.                *)
(***************************************************************************)
EXTENDS Integers, FiniteSets, Functions

CONSTANTS
    Ports,      \* wc->desc->ports: 4, 8 or 24
    WireKinds   \* board wirings: "normal" and/or "alt" (the TDM410 trickery)

NUM_CARDS == 24
NUM_EC == 4
EFRAME_SIZE == 108

PortSet == 0 .. Ports - 1

VARIABLES
    hw,        \* module plugged at each port (environment)
    wire,      \* frame byte each module listens on (environment)
    modtype,   \* wc->modtype
    altcs,     \* wc->altcs
    cardflag,  \* wc->cardflag, as the set of its bits
    sigcap,    \* wc->chans[x]->sigcap, abstracted to what it allows
    initfail,  \* ports whose module passed its sanity test and failed init
    det,       \* the port wctdm_locate_modules is at
    phase      \* "locate", "registered", or "failed" (dahdi_register failed)

detVars == <<hw, wire, modtype, altcs, cardflag, sigcap, initfail, det, phase>>

\* Mutant: card 3 is remapped onto card 4 like card 2.
CMD_BYTE_dup(card, bit, cs) ==
    LET r == CASE cs = 3 /\ card \in {2, 3} -> <<4, 0>>
               [] OTHER                       -> <<card, cs>>
    IN  ((r[1] % 4) * 3 + bit) * 7 + r[1] \div 4 + r[2] - (IF r[2] # 0 THEN 21 ELSE 0)

\* CMD_BYTE: the byte of the frame carrying command byte `bit` of `card`,
\* with the TDM410 remap of cards 2 and 3 when altcs is 3.
CMD_BYTE(card, bit, cs) ==
    LET r == CASE cs = 3 /\ card = 2 -> <<4, 0>>
               [] cs = 3 /\ card = 3 -> <<5, 2>>
               [] OTHER              -> <<card, cs>>
        c == r[1]
        a == r[2]
    IN  ((c % 4) * 3 + bit) * 7 + c \div 4 + a - (IF a # 0 THEN 21 ELSE 0)

\* The chip select wctdm_locate_modules ends with on a board whose modules
\* only answer on the alternate one.
AltCs(x) ==
    CASE Ports # 24 /\ x % 4 = 1              -> 2
      [] Ports = 4 /\ x \in {2, 3}            -> 3
      [] OTHER                                -> 0

Wiring(k) ==
    [x \in PortSet |-> CMD_BYTE(x, 0, IF k = "alt" THEN AltCs(x) ELSE 0)]

\* Boards: FXS, FXO or no module per port; a QRV card fills a quad and
\* has two channels, at its first two ports.
Base(x) == x - (x % 4)

QrvWellPlaced(h) ==
    \A x \in PortSet : h[x] = "qrv" =>
        /\ x % 4 < 2
        /\ \A y \in PortSet : Base(y) = Base(x) =>
              h[y] = IF y % 4 < 2 THEN "qrv" ELSE "none"

Boards == { h \in [PortSet -> {"fxs", "fxo", "qrv", "none"}] : QrvWellPlaced(h) }

\* What answers at port x under the current chip select.
Kind(x) == IF CMD_BYTE(x, 0, altcs[x]) = wire[x] THEN hw[x] ELSE "none"

\* The test `wc->modtype[card & 0xfc] == MOD_TYPE_QRV` that opens both
\* wctdm_init_proslic and wctdm_init_voicedaa.
QrvBase(x) == modtype[Base(x)] = "qrv"

\* wctdm_init_proslic: -2 when the quad is QRV or (unless sane) the
\* ProSLIC sanity test fails; otherwise the rest of the init may fail (-1).
ProslicResults(x, sane) ==
    IF QrvBase(x) \/ (~sane /\ Kind(x) # "fxs") THEN {-2} ELSE {0, -1}

\* wctdm_init_voicedaa, which is always entered with sane = 0.
DaaResults(x) ==
    IF QrvBase(x) \/ Kind(x) # "fxo" THEN {-2} ELSE {0, -1}

\* wctdm_init_qrvdri: the base port of a quad is written and read back;
\* the second port follows a QRV base; the others are not channels.
QrvResult(x) ==
    IF x % 4 = 0 THEN IF Kind(x) = "qrv" THEN 0 ELSE 1
    ELSE IF QrvBase(x) /\ x % 4 < 2 THEN 0 ELSE 1

\* The alternate chip select is tried once on x & 3 = 1 of a small board.
AltRetry(x) == Ports # 24 /\ x % 4 = 1 /\ altcs[x] = 0

Installed(x, t) ==
    /\ modtype' = [modtype EXCEPT ![x] = t]
    /\ cardflag' = cardflag \cup {x}
    /\ det' = det + 1
    /\ UNCHANGED <<altcs, sigcap>>

\* "FAILED FXS": no cardflag bit, the channel is marked broken.
FailedFxs(x) ==
    /\ sigcap' = [sigcap EXCEPT ![x] = "broken"]
    /\ det' = det + 1
    /\ UNCHANGED <<modtype, altcs, cardflag>>

\* "Not installed": the port gets its cardflag bit all the same.
NotInstalled(x) ==
    /\ modtype' = [modtype EXCEPT ![x] = "none"]
    /\ cardflag' = cardflag \cup {x}
    /\ det' = det + 1
    /\ UNCHANGED <<altcs, sigcap>>

\* Mutant: the retry switches port x only, not the two that follow.
Retry_no_remap(x) ==
    /\ altcs' = [altcs EXCEPT ![x] = 2]
    /\ modtype' = [modtype EXCEPT ![x] = "fxs"]
    /\ UNCHANGED <<cardflag, sigcap, det>>

\* Mutant: the retry never records the alternate chip select of port x.
Retry_no_altcs(x) ==
    /\ altcs' = [y \in DOMAIN altcs |->
                   IF Ports = 4 /\ y \in {x + 1, x + 2} THEN 3 ELSE altcs[y]]
    /\ modtype' = [modtype EXCEPT ![x] = "fxs"]
    /\ UNCHANGED <<cardflag, sigcap, det>>

\* The goto retry: altcs for x, and on a 4-port board the TDM410 remap
\* of the next two ports.
Retry(x) ==
    /\ altcs' = [y \in DOMAIN altcs |->
                   CASE y = x                              -> 2
                     [] Ports = 4 /\ y \in {x + 1, x + 2} -> 3
                     [] OTHER                              -> altcs[y]]
    /\ modtype' = [modtype EXCEPT ![x] = "fxs"]
    /\ UNCHANGED <<cardflag, sigcap, det>>

\* One pass of the body of the port loop of wctdm_locate_modules.
Probe ==
    /\ phase = "locate" /\ det < Ports
    /\ LET x == det IN
       \E auto \in ProslicResults(x, FALSE), manual \in ProslicResults(x, TRUE),
          daa \in DaaResults(x) :
          /\ CASE auto = 0                  -> Installed(x, "fxs")
               [] auto = -1 /\ manual = 0   -> Installed(x, "fxs")
               [] auto = -1                 -> FailedFxs(x)
               [] daa = 0                   -> Installed(x, "fxo")
               [] QrvResult(x) = 0          -> Installed(x, "qrv")
               [] AltRetry(x)               -> Retry(x)
               [] OTHER                     -> NotInstalled(x)
          /\ initfail' = IF -1 \in {auto, daa} THEN initfail \cup {x} ELSE initfail
    /\ UNCHANGED <<hw, wire, phase>>

\* wctdm_post_initialize: the signalling of a port with its cardflag bit
\* follows its module type (a "none" port keeps what wctdm_initialize
\* gave it); a port without one is cleared unless broken.
PostSigcap(x) ==
    IF x \in cardflag
    THEN IF modtype[x] \in {"fxs", "fxo", "qrv"} THEN modtype[x] ELSE sigcap[x]
    ELSE IF sigcap[x] = "broken" THEN "broken" ELSE "none"

\* The end of wctdm_init_one: post_initialize, then dahdi_register; on
\* success wc->initialized = 1, on failure init_one returns -1.
Register ==
    /\ phase = "locate" /\ det = Ports
    /\ sigcap' = [x \in PortSet |-> PostSigcap(x)]
    /\ phase' \in {"registered", "failed"}
    /\ UNCHANGED <<hw, wire, modtype, altcs, cardflag, initfail, det>>

\* wctdm_locate_modules after the reset loop: every port FXS, no altcs;
\* wctdm_initialize has given every channel both FXS and FXO signalling.
DetectInit ==
    /\ hw \in Boards
    /\ wire \in {Wiring(k) : k \in WireKinds}
    /\ modtype = [x \in PortSet |-> "fxs"]
    /\ altcs = [x \in PortSet |-> 0]
    /\ cardflag = {}
    /\ sigcap = [x \in PortSet |-> "all"]
    /\ initfail = {}
    /\ det = 0
    /\ phase = "locate"

DetectNext == Probe \/ Register

-----------------------------------------------------------------------------
DetectTypeOK ==
    /\ hw \in Boards
    /\ modtype \in [PortSet -> {"fxs", "fxo", "qrv", "none"}]
    /\ altcs \in [PortSet -> {0, 2, 3}]
    /\ cardflag \subseteq PortSet /\ initfail \subseteq PortSet
    /\ sigcap \in [PortSet -> {"all", "fxs", "fxo", "qrv", "broken", "none"}]
    /\ det \in 0 .. Ports
    /\ phase \in {"locate", "registered", "failed"}

\* Every port already walked by wctdm_locate_modules carries the type of
\* the module plugged there, and a plugged module whose init did not fail
\* is installed: the chip-select retry of one port neither hides nor
\* invents the modules of the others.
DetectedAsPlugged ==
    \A x \in 0 .. det - 1 :
        /\ modtype[x] \in {"fxs", "fxo", "qrv"} => modtype[x] = hw[x]
        /\ hw[x] # "none" /\ x \notin initfail =>
              modtype[x] = hw[x] /\ x \in cardflag

\* The command bytes CMD_BYTE gives the ports, under the chip selects
\* detection chose, and the VPM100 units never share a byte of the frame
\* and stay inside its command area: cmd_dequeue and cmd_decipher index
\* from writechunk + 24 (lines 594, 753), past the audio bytes of the 24
\* channels, so an offset must lie in 0 .. EFRAME_SIZE - 25.
CmdSlots == (PortSet \cup NUM_CARDS .. NUM_CARDS + NUM_EC - 1) \X (0 .. 2)

CmdOffset == [s \in CmdSlots |->
                 CMD_BYTE(s[1], s[2], IF s[1] < Ports THEN altcs[s[1]] ELSE 0)]

CmdByteDistinct ==
    /\ IsInjective(CmdOffset)
    /\ \A s \in CmdSlots : CmdOffset[s] \in 0 .. EFRAME_SIZE - NUM_CARDS - 1

\* Detection ends: the one retry per port cannot loop.
DetectDone == <>(phase # "locate")
=============================================================================
