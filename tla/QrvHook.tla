------------------------------- MODULE QrvHook -------------------------------
(***************************************************************************)
(* The receive side of a QRV radio module of the wctdm24xxp driver         *)
(* (src/linux/drivers/dahdi/wctdm24xxp/base.c): two radio channels, on     *)
(* cards qrvcard and qrvcard + 1, whose carrier (COR) and CTCSS (CT)       *)
(* inputs arrive as bits of the ISR shadow byte of qrvcard.                *)
(*                                                                         *)
(* wctdm_isr_misc calls wctdm_qrvdri_check_hook once for each of the two   *)
(* cards, every interrupt.  Each call decodes the bits of BOTH channels   *)
(* under their radio modes, restarts a channel's debounce when its decoded *)
(* state changes, and reports it with dahdi_hooksig when the debounce      *)
(* reaches 1; but each call only counts down qrvdebtime[card] and, on a    *)
(* report, clears qrvdebtime[card], whichever channel reported.  The      *)
(* DAHDI_RADIO_SETPARAM ioctl and wctdm_close change the radio modes and   *)
(* the debounce state from process context, between any two calls.        *)
(*                                                                         *)
(* Channel c of the model is card qrvcard + c; qrvhook[c] is the driver's *)
(* wc->qrvhook[qrvcard + 2 + c] (the last decoded receive state) and      *)
(* txhook[c] is wc->qrvhook[qrvcard + c] (the transmit key).              *)
(***************************************************************************)
EXTENDS Integers, FiniteSetsExt

CONSTANTS
    QRV_DEBOUNCETIME,   \* wctdm24xxp.h: 20, scaled down
    DebounceTimes,      \* values DAHDI_RADPAR_DEBOUNCETIME may set
    Params,             \* the RADPAR parameters the ioctl may set
    MaxInputs,          \* bound on changes of the radio inputs
    MaxIoctls,          \* bound on DAHDI_RADIO_SETPARAM / hooksig calls
    MaxCloses           \* bound on wctdm_close calls

ASSUME QRV_DEBOUNCETIME >= 2

Chans == {0, 1}

\* wctdm24xxp.h
RADMODE_INVERTCOR == 1
RADMODE_IGNORECOR == 2
RADMODE_EXTTONE   == 4
RADMODE_EXTINVERT == 8
RADMODE_IGNORECT  == 16

\* m & bit and m | bit, for a single bit of a mode.
BitAnd(m, bit) == IF (m \div bit) % 2 = 1 THEN bit ELSE 0
BitOr(m, bit)  == m + bit - BitAnd(m, bit)

RxSigs == {"NONE", "ONHOOK", "OFFHOOK"}

VARIABLES
    radmode,        \* wc->radmode[qrvcard + c]
    debouncetime,   \* wc->debouncetime[qrvcard + c]
    qrvdebtime,     \* wc->qrvdebtime[qrvcard + c]
    qrvhook,        \* decoded receive state, -1 for 0xff (none yet)
    txhook,         \* transmit key of channel c
    sethook,        \* wc->sethook[qrvcard]: key register write, or -1
    keyreg,         \* register 3 of the module, as last written
    raw,            \* COR and CT input bits of isrshadow[0]
    rxsig,          \* what dahdi_hooksig last reported for channel c
    card,           \* the next call of the wctdm_isr_misc loop
    closing,        \* progress of a wctdm_close, see Close
    hold,           \* consecutive calls that decoded the same state
    budget

vars == <<radmode, debouncetime, qrvdebtime, qrvhook, txhook, sethook,
          keyreg, raw, rxsig, card, closing, hold, budget>>

-----------------------------------------------------------------------------
(* Decoding the inputs (base.c, wctdm_qrvdri_check_hook).                   *)

\* A COR bit after b &= ~bit (ignored) or b ^= bit (not inverted).
CorBit(c, ignore, invert) ==
    IF ignore THEN 0 ELSE IF ~invert THEN 1 - raw[c].cor ELSE raw[c].cor

\* The CT bit: ignored, or external tone off, clears it.
CtBit(c) ==
    LET m == radmode[c]
    IN IF BitAnd(m, RADMODE_IGNORECT) # 0 \/ BitAnd(m, RADMODE_EXTTONE) = 0 THEN 0
       ELSE IF BitAnd(m, RADMODE_EXTINVERT) = 0 THEN 1 - raw[c].ct
       ELSE raw[c].ct

\* The tests of the code: channel 0 masks its mode with &, channel 1
\* ORs it (radmode[qrvcard + 1] | RADMODE_IGNORECOR), which is never zero.
Ignored(c) ==
    IF c = 0 THEN BitAnd(radmode[0], RADMODE_IGNORECOR) # 0
             ELSE BitOr(radmode[1], RADMODE_IGNORECOR) # 0
Inverted(c) ==
    IF c = 0 THEN BitAnd(radmode[0], RADMODE_INVERTCOR) # 0
             ELSE BitOr(radmode[1], RADMODE_INVERTCOR) # 0

\* !(b & 0xc) and !(b & 0xc0): 1 when the channel is active.
Active(c) ==
    IF CorBit(c, Ignored(c), Inverted(c)) = 0 /\ CtBit(c) = 0 THEN 1 ELSE 0

\* hold counts at most this far: past every debounce.
HoldCap == 2 * Max(DebounceTimes \cup {QRV_DEBOUNCETIME})

Sig(h) == IF h = 1 THEN "OFFHOOK" ELSE "ONHOOK"

\* The debounce a detected change of channel c starts.
DebounceOf(c) == IF c = 0 THEN debouncetime[0] ELSE QRV_DEBOUNCETIME

\* One channel's part of a call for `crd`: s holds deb (qrvdebtime),
\* hook (qrvhook) and rx (rxsig).
Stage(s, c, crd) ==
    LET chg   == Active(c) # s.hook[c]
        deb1  == IF chg THEN [s.deb EXCEPT ![c] = DebounceOf(c)] ELSE s.deb
        hook1 == IF chg THEN [s.hook EXCEPT ![c] = Active(c)] ELSE s.hook
        fire  == deb1[c] = 1
    IN [deb  |-> IF fire THEN [deb1 EXCEPT ![crd] = 0] ELSE deb1,
        hook |-> hook1,
        rx   |-> IF fire THEN [s.rx EXCEPT ![c] = Sig(hook1[c])] ELSE s.rx]

\* Mutant: the count-down is not guarded (the unsigned short wraps).
CountDown_unguarded(d, crd) == [d EXCEPT ![crd] = @ - 1]

\* Mutant: every call counts down both channels' debounce.
CountDown_both(d, crd) == [c \in Chans |-> IF d[c] >= 2 THEN d[c] - 1 ELSE d[c]]

\* if (wc->qrvdebtime[card] >= 2) wc->qrvdebtime[card]--;
CountDown(d, crd) == [d EXCEPT ![crd] = IF @ >= 2 THEN @ - 1 ELSE @]

\* The key register value of wctdm_hooksig and wctdm_close.
KeyReg(tx) == (IF tx[0] = 0 THEN 1 ELSE 0) + (IF tx[1] = 0 THEN 16 ELSE 0)

-----------------------------------------------------------------------------
(* The interrupt.                                                          *)

\* One call of wctdm_qrvdri_check_hook for card `card`, after, on the call
\* for qrvcard, cmd_checkisr of handle_transmit has moved wc->sethook into
\* slot 0 of qrvcard and cmd_dequeue has sent it in frame 0.  cmd_checkisr
\* for qrvcard + 1 then overwrites that slot with CMD_RD(3) (line 796), so
\* the write goes out once and is never retransmitted; this module takes
\* the bus to be reliable, so the one transmission reaches register 3.
CheckHook ==
    LET s0 == [deb |-> CountDown(qrvdebtime, card), hook |-> qrvhook,
               rx |-> rxsig]
        s2 == Stage(Stage(s0, 0, card), 1, card)
    IN /\ qrvdebtime' = s2.deb
       /\ qrvhook' = s2.hook
       /\ rxsig' = s2.rx
       /\ hold' = [c \in Chans |->
                     IF Active(c) = qrvhook[c] THEN Min({hold[c] + 1, HoldCap})
                     ELSE 1]
       /\ IF card = 0 /\ sethook # -1
          THEN keyreg' = sethook /\ sethook' = -1
          ELSE UNCHANGED <<keyreg, sethook>>
       /\ card' = 1 - card
       /\ UNCHANGED <<radmode, debouncetime, txhook, raw, closing, budget>>

-----------------------------------------------------------------------------
(* Process context.                                                        *)

\* The receiver's inputs change (between two interrupts: the shadow byte
\* is written by wctdm_receiveprep, not during the isr_misc loop).
Input ==
    /\ card = 0 /\ budget.in < MaxInputs
    /\ \E c \in Chans, cor, ct \in {0, 1} :
          /\ raw' = [raw EXCEPT ![c] = [cor |-> cor, ct |-> ct]]
          /\ raw' # raw
    /\ budget' = [budget EXCEPT !.in = @ + 1]
    /\ UNCHANGED <<radmode, debouncetime, qrvdebtime, qrvhook, txhook,
                   sethook, keyreg, rxsig, card, closing, hold>>

\* Set or clear a bit of a mode.
Flag(m, bit, on) == IF on THEN BitOr(m, bit) ELSE m - BitAnd(m, bit)

\* DAHDI_RADIO_SETPARAM for channel c.
SetParam(c, par, data) ==
    /\ budget.io < MaxIoctls
    /\ budget' = [budget EXCEPT !.io = @ + 1]
    /\ CASE par = "INVERTCOR" ->
              radmode' = [radmode EXCEPT ![c] =
                            Flag(@, RADMODE_INVERTCOR, data # 0)]
         [] par = "IGNORECOR" ->
              radmode' = [radmode EXCEPT ![c] =
                            Flag(@, RADMODE_IGNORECOR, data # 0)]
         [] par = "IGNORECT" ->
              radmode' = [radmode EXCEPT ![c] =
                            Flag(@, RADMODE_IGNORECT, data # 0)]
         [] par = "EXTRXTONE" ->
              radmode' = [radmode EXCEPT ![c] =
                  Flag(Flag(@, RADMODE_EXTTONE, data # 0),
                       RADMODE_EXTINVERT, data > 1)]
    /\ UNCHANGED debouncetime

SetDebounce(c, data) ==
    /\ budget.io < MaxIoctls
    /\ budget' = [budget EXCEPT !.io = @ + 1]
    /\ debouncetime' = [debouncetime EXCEPT ![c] = data]
    /\ UNCHANGED radmode

Ioctl ==
    /\ \E c \in Chans :
          \/ \E par \in Params \ {"DEBOUNCETIME"}, data \in 0 .. 2 :
                SetParam(c, par, data)
          \/ "DEBOUNCETIME" \in Params /\ \E d \in DebounceTimes :
                SetDebounce(c, d)
    /\ UNCHANGED <<qrvdebtime, qrvhook, txhook, sethook, keyreg, raw, rxsig,
                   card, closing, hold>>

\* wctdm_hooksig for a QRV channel: key or unkey the transmitter.
Hooksig(c, on) ==
    /\ budget.io < MaxIoctls
    /\ budget' = [budget EXCEPT !.io = @ + 1]
    /\ txhook' = [txhook EXCEPT ![c] = on]
    /\ sethook' = KeyReg(txhook')
    /\ UNCHANGED <<radmode, debouncetime, qrvdebtime, qrvhook, keyreg, raw,
                   rxsig, card, closing, hold>>

\* wctdm_close runs without a lock, one card after the other, and the
\* interrupt may run between any two of its stores.  closing is 0 outside a
\* close, 2c + 1 once card qrvcard + c has had lines 3065-3066 done, and
\* 2c + 2 (mod 4) once it has had lines 3067-3077 done.

\* Lines 3065-3066 for card qrvcard + c: transmit unkeyed, receive state
\* forgotten (0xff).
CloseRx(c) ==
    /\ closing = 2 * c
    /\ txhook' = [txhook EXCEPT ![c] = 0]
    /\ qrvhook' = [qrvhook EXCEPT ![c] = -1]
    /\ closing' = 2 * c + 1
    /\ UNCHANGED <<radmode, debouncetime, qrvdebtime, sethook, keyreg, raw,
                   rxsig, card, hold>>

\* Lines 3067-3077: debounce and radio mode back to the defaults, the key
\* register write posted in wc->sethook[qrvcard].
CloseReset(c) ==
    /\ closing = 2 * c + 1
    /\ debouncetime' = [debouncetime EXCEPT ![c] = QRV_DEBOUNCETIME]
    /\ qrvdebtime' = [qrvdebtime EXCEPT ![c] = 0]
    /\ radmode' = [radmode EXCEPT ![c] = 0]
    /\ sethook' = KeyReg(txhook)
    /\ closing' = (2 * c + 2) % 4
    /\ UNCHANGED <<qrvhook, txhook, keyreg, raw, rxsig, card, hold, budget>>

\* A close starts with card qrvcard; a started close goes on.
Close ==
    \/ /\ closing = 0 /\ budget.close < MaxCloses
       /\ budget' = [budget EXCEPT !.close = @ + 1]
       /\ CloseRx(0)
    \/ closing = 2 /\ CloseRx(1) /\ UNCHANGED budget
    \/ \E c \in Chans : CloseReset(c)

-----------------------------------------------------------------------------
\* wctdm_init_qrvdri, at the base card of the module.
Init ==
    /\ radmode = [c \in Chans |-> 0]
    /\ debouncetime = [c \in Chans |-> QRV_DEBOUNCETIME]
    /\ qrvdebtime = [c \in Chans |-> 0]
    /\ qrvhook = [c \in Chans |-> -1]
    /\ txhook = [c \in Chans |-> 0]
    /\ sethook = -1 /\ keyreg = KeyReg(txhook)
    /\ raw \in [Chans -> [cor : {0, 1}, ct : {0, 1}]]
    /\ rxsig = [c \in Chans |-> "NONE"]
    /\ card = 0 /\ closing = 0
    /\ hold = [c \in Chans |-> 0]
    /\ budget = [in |-> 0, io |-> 0, close |-> 0]

Next ==
    \/ CheckHook \/ Input \/ Ioctl \/ Close
    \/ \E c \in Chans, on \in {0, 1} : Hooksig(c, on)

\* The interrupt runs every millisecond while the board runs; a close
\* that has started runs to its end.
Spec == Init /\ [][Next]_vars /\ WF_vars(CheckHook)
        /\ WF_vars(closing # 0 /\ Close)
-----------------------------------------------------------------------------
TypeOK ==
    /\ radmode \in [Chans -> 0 .. 31]
    /\ debouncetime \in [Chans -> DebounceTimes \cup {QRV_DEBOUNCETIME}]
    /\ qrvdebtime \in [Chans -> 0 .. Max(DebounceTimes \cup {QRV_DEBOUNCETIME})]
    /\ qrvhook \in [Chans -> {-1, 0, 1}]
    /\ txhook \in [Chans -> {0, 1}]
    /\ sethook \in {-1, 0, 1, 16, 17} /\ keyreg \in {0, 1, 16, 17}
    /\ raw \in [Chans -> [cor : {0, 1}, ct : {0, 1}]]
    /\ rxsig \in [Chans -> RxSigs]
    /\ card \in Chans /\ closing \in 0 .. 3
    /\ hold \in [Chans -> 0 .. HoldCap]

\* The smallest debounce a detected change of channel c can start.
MinDebounce(c) ==
    IF c = 0 THEN Min(DebounceTimes \cup {QRV_DEBOUNCETIME}) ELSE QRV_DEBOUNCETIME

\* The receive debounce of wctdm_qrvdri_check_hook: dahdi_hooksig reports
\* a new receive state of a channel only after its inputs, decoded under
\* the radio modes, have given that state on every check_hook call of the
\* last MinDebounce - 1 interrupts (two calls each, one per card): a
\* shorter carrier glitch never reaches dahdi-base.
QrvDebounced ==
    [][\A c \in Chans :
         rxsig'[c] # rxsig[c] => hold'[c] >= 2 * (MinDebounce(c) - 1)]_vars

\* The debounce ends: once the inputs, radio modes and debounce times stop
\* changing, each channel eventually reports, and keeps, the state its
\* inputs decode to.
HookReported ==
    \A c \in Chans : <>[](rxsig[c] = Sig(Active(c)))

\* The state the RADPAR parameters define for channel c (DAHDI_RADIO_
\* SETPARAM stores them per channel): the COR input counts unless
\* IGNORECOR is set, inverted by INVERTCOR; CT as for Active.
RefActive(c) ==
    IF /\ CorBit(c, BitAnd(radmode[c], RADMODE_IGNORECOR) # 0,
                     BitAnd(radmode[c], RADMODE_INVERTCOR) # 0) = 0
       /\ CtBit(c) = 0
    THEN 1 ELSE 0

\* Each channel eventually reports the receive state its own radio
\* parameters and inputs define: for channel 1 the COR input and the
\* IGNORECOR and INVERTCOR settings are honoured as for channel 0.
CarrierHonoured ==
    \A c \in Chans : <>[](rxsig[c] = Sig(RefActive(c)))
=============================================================================
