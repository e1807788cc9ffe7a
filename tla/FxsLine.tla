------------------------------- MODULE FxsLine -------------------------------
(***************************************************************************)
(* The FXS line state of the wctdm24xxp driver for one FXS module.        *)
(*                                                                         *)
(* fxs->lasttxhook is the linefeed state the driver has asked the ProSLIC *)
(* for (register 64, LINE_STATE), with SLIC_LF_OPPENDING set until the    *)
(* interrupt has read the register back and found the request applied.   *)
(* Three contexts write it:                                               *)
(*  - wctdm_hooksig (FXS branch), called by dahdi-base, under             *)
(*    lasttxhooklock, without waiting for a pending request;              *)
(*  - the ioctls DAHDI_SETPOLARITY, DAHDI_VMWI, DAHDI_VMWI_CONFIG and     *)
(*    DAHDI_ONHOOKTRANSFER, which read lasttxhook, then wait in           *)
(*    set_lasttxhook_interruptible (msleep(1), up to 100 times) for       *)
(*    OPPENDING to clear before writing;                                   *)
(*  - the 1 ms interrupt (handle_transmit): cmd_checkisr sends the         *)
(*    pending wc->sethook write in ISR slot 0 (else reads the hook state,  *)
(*    register 68) and reads LINE_STATE in ISR slot 1; wctdm_isr_misc_fxs *)
(*    debounces the hook, runs wctdm_proslic_recheck_sanity (which clears *)
(*    OPPENDING, or resets the line after a power alarm) while            *)
(*    (intcount & 0xfc) == 0, and runs the on-hook-transfer timer.        *)
(* A Tick is one handle_transmit; the ISR-slot replies are taken to        *)
(* arrive within the same millisecond.                                    *)
(***************************************************************************)
EXTENDS Integers, Sequences, Bitwise

CONSTANTS
    reversepolarity,  \* module parameter
    SIG,              \* chan->sig: "FXOKS", "FXOLS", "FXOGS" or "EM"
    OHT_TIMER,        \* wctdm24xxp.h (6000 ms), scaled down
    OhtSettings,      \* values passed to DAHDI_ONHOOKTRANSFER (ms)
    INTCOUNT_WRAP,    \* wc->intcount is kept modulo this
    RECHECK_MASK,     \* recheck_sanity runs while (intcount & mask) == 0
    PALARM_PERIOD,    \* palarms decays when intcount % period == 0
    MAX_ALARMS,       \* wctdm24xxp.h
    MaxPalarms,       \* bound on fxs->palarms, an int, see PalarmsBound
    SETTLE_TRIES,     \* set_lasttxhook_interruptible gives up after this
    RegopValues,      \* values WCTDM_SET_REG writes to LINE_STATE
    MaxTxsig, MaxIoctls, MaxPowerAlarms, MaxHookChanges

DAHDI_CHUNKSIZE == 8

\* Linefeed values of the ProSLIC register 64 (proslic.h).
SLIC_LF_OPEN       == 0
SLIC_LF_ACTIVE_FWD == 1
SLIC_LF_OHTRAN_FWD == 2
SLIC_LF_TIP_OPEN   == 3
SLIC_LF_RINGING    == 4
SLIC_LF_ACTIVE_REV == 5
SLIC_LF_OHTRAN_REV == 6
SLIC_LF_RING_OPEN  == 7
SLIC_LF_SETMASK    == 7
SLIC_LF_REVMASK    == 4
SLIC_LF_OPPENDING  == 16

\* x & ~m
ClearBits(x, m) == x - (x & m)

LineStates == 0 .. SLIC_LF_SETMASK
TxHookValues == 0 .. SLIC_LF_OPPENDING + 15
NoHook == -1                \* wc->sethook[card] == 0: nothing to send
TxSigs == {"ONHOOK", "OFFHOOK", "START", "KEWL"}

VARIABLES
    fxs,        \* wc->mods[card].fxs
    sethook,    \* wc->sethook[card]: the LINE_STATE value to send, or NoHook
    hw,         \* the ProSLIC's linefeed register
    shadow,     \* wc->cmdq[card].isrshadow: [hook |-> reg 68 bit 0, lf |-> reg 64]
    intcount,   \* wc->intcount
    linehook,   \* the phone: 1 when off hook
    rxsig,      \* what dahdi_hooksig last reported: "ONHOOK" or "OFFHOOK"
    io,         \* the ioctl thread: [pc, x, tries, slept]
    hookRun,    \* history: [hook, n]: the last hook sample and how many interrupts
                \* in a row (up to HookWin) sampled it
    budget,     \* bounds on environment steps
    dropped,    \* history: a set_lasttxhook_interruptible call gave up
    userwr      \* LINE_STATE writes waiting in user command slots, in slot order

vars == <<fxs, sethook, hw, shadow, intcount, linehook, rxsig, io, hookRun,
          budget, dropped, userwr>>

\* POLARITY_XOR(card), wctdm24xxp.h
PolarityXor(f) ==
    (reversepolarity # 0) # ((f.reversepolarity # 0) # (f.vmwi_linereverse # 0))

ActiveState(f) == IF PolarityXor(f) THEN SLIC_LF_ACTIVE_REV ELSE SLIC_LF_ACTIVE_FWD
OhtState(f)    == IF PolarityXor(f) THEN SLIC_LF_OHTRAN_REV ELSE SLIC_LF_OHTRAN_FWD

\* v & SLIC_LF_OPPENDING and v & SLIC_LF_SETMASK, for the values of
\* lasttxhook (OPPENDING is the highest bit it carries).
Pending(v) == v >= SLIC_LF_OPPENDING
SetOf(v)   == v % (SLIC_LF_SETMASK + 1)

\* The state wctdm_init_proslic leaves: idle and linefeed forward (or
\* reverse with the reversepolarity parameter), everything else zero.
FxsInit ==
    LET idle == IF reversepolarity # 0 THEN SLIC_LF_ACTIVE_REV ELSE SLIC_LF_ACTIVE_FWD
    IN [lasttxhook |-> idle, idletxhookstate |-> idle, reversepolarity |-> 0,
        vmwi_linereverse |-> 0, vmwi_active_messages |-> 0, vmwi_lrev |-> FALSE,
        ohttimer |-> 0, palarms |-> 0, debounce |-> 0, lastrxhook |-> 0,
        debouncehook |-> 0, oldrxhook |-> 0]

HOOK_DEBOUNCE == 8 * (4 * 8)
HookWin == HOOK_DEBOUNCE \div (4 * DAHDI_CHUNKSIZE) + 1

(***************************************************************************)
(* wctdm_hooksig, FXS branch: the new linefeed for the transmit signal,   *)
(* marked pending and queued in wc->sethook, whatever was pending before. *)
(***************************************************************************)
HooksigState(f, txsig) ==
    SLIC_LF_OPPENDING |
      CASE txsig = "ONHOOK" /\ SIG = "FXOGS" ->
             IF PolarityXor(f) THEN SLIC_LF_RING_OPEN ELSE SLIC_LF_TIP_OPEN
        [] txsig = "OFFHOOK" /\ SIG = "EM" ->
             IF PolarityXor(f) THEN SLIC_LF_ACTIVE_FWD ELSE SLIC_LF_ACTIVE_REV
        [] txsig \in {"ONHOOK", "OFFHOOK"} -> f.idletxhookstate
        [] txsig = "START" -> SLIC_LF_RINGING
        [] txsig = "KEWL"  -> SLIC_LF_OPEN

Hooksig(txsig) ==
    LET v == HooksigState(fxs, txsig) IN
    /\ budget.tx < MaxTxsig
    /\ fxs' = [fxs EXCEPT !.lasttxhook = v]
    /\ sethook' = v
    /\ budget' = [budget EXCEPT !.tx = @ + 1]
    /\ UNCHANGED <<hw, shadow, intcount, linehook, rxsig, io, hookRun, dropped, userwr>>

(***************************************************************************)
(* The interrupt.  Each stage maps a record [f, sethook, rxsig, lf] (lf   *)
(* being isrshadow[1]) to the next one.                                   *)
(***************************************************************************)

\* wctdm_fxs_off_hook / wctdm_fxs_on_hook: report the debounced hook;
\* going off hook during ringing or on-hook transfer makes the idle state
\* active again.
OffHook(r) ==
    [r EXCEPT !.f.idletxhookstate =
                 IF r.f.lasttxhook \in {SLIC_LF_RINGING, SLIC_LF_OHTRAN_FWD,
                                        SLIC_LF_OHTRAN_REV}
                 THEN ActiveState(r.f) ELSE @,
              !.f.oldrxhook = 1,
              !.rxsig = "OFFHOOK"]

OnHook(r) == [r EXCEPT !.f.oldrxhook = 0, !.rxsig = "ONHOOK"]

\* Mutant: the debounce is one check short.
ProslicCheckHook_short(r, hook) ==
    LET f == r.f IN
    IF hook # f.lastrxhook
    THEN [r EXCEPT !.f.debounce = HOOK_DEBOUNCE - 4 * DAHDI_CHUNKSIZE, !.f.lastrxhook = hook]
    ELSE IF f.debounce > 0
    THEN LET d  == f.debounce - 4 * DAHDI_CHUNKSIZE
             r1 == [r EXCEPT !.f.debounce = d,
                             !.f.debouncehook = IF d = 0 THEN hook ELSE @]
         IN CASE r1.f.oldrxhook = 0 /\ r1.f.debouncehook = 1 -> OffHook(r1)
              [] r1.f.oldrxhook = 1 /\ r1.f.debouncehook = 0 -> OnHook(r1)
              [] OTHER -> r1
    ELSE r

\* wctdm_proslic_check_hook: a change of the hook bit restarts the
\* debounce; HOOK_DEBOUNCE / (4 * DAHDI_CHUNKSIZE) checks later it counts.
ProslicCheckHook(r, hook) ==
    LET f == r.f IN
    IF hook # f.lastrxhook
    THEN [r EXCEPT !.f.debounce = HOOK_DEBOUNCE, !.f.lastrxhook = hook]
    ELSE IF f.debounce > 0
    THEN LET d  == f.debounce - 4 * DAHDI_CHUNKSIZE
             r1 == [r EXCEPT !.f.debounce = d,
                             !.f.debouncehook = IF d = 0 THEN hook ELSE @]
         IN CASE r1.f.oldrxhook = 0 /\ r1.f.debouncehook = 1 -> OffHook(r1)
              [] r1.f.oldrxhook = 1 /\ r1.f.debouncehook = 0 -> OnHook(r1)
              [] OTHER -> r1
    ELSE r

\* wctdm_proslic_recheck_sanity: a read-back equal to the pending request
\* clears OPPENDING; a register that reads zero while nothing is pending
\* and the line should not be open is a power alarm, answered (at most
\* MAX_ALARMS - 1 times in a row) by sending the line state again.
\* palarms goes on counting past MAX_ALARMS, so it takes that many more
\* decays before a reset is sent again.
ProslicRecheckSanity(r) ==
    LET f  == r.f
        lt == IF (SetOf(r.lf) | SLIC_LF_OPPENDING) = f.lasttxhook
              THEN SetOf(f.lasttxhook) ELSE f.lasttxhook
        alarm == r.lf = 0 /\ ~Pending(lt) /\ lt # 0
        pa == IF alarm THEN f.palarms + 1 ELSE f.palarms
        reset == alarm /\ pa < MAX_ALARMS
        lt2 == SLIC_LF_OPPENDING |
                 (IF lt = SLIC_LF_RINGING THEN ActiveState(f) ELSE lt)
    IN IF reset
       THEN [r EXCEPT !.f.lasttxhook = lt2, !.f.palarms = pa,
                      !.sethook = lt2, !.lf = lt2]
       ELSE [r EXCEPT !.f.lasttxhook = lt, !.f.palarms = pa]

\* Mutant: the timer is decremented without checking that it runs.
OnHookTransferTimer_no_guard(r) ==
    LET f == r.f IN
    IF f.lasttxhook = SLIC_LF_RINGING
    THEN [r EXCEPT !.f.ohttimer = OHT_TIMER * 8, !.f.idletxhookstate = OhtState(f)]
    ELSE IF f.ohttimer - DAHDI_CHUNKSIZE # 0
    THEN [r EXCEPT !.f.ohttimer = @ - DAHDI_CHUNKSIZE]
    ELSE LET lt == CASE f.lasttxhook = SLIC_LF_OHTRAN_FWD ->
                          SLIC_LF_OPPENDING | SLIC_LF_ACTIVE_FWD
                     [] f.lasttxhook = SLIC_LF_OHTRAN_REV ->
                          SLIC_LF_OPPENDING | SLIC_LF_ACTIVE_REV
                     [] OTHER -> f.lasttxhook
         IN [r EXCEPT !.f.ohttimer = 0, !.f.idletxhookstate = ActiveState(f),
                      !.f.lasttxhook = lt,
                      !.sethook = IF lt # f.lasttxhook THEN lt ELSE @]

\* The on-hook-transfer timer of wctdm_isr_misc_fxs: ringing arms it and
\* makes the idle state OHT; when it runs out the idle state is active
\* again, and a line still in OHT is switched to active.
OnHookTransferTimer(r) ==
    LET f == r.f IN
    IF f.lasttxhook = SLIC_LF_RINGING
    THEN [r EXCEPT !.f.ohttimer = OHT_TIMER * 8, !.f.idletxhookstate = OhtState(f)]
    ELSE IF f.ohttimer = 0 THEN r
    ELSE IF f.ohttimer - DAHDI_CHUNKSIZE # 0
    THEN [r EXCEPT !.f.ohttimer = @ - DAHDI_CHUNKSIZE]
    ELSE LET lt == CASE f.lasttxhook = SLIC_LF_OHTRAN_FWD ->
                          SLIC_LF_OPPENDING | SLIC_LF_ACTIVE_FWD
                     [] f.lasttxhook = SLIC_LF_OHTRAN_REV ->
                          SLIC_LF_OPPENDING | SLIC_LF_ACTIVE_REV
                     [] OTHER -> f.lasttxhook
         IN [r EXCEPT !.f.ohttimer = 0, !.f.idletxhookstate = ActiveState(f),
                      !.f.lasttxhook = lt,
                      !.sethook = IF lt # f.lasttxhook THEN lt ELSE @]

\* handle_transmit: cmd_checkisr (slot 0 sends wc->sethook, else reads the
\* hook bit; slot 1 reads LINE_STATE), wctdm_isr_misc_fxs, intcount++.
\* A slot whose previous command has not been answered yet (busy0, busy1)
\* is left alone, and its isrshadow byte keeps the older reading.  A write
\* in a user slot goes first (cmd_dequeue takes the lowest slot), and the
\* ISR slots wait for a later frame.
Tick(busy0, busy1) ==
    LET user == userwr # <<>>
        sent == sethook # NoHook /\ ~busy0 /\ ~user
        hw1  == IF user THEN Head(userwr) ELSE IF sent THEN SetOf(sethook) ELSE hw
        hook == IF busy0 \/ sent \/ user THEN shadow.hook ELSE linehook
        f0   == IF intcount % PALARM_PERIOD = 0 /\ fxs.palarms > 0
                THEN [fxs EXCEPT !.palarms = @ - 1] ELSE fxs
        r0 == [f |-> f0, sethook |-> IF sent THEN NoHook ELSE sethook,
               rxsig |-> rxsig, lf |-> IF busy1 \/ user THEN shadow.lf ELSE hw1]
        r1 == ProslicCheckHook(r0, hook)
        r2 == IF (intcount & RECHECK_MASK) = 0 THEN ProslicRecheckSanity(r1) ELSE r1
        r3 == OnHookTransferTimer(r2)
    IN
    /\ fxs' = r3.f
    /\ sethook' = r3.sethook
    /\ hw' = hw1
    /\ shadow' = [hook |-> hook, lf |-> r3.lf]
    /\ rxsig' = r3.rxsig
    /\ intcount' = (intcount + 1) % INTCOUNT_WRAP
    /\ io' = [io EXCEPT !.slept = TRUE]
    /\ userwr' = IF user THEN Tail(userwr) ELSE userwr
    /\ hookRun' = IF hook = hookRun.hook
                  THEN [hookRun EXCEPT !.n = IF @ < HookWin THEN @ + 1 ELSE @]
                  ELSE [hook |-> hook, n |-> 1]
    /\ UNCHANGED <<linehook, budget, dropped>>

(***************************************************************************)
(* The ioctl thread.  An ioctl reads lasttxhook, decides, and then calls  *)
(* set_lasttxhook_interruptible with the value it computed; io.x is that *)
(* value and io.pc = "wait" the loop of that function.                    *)
(***************************************************************************)
Busy(f) == SetOf(f.lasttxhook) \in {SLIC_LF_RINGING, SLIC_LF_OPEN}

\* Set or clear the reverse bit of the idle state and, unless the line is
\* ringing or open (or: unconditionally, for DAHDI_SETPOLARITY, which has
\* returned -EINVAL before), set it on the line too.
Reverse(f, setbit, guarded) ==
    LET rev == PolarityXor(f)
        f1 == [f EXCEPT !.idletxhookstate =
                   IF rev THEN (@ | (setbit | SLIC_LF_REVMASK))
                   ELSE ClearBits(@, SLIC_LF_REVMASK)]
        x  == IF rev THEN f.lasttxhook | SLIC_LF_REVMASK
              ELSE ClearBits(f.lasttxhook, SLIC_LF_REVMASK)
    IN /\ fxs' = f1
       /\ io' = IF guarded /\ Busy(f)
                THEN io
                ELSE [pc |-> "wait", x |-> x, tries |-> 0, slept |-> FALSE]

StartIoctl ==
    /\ io.pc = "idle"
    /\ budget.io < MaxIoctls
    /\ budget' = [budget EXCEPT !.io = @ + 1]

\* DAHDI_SETPOLARITY
SetPolarity(x) ==
    /\ StartIoctl
    /\ ~Busy(fxs)
    /\ Reverse([fxs EXCEPT !.reversepolarity = x], 0, FALSE)
    /\ UNCHANGED <<sethook, hw, shadow, intcount, linehook, rxsig, hookRun, dropped, userwr>>

\* set_vmwi: line reversal when messages wait and the LREV type is set.
SetVmwi(f) ==
    LET f1 == [f EXCEPT !.vmwi_linereverse =
                   IF f.vmwi_active_messages > 0 /\ f.vmwi_lrev THEN 1 ELSE 0]
    IN Reverse(f1, SLIC_LF_OPPENDING, TRUE)

\* DAHDI_VMWI with a message count, DAHDI_VMWI_CONFIG with a type.
Vmwi(n) ==
    /\ StartIoctl
    /\ SetVmwi([fxs EXCEPT !.vmwi_active_messages = n])
    /\ UNCHANGED <<sethook, hw, shadow, intcount, linehook, rxsig, hookRun, dropped, userwr>>

VmwiConfig(lrev) ==
    /\ StartIoctl
    /\ SetVmwi([fxs EXCEPT !.vmwi_lrev = lrev])
    /\ UNCHANGED <<sethook, hw, shadow, intcount, linehook, rxsig, hookRun, dropped, userwr>>

\* DAHDI_ONHOOKTRANSFER: arm the timer, idle active; an active line is put
\* into on-hook transfer.
OnHookTransfer(ms) ==
    LET f1 == [fxs EXCEPT !.ohttimer = ms * 8, !.idletxhookstate = ActiveState(fxs)]
    IN
    /\ StartIoctl
    /\ fxs' = f1
    /\ io' = IF SetOf(fxs.lasttxhook) \in {SLIC_LF_ACTIVE_FWD, SLIC_LF_ACTIVE_REV}
             THEN [pc |-> "wait", x |-> OhtState(fxs), tries |-> 0, slept |-> FALSE]
             ELSE io
    /\ UNCHANGED <<sethook, hw, shadow, intcount, linehook, rxsig, hookRun, dropped, userwr>>

\* WCTDM_SET_REG of LINE_STATE: lasttxhook becomes the value masked with
\* 0x0f and marked pending, and wctdm_setreg queues the register write in
\* a user slot and returns (wctdm_setreg_full, lines 890-904): it sleeps
\* only while every slot is full, which a few queued writes never reach.
SetReg(val) ==
    /\ StartIoctl
    /\ fxs' = [fxs EXCEPT !.lasttxhook = (val % 16) | SLIC_LF_OPPENDING]
    /\ userwr' = Append(userwr, val % (SLIC_LF_SETMASK + 1))
    /\ UNCHANGED <<io, sethook, hw, shadow, intcount, linehook, rxsig, hookRun, dropped>>

\* One pass of the loop of set_lasttxhook_interruptible, after at least
\* one millisecond of msleep(1) since the previous pass.
SetLasttxhook ==
    LET v == SetOf(io.x) | SLIC_LF_OPPENDING IN
    /\ io.pc = "wait"
    /\ io.tries = 0 \/ io.slept
    /\ IF Pending(fxs.lasttxhook)
       THEN IF io.tries > SETTLE_TRIES
            THEN /\ io' = [io EXCEPT !.pc = "idle"]
                 /\ dropped' = TRUE
                 /\ UNCHANGED <<fxs, sethook>>
            ELSE /\ io' = [io EXCEPT !.tries = @ + 1, !.slept = FALSE]
                 /\ UNCHANGED <<fxs, sethook, dropped>>
       ELSE /\ fxs' = [fxs EXCEPT !.lasttxhook = v]
            /\ sethook' = v
            /\ io' = [io EXCEPT !.pc = "idle"]
            /\ UNCHANGED dropped
    /\ UNCHANGED <<hw, shadow, intcount, linehook, rxsig, hookRun, budget, userwr>>

(***************************************************************************)
(* The line                                                                *)
(***************************************************************************)
\* The phone goes off or on hook.
PhoneHook ==
    /\ budget.hook < MaxHookChanges
    /\ linehook' = 1 - linehook
    /\ budget' = [budget EXCEPT !.hook = @ + 1]
    /\ UNCHANGED <<fxs, sethook, hw, shadow, intcount, rxsig, io, hookRun, dropped, userwr>>

\* A power alarm: the ProSLIC drops the linefeed to open.
PowerAlarm ==
    /\ budget.power < MaxPowerAlarms
    /\ hw' = SLIC_LF_OPEN
    /\ budget' = [budget EXCEPT !.power = @ + 1]
    /\ UNCHANGED <<fxs, sethook, shadow, intcount, linehook, rxsig, io, hookRun, dropped, userwr>>

Init ==
    /\ fxs = FxsInit
    /\ sethook = NoHook
    /\ hw = FxsInit.lasttxhook
    /\ shadow = [hook |-> 0, lf |-> FxsInit.lasttxhook]
    /\ intcount = 0
    /\ linehook = 0
    /\ rxsig = "ONHOOK"
    /\ io = [pc |-> "idle", x |-> 0, tries |-> 0, slept |-> FALSE]
    /\ hookRun = [hook |-> 0, n |-> 0]
    /\ budget = [tx |-> 0, io |-> 0, power |-> 0, hook |-> 0]
    /\ dropped = FALSE
    /\ userwr = <<>>

Next ==
    \/ \E busy0, busy1 \in BOOLEAN : Tick(busy0, busy1)
    \/ \E t \in TxSigs : Hooksig(t)
    \/ \E x \in {0, 1} : SetPolarity(x)
    \/ \E n \in {0, 1} : Vmwi(n)
    \/ \E t \in BOOLEAN : VmwiConfig(t)
    \/ \E ms \in OhtSettings : OnHookTransfer(ms)
    \/ \E val \in RegopValues : SetReg(val)
    \/ SetLasttxhook
    \/ PhoneHook
    \/ PowerAlarm

\* The interrupt runs every millisecond and the module answers the ISR
\* slots within a few frames, so interrupts that find both slots answered
\* keep coming; a sleeping ioctl is woken.
Fairness == WF_vars(Tick(FALSE, FALSE)) /\ WF_vars(SetLasttxhook)

Spec == Init /\ [][Next]_vars /\ Fairness

\* State constraint: palarms, which the code counts in an int, is explored
\* up to MaxPalarms.
PalarmsBound == fxs.palarms <= MaxPalarms

(***************************************************************************)
(* Properties                                                              *)
(***************************************************************************)
TypeOK ==
    /\ fxs.lasttxhook \in TxHookValues
    /\ fxs.idletxhookstate \in TxHookValues
    /\ fxs.reversepolarity \in {0, 1}
    /\ fxs.vmwi_linereverse \in {0, 1}
    /\ fxs.vmwi_active_messages \in {0, 1}
    /\ fxs.vmwi_lrev \in BOOLEAN
    /\ fxs.ohttimer \in {8 * k : k \in 0 .. OHT_TIMER} \cup {8 * ms : ms \in OhtSettings}
    /\ fxs.palarms \in 0 .. MaxPalarms
    /\ fxs.debounce \in {4 * DAHDI_CHUNKSIZE * k : k \in 0 .. HookWin - 1}
    /\ {fxs.lastrxhook, fxs.debouncehook, fxs.oldrxhook, linehook} \subseteq {0, 1}
    /\ sethook \in TxHookValues \cup {NoHook}
    /\ hw \in LineStates
    /\ shadow \in [hook : {0, 1}, lf : TxHookValues]
    /\ intcount \in 0 .. INTCOUNT_WRAP - 1
    /\ rxsig \in {"ONHOOK", "OFFHOOK"}
    /\ userwr \in Seq(LineStates) /\ Len(userwr) <= MaxIoctls
    /\ io \in [pc : {"idle", "wait"}, x : TxHookValues,
               tries : 0 .. SETTLE_TRIES + 1, slept : BOOLEAN]
    /\ hookRun \in [hook : {0, 1}, n : 0 .. HookWin]
    /\ dropped \in BOOLEAN

\* The OPPENDING handshake ("This makes sure the lasthook was put in reg 64
\* the linefeed reg", recheck_sanity): once the pending flag is cleared,
\* the ProSLIC holds the linefeed lasttxhook names (or has dropped it to
\* open in a power alarm).
LineStateConfirmed ==
    ~Pending(fxs.lasttxhook)
    => hw \in {fxs.lasttxhook, SLIC_LF_OPEN}

\* The hook debounce of wctdm_proslic_check_hook: an off-hook or on-hook
\* is reported to dahdi-base only after the hook bit it sampled has been
\* the same for HOOK_DEBOUNCE / (4 * DAHDI_CHUNKSIZE) + 1 interrupts.
HookDebounced ==
    [][ rxsig' # rxsig
        => hookRun' = [hook |-> IF rxsig' = "OFFHOOK" THEN 1 ELSE 0,
                       n |-> HookWin] ]_vars

\* A linefeed request is eventually confirmed: OPPENDING does not stay set,
\* so the ioctls waiting on it in set_lasttxhook_interruptible can proceed.
PendingConfirmed ==
    [](Pending(fxs.lasttxhook) => <>~Pending(fxs.lasttxhook))

\* Power-alarm recovery in recheck_sanity: a line that the ProSLIC dropped
\* to open while the driver wants it powered, with nothing pending, is
\* powered again (unless the driver itself asks for open meanwhile).
PowerAlarmReset ==
    [](hw = SLIC_LF_OPEN /\ SetOf(fxs.lasttxhook) # SLIC_LF_OPEN
       /\ ~Pending(fxs.lasttxhook)
       => <>(hw # SLIC_LF_OPEN \/ SetOf(fxs.lasttxhook) = SLIC_LF_OPEN))

\* DAHDI_SETPOLARITY ("Can't change polarity while ringing or when open")
\* and set_vmwi ("Do not set while currently ringing or open") never
\* replace a ringing or open line state.
NoChangeWhileRinging ==
    [][ SetLasttxhook /\ ~Pending(fxs.lasttxhook) => ~Busy(fxs) ]_vars

\* The ioctls return 0 without looking at the result of
\* set_lasttxhook_interruptible: the line state they set must not be
\* dropped.
NoSilentTimeout == ~dropped
====
