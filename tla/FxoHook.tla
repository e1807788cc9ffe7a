------------------------------- MODULE FxoHook -------------------------------
(***************************************************************************)
(* The FXO line monitor of the wctdm24xxp driver for one FXO module:      *)
(* wctdm_voicedaa_check_hook (base.c), called once per millisecond by     *)
(* wctdm_isr_misc with the hook/ring status byte and the line-voltage     *)
(* byte that the interrupt slots of the command queue left in isrshadow. *)
(* One CheckHook step is one call: ring detection (the default            *)
(* accumulator, or the firmware crossing detector when fwringdetect is    *)
(* set), battery debounce with the battery alarm timer, and polarity     *)
(* debounce, and neon message-waiting detection when neonmwi_monitor is   *)
(* set.  Everything the call reports to dahdi-base is recorded: the last  *)
(* hook signal (rxsig, the channel's rxhooksig) and the alarm; the neon   *)
(* MWI events follow neonmwi_state.  wctdm_open resets the neon MWI       *)
(* indicators.                                                            *)
(*                                                                         *)
(* The JAPAN / ZERO_BATT_RING build variants are not modelled; the        *)
(* register-5 writes through wctdm_setreg_intr are modelled by WctdmCmdq.  *)
(***************************************************************************)
EXTENDS Integers, Sequences, SequencesExt

CONSTANTS
    Voltages,          \* values of the signed voltage byte, isrshadow[1]
    RingBits,          \* values of isrshadow[0] & 0x60
    battthresh, battdebounce, battalarm,   \* the module parameters
    ringdebounce,
    POLARITY_DEBOUNCE, \* wctdm24xxp.h, scaled down
    DAHDI_CHUNKSIZE,
    neonmwi_level, neonmwi_envelope,   \* neon MWI module parameters
    neonmwi_offlimit,
    NEONMWI_ON_DEBOUNCE  \* base.c, scaled down

\* battalarm - battdebounce is computed in unsigned arithmetic and stored in
\* an int: a battalarm below battdebounce gives a negative timer that takes
\* some 2^31 checks to expire.  The model keeps to battalarm >= battdebounce.
ASSUME battdebounce >= 1 /\ battalarm >= battdebounce /\ ringdebounce >= 16

MS_PER_CHECK_HOOK == 1
MS_PER_HOOKCHECK == 1

\* Computed once by wctdm_init_one from the module parameter.
neonmwi_offlimit_cycles == neonmwi_offlimit \div MS_PER_HOOKCHECK

\* enum battery_state, wctdm24xxp.h
BATTERY_UNKNOWN == 0
BATTERY_PRESENT == 1
BATTERY_LOST    == 2

\* dahdi receive hook signals and alarms
RxSigs == {"INITIAL", "ONHOOK", "OFFHOOK", "RING"}
Alarms == {"NONE", "RED"}

Abs(x) == IF x < 0 THEN -x ELSE x

\* struct fxo, wctdm24xxp.h (zeroed at allocation)
FxoInit ==
    [offhook |-> 0, wasringing |-> 0, ringdebounce |-> 0, lastrdtx |-> 0,
     lastrdtx_count |-> 0, battery |-> BATTERY_UNKNOWN, battdebounce |-> 0,
     battalarm |-> 0, polarity |-> 0, lastpol |-> 0, polaritydebounce |-> 0,
     neonmwi_state |-> 0, neonmwi_last_voltage |-> 0, neonmwi_debounce |-> 0,
     neonmwi_offcounter |-> 0]

VARIABLES
    fxo,           \* wc->mods[card].fxo
    fwringdetect,  \* module parameter, fixed at load
    rxsig,         \* wc->chans[card]->rxhooksig, set by dahdi_hooksig
    alarm,         \* the channel alarm set by dahdi_alarm_channel
    lowWin,        \* history: the last samples, TRUE when below battthresh
    signWin,       \* history: the last samples' voltage sign when above it
    neonmwi_monitor, \* module parameter, fixed at load
    pulseWin       \* history: the last neon-monitored samples, TRUE when the
                   \* battery was present and the voltage above neonmwi_level

vars == <<fxo, fwringdetect, rxsig, alarm, lowWin, signWin,
          neonmwi_monitor, pulseWin>>

BattWin == battdebounce + 1
PolWin  == POLARITY_DEBOUNCE
NeonWin == IF NEONMWI_ON_DEBOUNCE + 1 >= neonmwi_offlimit_cycles - 1
           THEN NEONMWI_ON_DEBOUNCE + 1 ELSE neonmwi_offlimit_cycles - 1

Sign(b) == IF b > 0 THEN 1 ELSE IF b < 0 THEN -1 ELSE 0

\* Keep the last n elements of s.
Window(s, n) == IF Len(s) <= n THEN s ELSE SubSeq(s, Len(s) - n + 1, Len(s))

(***************************************************************************)
(* Ring detection.  Each stage maps a result [f, sig] to a result: sig is *)
(* the last dahdi_hooksig of the call so far ("none" if there was none). *)
(***************************************************************************)
\* Mutant: the counter is not clamped at the threshold once ringing.
RingAccumulate_no_clamp(r, res) ==
    LET f == r.f IN
    IF res # 0 /\ f.battery = BATTERY_PRESENT
    THEN LET rd == f.ringdebounce + DAHDI_CHUNKSIZE * 16 IN
         IF rd >= DAHDI_CHUNKSIZE * ringdebounce
         THEN [f |-> [f EXCEPT !.wasringing = 1, !.ringdebounce = rd],
               sig |-> IF f.wasringing = 0 THEN "RING" ELSE r.sig]
         ELSE [r EXCEPT !.f.ringdebounce = rd]
    ELSE LET rd == f.ringdebounce - DAHDI_CHUNKSIZE * 4 IN
         IF rd <= 0
         THEN [f |-> [f EXCEPT !.wasringing = 0, !.ringdebounce = 0],
               sig |-> IF f.wasringing # 0 THEN "OFFHOOK" ELSE r.sig]
         ELSE [r EXCEPT !.f.ringdebounce = rd]

\* The default accumulator: ring bits with battery present add
\* 16 * DAHDI_CHUNKSIZE up to the threshold, anything else drains 4 * CHUNKSIZE.
RingAccumulate(r, res) ==
    LET f == r.f IN
    IF res # 0 /\ f.battery = BATTERY_PRESENT
    THEN LET rd == f.ringdebounce + DAHDI_CHUNKSIZE * 16 IN
         IF rd >= DAHDI_CHUNKSIZE * ringdebounce
         THEN [f |-> [f EXCEPT !.wasringing = 1,
                              !.ringdebounce = DAHDI_CHUNKSIZE * ringdebounce],
               sig |-> IF f.wasringing = 0 THEN "RING" ELSE r.sig]
         ELSE [r EXCEPT !.f.ringdebounce = rd]
    ELSE LET rd == f.ringdebounce - DAHDI_CHUNKSIZE * 4 IN
         IF rd <= 0
         THEN [f |-> [f EXCEPT !.wasringing = 0, !.ringdebounce = 0],
               sig |-> IF f.wasringing # 0 THEN "OFFHOOK" ELSE r.sig]
         ELSE [r EXCEPT !.f.ringdebounce = rd]

\* The firmware detector: wasringing 2 while counting crossings of the
\* ring-detect bits, 1 once RING was reported.
RingCrossings(r, res) ==
    LET f == r.f
        rd == ringdebounce \div 16 IN
    CASE f.wasringing = 0 ->
           IF res # 0
           THEN [r EXCEPT !.f = [f EXCEPT !.wasringing = 2, !.ringdebounce = rd,
                                         !.lastrdtx = res, !.lastrdtx_count = 0]]
           ELSE r
      [] f.wasringing = 2 /\ res # 0 /\ res # f.lastrdtx ->
           IF f.lastrdtx_count + 1 >= 2
           THEN [f |-> [f EXCEPT !.lastrdtx_count = @ + 1, !.wasringing = 1,
                                !.ringdebounce = rd],
                 sig |-> "RING"]
           ELSE [r EXCEPT !.f = [f EXCEPT !.lastrdtx_count = @ + 1,
                                         !.lastrdtx = res, !.ringdebounce = rd]]
      [] f.wasringing = 2 ->
           [r EXCEPT !.f = [f EXCEPT !.ringdebounce = @ - 1,
                                     !.wasringing = IF f.ringdebounce = 1
                                                    THEN 0 ELSE 2]]
      [] res # 0 ->
           [r EXCEPT !.f.ringdebounce = rd]
      [] OTHER ->
           IF f.ringdebounce - 1 = 0
           THEN [f |-> [f EXCEPT !.ringdebounce = 0, !.wasringing = 0],
                 sig |-> "OFFHOOK"]
           ELSE [r EXCEPT !.f.ringdebounce = @ - 1]

RingStage(r, res) ==
    IF r.f.offhook # 0 THEN r
    ELSE IF fwringdetect \/ neonmwi_monitor THEN RingCrossings(r, res)
    ELSE RingAccumulate(r, res)

(***************************************************************************)
(* Battery debounce.  Below battthresh the line counts toward LOST, at or *)
(* above it toward PRESENT; one battdebounce counter serves both ways and *)
(* is cleared only by a sample agreeing with a known battery state.       *)
(***************************************************************************)
\* Mutant: a sample agreeing with the known state does not clear the timer.
BatteryToward_no_clear(r, state, sig) ==
    LET f == r.f IN
    IF f.battery = state
    THEN r
    ELSE IF f.battdebounce # 0
    THEN IF f.battdebounce - 1 = 0
         THEN [f |-> [f EXCEPT !.battdebounce = 0, !.battery = state,
                              !.battalarm = (battalarm - battdebounce)
                                              \div MS_PER_CHECK_HOOK],
               sig |-> sig]
         ELSE [r EXCEPT !.f.battdebounce = @ - 1]
    ELSE [r EXCEPT !.f.battdebounce = battdebounce \div MS_PER_CHECK_HOOK]

BatteryToward(r, state, sig) ==
    LET f == r.f IN
    IF f.battery = state
    THEN [r EXCEPT !.f.battdebounce = 0]
    ELSE IF f.battdebounce # 0
    THEN IF f.battdebounce - 1 = 0
         THEN [f |-> [f EXCEPT !.battdebounce = 0, !.battery = state,
                              !.battalarm = (battalarm - battdebounce)
                                              \div MS_PER_CHECK_HOOK],
               sig |-> sig]
         ELSE [r EXCEPT !.f.battdebounce = @ - 1]
    ELSE [r EXCEPT !.f.battdebounce = battdebounce \div MS_PER_CHECK_HOOK]

\* Mutant: the polarity debounce is one check short.
TrackPolarity_short(f, b) ==
    LET f1 == IF f.lastpol >= 0 /\ b < 0
              THEN [f EXCEPT !.lastpol = -1, !.polaritydebounce = POLARITY_DEBOUNCE - 1]
              ELSE f IN
    IF f1.lastpol <= 0 /\ b > 0
    THEN [f1 EXCEPT !.lastpol = 1, !.polaritydebounce = POLARITY_DEBOUNCE - 1]
    ELSE f1

\* lastpol follows the sign of every sample above battthresh; each change
\* restarts the polarity debounce.
TrackPolarity(f, b) ==
    LET f1 == IF f.lastpol >= 0 /\ b < 0
              THEN [f EXCEPT !.lastpol = -1,
                             !.polaritydebounce = POLARITY_DEBOUNCE \div MS_PER_CHECK_HOOK]
              ELSE f IN
    IF f1.lastpol <= 0 /\ b > 0
    THEN [f1 EXCEPT !.lastpol = 1,
                    !.polaritydebounce = POLARITY_DEBOUNCE \div MS_PER_CHECK_HOOK]
    ELSE f1

BatteryStage(r, b) ==
    IF Abs(b) < battthresh
    THEN BatteryToward(r, BATTERY_LOST, "ONHOOK")
    ELSE LET r1 == BatteryToward(r, BATTERY_PRESENT, "OFFHOOK") IN
         [r1 EXCEPT !.f = TrackPolarity(@, b)]

(***************************************************************************)
(* Neon MWI.  A message-waiting lamp voltage shows as consecutive samples *)
(* above neonmwi_level that stay within neonmwi_envelope of each other;  *)
(* NEONMWI_ON_DEBOUNCE + 1 of them declare MWI active, and every pulse    *)
(* sample after that reloads the off counter that clears it.             *)
(***************************************************************************)
NeonPulse(f, b) ==
    /\ f.battery = BATTERY_PRESENT
    /\ Abs(b) > neonmwi_level
    /\ \/ f.neonmwi_last_voltage = 0
       \/ b \in f.neonmwi_last_voltage - neonmwi_envelope
               .. f.neonmwi_last_voltage + neonmwi_envelope

\* Mutant: MWI is declared one pulse early.
NeonDetect_early(f, b) ==
    IF NeonPulse(f, b)
    THEN LET g == [f EXCEPT !.neonmwi_last_voltage = b] IN
         CASE f.neonmwi_debounce = NEONMWI_ON_DEBOUNCE - 1 ->
                [g EXCEPT !.neonmwi_offcounter = neonmwi_offlimit_cycles,
                          !.neonmwi_state = 1, !.neonmwi_debounce = @ + 1]
           [] f.neonmwi_debounce < NEONMWI_ON_DEBOUNCE - 1 ->
                [g EXCEPT !.neonmwi_debounce = @ + 1]
           [] OTHER -> [g EXCEPT !.neonmwi_offcounter = neonmwi_offlimit_cycles]
    ELSE [f EXCEPT !.neonmwi_debounce = 0, !.neonmwi_last_voltage = 0]

\* The pulse detector: counts consecutive pulses, declares MWI at the
\* (NEONMWI_ON_DEBOUNCE + 1)th, and afterwards keeps the off counter loaded.
NeonDetect(f, b) ==
    IF NeonPulse(f, b)
    THEN LET g == [f EXCEPT !.neonmwi_last_voltage = b] IN
         CASE f.neonmwi_debounce = NEONMWI_ON_DEBOUNCE ->
                [g EXCEPT !.neonmwi_offcounter = neonmwi_offlimit_cycles,
                          !.neonmwi_state = 1, !.neonmwi_debounce = @ + 1]
           [] f.neonmwi_debounce < NEONMWI_ON_DEBOUNCE ->
                [g EXCEPT !.neonmwi_debounce = @ + 1]
           [] OTHER -> [g EXCEPT !.neonmwi_offcounter = neonmwi_offlimit_cycles]
    ELSE [f EXCEPT !.neonmwi_debounce = 0, !.neonmwi_last_voltage = 0]

\* Mutant: the off counter stops at zero without clearing MWI.
NeonExpire_stuck(f) ==
    IF f.neonmwi_state # 0 /\ 0 < f.neonmwi_offcounter
    THEN [f EXCEPT !.neonmwi_offcounter = IF @ = 1 THEN 1 ELSE @ - 1]
    ELSE f

\* The off counter runs down while MWI is active; at zero MWI is cleared.
NeonExpire(f) ==
    IF f.neonmwi_state # 0 /\ 0 < f.neonmwi_offcounter
    THEN [f EXCEPT !.neonmwi_offcounter = @ - 1,
                   !.neonmwi_state = IF f.neonmwi_offcounter - 1 = 0 THEN 0 ELSE @]
    ELSE f

\* The call, in the order of the code: ring detection (on hook only), the
\* battery reset that dahdi-base requests with DAHDI_RXSIG_INITIAL, battery
\* debounce, the alarm timer, the polarity debounce, then neon MWI on hook.
CheckHook(res, b) ==
    LET r0 == RingStage([f |-> fxo, sig |-> "none"], res)
        r1 == IF rxsig = "INITIAL"
              THEN [r0 EXCEPT !.f.battery = BATTERY_UNKNOWN] ELSE r0
        r2 == BatteryStage(r1, b)
        f2 == r2.f
        expire == f2.battalarm # 0 /\ f2.battalarm - 1 = 0
        f3 == IF f2.battalarm # 0 THEN [f2 EXCEPT !.battalarm = @ - 1] ELSE f2
        pdone == f3.polaritydebounce # 0 /\ f3.polaritydebounce - 1 < 1
        f4 == IF f3.polaritydebounce = 0 THEN f3
              ELSE [f3 EXCEPT !.polaritydebounce = @ - 1,
                              !.polarity = IF pdone THEN f3.lastpol ELSE @]
        neon == neonmwi_monitor /\ f4.offhook = 0
        f5 == NeonDetect(f4, b)
        f6 == NeonExpire(f5)
    IN
    /\ fxo' = IF neon THEN f6 ELSE f4
    /\ rxsig' = IF r2.sig = "none" THEN rxsig ELSE r2.sig
    /\ alarm' = IF expire
                THEN IF f2.battery = BATTERY_LOST THEN "RED" ELSE "NONE"
                ELSE alarm
    /\ lowWin' = Window(Append(lowWin, Abs(b) < battthresh), BattWin)
    /\ signWin' = Window(Append(signWin, IF Abs(b) < battthresh THEN 0 ELSE Sign(b)),
                       PolWin)
    /\ pulseWin' = IF neon
                   THEN Window(Append(pulseWin, f4.battery = BATTERY_PRESENT
                                                /\ Abs(b) > neonmwi_level),
                               NeonWin)
                   ELSE pulseWin
    /\ UNCHANGED <<fwringdetect, neonmwi_monitor>>

\* wctdm_hooksig for an FXO module: the channel goes off or on hook.
Hooksig(offhook) ==
    /\ fxo' = [fxo EXCEPT !.offhook = offhook]
    /\ UNCHANGED <<fwringdetect, rxsig, alarm, lowWin, signWin,
                   neonmwi_monitor, pulseWin>>

\* dahdi-base sets DAHDI_RXSIG_INITIAL on DAHDI_STARTUP or DAHDI_CHANCONFIG
\* so that the driver reports the hook state again.
Startup ==
    /\ rxsig' = "INITIAL"
    /\ UNCHANGED <<fxo, fwringdetect, alarm, lowWin, signWin,
                   neonmwi_monitor, pulseWin>>

\* wctdm_open: the neon MWI indicators are reset under reglock.
Open ==
    /\ fxo' = [fxo EXCEPT !.neonmwi_debounce = 0, !.neonmwi_offcounter = 0,
                          !.neonmwi_state = 0]
    /\ UNCHANGED <<fwringdetect, rxsig, alarm, lowWin, signWin,
                   neonmwi_monitor, pulseWin>>

Init ==
    /\ fxo = FxoInit
    /\ fwringdetect \in BOOLEAN
    /\ rxsig = "INITIAL"
    /\ alarm = "NONE"
    /\ lowWin = <<>>
    /\ signWin = <<>>
    /\ neonmwi_monitor \in BOOLEAN
    /\ neonmwi_monitor => ~fwringdetect   \* fwringdetect is moot with the monitor on
    /\ pulseWin = <<>>

Next ==
    \/ \E res \in RingBits, b \in Voltages : CheckHook(res, b)
    \/ \E o \in {0, 1} : Hooksig(o)
    \/ Startup
    \/ Open

Spec == Init /\ [][Next]_vars
(***************************************************************************)
(* Properties                                                              *)
(***************************************************************************)
TypeOK ==
    /\ fxo.offhook \in {0, 1}
    /\ fxo.wasringing \in 0 .. 2
    /\ fxo.ringdebounce \in 0 .. DAHDI_CHUNKSIZE * ringdebounce
    /\ fxo.lastrdtx \in RingBits
    /\ fxo.lastrdtx_count \in 0 .. 2
    /\ fxo.battery \in {BATTERY_UNKNOWN, BATTERY_PRESENT, BATTERY_LOST}
    /\ fxo.battdebounce \in 0 .. battdebounce
    /\ fxo.battalarm \in 0 .. battalarm - battdebounce
    /\ fxo.polarity \in {-1, 0, 1}
    /\ fxo.lastpol \in {-1, 0, 1}
    /\ fxo.polaritydebounce \in 0 .. POLARITY_DEBOUNCE
    /\ fwringdetect \in BOOLEAN
    /\ rxsig \in RxSigs
    /\ alarm \in Alarms
    /\ fxo.neonmwi_state \in {0, 1}
    /\ fxo.neonmwi_last_voltage \in Voltages
    /\ fxo.neonmwi_debounce \in 0 .. NEONMWI_ON_DEBOUNCE + 1
    /\ fxo.neonmwi_offcounter \in 0 .. neonmwi_offlimit_cycles
    /\ neonmwi_monitor \in BOOLEAN

SamplesAgree(win, n, ok(_)) == Len(win) = n /\ \A k \in 1 .. n : ok(win[k])

\* The battery debounce of wctdm_voicedaa_check_hook: a change between the
\* known states PRESENT and LOST is declared only after battdebounce + 1
\* consecutive samples on the new side of battthresh.
BatteryDebounced ==
    [][ fxo.battery # BATTERY_UNKNOWN
        /\ fxo'.battery \notin {fxo.battery, BATTERY_UNKNOWN}
        => SamplesAgree(lowWin', BattWin,
                        LAMBDA low : low = (fxo'.battery = BATTERY_LOST)) ]_vars

\* The same debounce from BATTERY_UNKNOWN (at load, or after dahdi-base set
\* DAHDI_RXSIG_INITIAL): the comments "start the debounce timer to verify
\* that battery has appeared / been lost" promise that a state is declared
\* only once the samples have confirmed it.
BatteryDebouncedFromUnknown ==
    [][ fxo'.battery \notin {fxo.battery, BATTERY_UNKNOWN}
        => SamplesAgree(lowWin', BattWin,
                        LAMBDA low : low = (fxo'.battery = BATTERY_LOST)) ]_vars

\* The battery alarm timer: once it has run out, the channel alarm that
\* dahdi_alarm_channel last set is RED exactly when the battery is lost.
AlarmFollowsBattery ==
    fxo.battalarm = 0 /\ fxo.battery # BATTERY_UNKNOWN
    => alarm = IF fxo.battery = BATTERY_LOST THEN "RED" ELSE "NONE"

\* The polarity debounce: fxo->polarity changes only after the voltage
\* has kept the new sign on every sample above battthresh for the last
\* POLARITY_DEBOUNCE checks.
PolarityDebounced ==
    [][ fxo'.polarity # fxo.polarity
        => SamplesAgree(signWin', PolWin,
                        LAMBDA s : s \in {0, fxo'.polarity}) ]_vars

\* What dahdi-base holds as the received hook state (rxhooksig) agrees with
\* the debounced battery whenever no ring is in progress: ONHOOK when the
\* battery is lost, OFFHOOK when it is present.  The comment at the
\* DAHDI_RXSIG_INITIAL reset relies on this: the driver reports only
\* changes, so a state it never re-reports must be the current one.
HookStateMatchesBattery ==
    fxo.wasringing = 0 /\ fxo.battery # BATTERY_UNKNOWN /\ rxsig # "INITIAL"
    => rxsig = IF fxo.battery = BATTERY_LOST THEN "ONHOOK" ELSE "OFFHOOK"

\* The neon MWI debounce: the driver declares a message waiting (queues
\* DAHDI_EVENT_NEONMWI_ACTIVE) only after NEONMWI_ON_DEBOUNCE + 1
\* consecutive on-hook checks saw battery present and the voltage above
\* neonmwi_level, the "4 consecutive voltage readings" of the comment.
NeonMwiDebounced ==
    [][ fxo'.neonmwi_state = 1 /\ fxo.neonmwi_state = 0
        => SamplesAgree(Window(pulseWin', NEONMWI_ON_DEBOUNCE + 1),
                        NEONMWI_ON_DEBOUNCE + 1, LAMBDA p : p) ]_vars

\* Neon MWI lapses: while the driver holds MWI active, one of the last
\* neonmwi_offlimit_cycles - 1 neon-monitored checks saw a pulse; once the
\* lamp stops flashing, the off counter clears the state ("If no neon mwi
\* pulse for given period of time, indicate no neon mwi state").
NeonMwiLapses ==
    fxo.neonmwi_state = 1
    => \E k \in DOMAIN Window(pulseWin, neonmwi_offlimit_cycles - 1) :
          Window(pulseWin, neonmwi_offlimit_cycles - 1)[k]
====
