----------------------------- MODULE ChangeOrder -----------------------------
(***************************************************************************)
(* The echo-canceller change queue of the VPMADT032                        *)
(* (src/linux/drivers/dahdi/voicebus/GpakCust.c).                           *)
(*                                                                         *)
(* vpmadt032_echocan_create and vpmadt032_echocan_free (called by the      *)
(* wctdm24xxp echocan_create/echocan_free ops) build a change_order from   *)
(* the channel's cached state curecstate and the caller's parameters and   *)
(* hand it to vpmadt032_check_and_schedule_update, which replaces a queued *)
(* order for the same channel in place or appends it, then queues the work *)
(* item.  The single-threaded worker vpmadt032_bh pops orders in FIFO      *)
(* order, diffs each against curecstate, issues the G.PAK calls of        *)
(* update_channel_config, vpmadt032_enable_ec or vpmadt032_disable_ec,    *)
(* and copies the order into curecstate.                                   *)
(*                                                                         *)
(* A parameter set is abstracted to its NLP settings (nlp_type,            *)
(* nlp_threshold, nlp_max_suppress as one value of NLP) and tap_length    *)
(* (0 or 1; the driver maps every non-zero length to 1).  The DSP state   *)
(* of a channel is whether it is configured, the NLP settings it was      *)
(* configured with, and whether echo cancellation (EcanA) and software    *)
(* companding are enabled.  Each G.PAK call can fail.                      *)
(***************************************************************************)
EXTENDS Integers, Sequences, SequencesExt

CONSTANTS
    Chans,          \* echo-canceller channels
    NLP,            \* NLP settings
    VPMNLP,         \* the module's default NLP settings (vpmnlptype, ...)
    NoOrder,        \* NULL
    TapLens,        \* tap lengths a caller asks for (0 included)
    MaxReqs,        \* bound on echocan_create/echocan_free calls
    MaxAllocFail,   \* bound on failed kzallocs
    MaxDspFail      \* bound on failed G.PAK calls

ASSUME VPMNLP \in NLP /\ 0 \in TapLens /\ TapLens \subseteq Nat
       /\ MaxReqs \in Nat /\ MaxAllocFail \in Nat
       /\ MaxDspFail \in Nat

\* struct adt_lec_params, abstracted.
Params == [nlp : NLP, tap : {0, 1}]
\* struct change_order.
Order == [channel : Chans, params : Params]
Dsp == [up : BOOLEAN, nlp : NLP, ec : BOOLEAN, swc : BOOLEAN]

VARIABLES
    change_list,    \* vpm->change_list
    curecstate,     \* vpm->curecstate
    queued,         \* the work item is pending on the workqueue
    running,        \* vpmadt032_bh is running
    order,          \* the order vpmadt032_bh is working on, or NoOrder
    dsp,            \* the channels of the DSP
    reqs, allocFails, dspFails

vars == <<change_list, curecstate, queued, running, order, dsp, reqs,
          allocFails, dspFails>>

-----------------------------------------------------------------------------
(* Requests.                                                               *)

\* Mutant: the work item is not queued.
CheckAndScheduleUpdate_no_queue(o) ==
    /\ change_list' =
         IF \E k \in 1 .. Len(change_list) : change_list[k].channel = o.channel
         THEN [k \in 1 .. Len(change_list) |->
                 IF change_list[k].channel = o.channel THEN o
                 ELSE change_list[k]]
         ELSE Append(change_list, o)
    /\ UNCHANGED queued

\* vpmadt032_check_and_schedule_update: replace the queued order of the
\* same channel in place, or append; then queue_work.
CheckAndScheduleUpdate(o) ==
    /\ change_list' =
         IF \E k \in 1 .. Len(change_list) : change_list[k].channel = o.channel
         THEN [k \in 1 .. Len(change_list) |->
                 IF change_list[k].channel = o.channel THEN o
                 ELSE change_list[k]]
         ELSE Append(change_list, o)
    /\ queued' = TRUE

\* alloc_change_order fails: the request is dropped (-ENOMEM, or a WARN in
\* vpmadt032_echocan_free).
AllocFail ==
    /\ reqs < MaxReqs /\ allocFails < MaxAllocFail
    /\ reqs' = reqs + 1 /\ allocFails' = allocFails + 1
    /\ UNCHANGED <<change_list, curecstate, queued, running, order, dsp,
                   dspFails>>

\* Mutant: the caller's tap length is stored as it is.
TapOf_raw(len) == len

\* vpmadt032_echocan_create: the VPMADT032 cannot set the number of taps,
\* so any non-zero tap_length becomes 1.
TapOf(len) == IF len # 0 THEN 1 ELSE 0

\* vpmadt032_echocan_create: the order starts as a copy of curecstate and
\* adt_lec_parse_params sets the NLP settings from the caller's parameters
\* (any value of NLP, the copied one included).
EchocanCreate ==
    /\ reqs < MaxReqs
    /\ \E ch \in Chans, len \in TapLens, nlp \in NLP :
          CheckAndScheduleUpdate([channel |-> ch,
                                  params |-> [nlp |-> nlp, tap |-> TapOf(len)]])
    /\ reqs' = reqs + 1
    /\ UNCHANGED <<curecstate, running, order, dsp, allocFails, dspFails>>

\* vpmadt032_echocan_free: the order holds the defaults, tap_length 0 and
\* the module's NLP settings.
EchocanFree ==
    /\ reqs < MaxReqs
    /\ \E ch \in Chans :
          CheckAndScheduleUpdate([channel |-> ch,
                                  params |-> [nlp |-> VPMNLP, tap |-> 0]])
    /\ reqs' = reqs + 1
    /\ UNCHANGED <<curecstate, running, order, dsp, allocFails, dspFails>>

-----------------------------------------------------------------------------
(* The worker.                                                             *)

\* The workqueue starts vpmadt032_bh; the pending bit is cleared first.
BhStart ==
    /\ queued /\ ~running
    /\ queued' = FALSE /\ running' = TRUE
    /\ UNCHANGED <<change_list, curecstate, order, dsp, reqs, allocFails,
                   dspFails>>

\* get_next_order: pop the head of change_list; with none left the worker
\* returns.
GetNextOrder ==
    /\ running /\ order = NoOrder
    /\ IF change_list = <<>>
       THEN running' = FALSE /\ UNCHANGED <<change_list, order>>
       ELSE /\ order' = Head(change_list)
            /\ change_list' = Tail(change_list)
            /\ UNCHANGED running
    /\ UNCHANGED <<curecstate, queued, dsp, reqs, allocFails, dspFails>>

\* The three diffs of vpmadt032_bh.
nlp_settings_changed(new, old) == new.nlp # old.nlp
\* Mutant: the test of the new tap length is dropped.
echocan_on_any(new, old) == new.tap # old.tap

echocan_on(new, old)  == new.tap # old.tap /\ new.tap > 0
echocan_off(new, old) == new.tap # old.tap /\ new.tap = 0

\* The outcome of a sequence of G.PAK calls on a channel d: ok[k] tells
\* whether the k-th call succeeds.
\* vpmadt032_enable_ec: software companding (a failure is only logged),
\* then EnableEcanA.
EnableEc(d, ok) == [d EXCEPT !.swc = IF ok[1] /\ d.up THEN TRUE ELSE @,
                             !.ec  = IF ok[2] /\ d.up THEN TRUE ELSE @]

\* vpmadt032_disable_ec: BypassSwCompanding, then BypassEcanA.
DisableEc(d, ok) == [d EXCEPT !.swc = IF ok[1] /\ d.up THEN FALSE ELSE @,
                              !.ec  = IF ok[2] /\ d.up THEN FALSE ELSE @]

\* setchanconfig_from_state (base.c): the channel configuration that
\* update_channel_config sends, with EcanA enabled, software companding
\* in the span's law, and the NLP settings of the cached state cs.
setchanconfig_from_state(cs) == [up |-> TRUE, nlp |-> cs.nlp, ec |-> TRUE, swc |-> TRUE]

\* update_channel_config: the configuration comes from
\* setchanconfig_from_state on curecstate as it is before the worker
\* copies the order into it; tear down (stop on failure), configure
\* (stop on failure), and with tap_length 0 bypass both again.
UpdateChannelConfig(d, cs, tap, ok) ==
    LET down == [d EXCEPT !.up = FALSE]
        cfg  == setchanconfig_from_state(cs)
    IN IF ~ok[1] THEN d
       ELSE IF ~ok[2] THEN down
       ELSE IF tap = 0 THEN DisableEc(cfg, <<ok[3], ok[4]>>)
       ELSE cfg

\* The number of G.PAK calls vpmadt032_bh makes for order new on a
\* channel in state old when the calls succeed as ok says.
NCalls(new, old, ok) ==
    IF nlp_settings_changed(new, old)
    THEN IF ~ok[1] THEN 1 ELSE IF ~ok[2] THEN 2
         ELSE IF new.tap = 0 THEN 4 ELSE 2
    ELSE IF echocan_on(new, old) \/ echocan_off(new, old) THEN 2
    ELSE 0

\* The failures among the calls made; a call not made is counted as a
\* success, so that each outcome is enumerated once.
Fails(new, old, ok) ==
    IF \E k \in 1 .. 4 : k > NCalls(new, old, ok) /\ ~ok[k] THEN -1
    ELSE Cardinality({k \in 1 .. 4 : ~ok[k]})

\* vpmadt032_bh, one order: the diff against curecstate picks the action,
\* whose G.PAK calls may fail; whatever they did, the order is copied into
\* curecstate and freed.
ApplyOrder ==
    /\ order # NoOrder
    /\ LET ch  == order.channel
           new == order.params
           old == curecstate[ch]
       IN \E ok \in [1 .. 4 -> BOOLEAN] :
            /\ Fails(new, old, ok) >= 0
            /\ dspFails + Fails(new, old, ok) <= MaxDspFail
            /\ dsp' = [dsp EXCEPT ![ch] =
                  IF nlp_settings_changed(new, old)
                  THEN UpdateChannelConfig(@, old, new.tap, ok)
                  ELSE IF echocan_on(new, old) THEN EnableEc(@, ok)
                  ELSE IF echocan_off(new, old) THEN DisableEc(@, ok)
                  ELSE @]
            /\ dspFails' = dspFails + Fails(new, old, ok)
            /\ curecstate' = [curecstate EXCEPT ![ch] = new]
    /\ order' = NoOrder
    /\ UNCHANGED <<change_list, queued, running, reqs, allocFails>>

-----------------------------------------------------------------------------
\* config_vpmadt032 (base.c): every channel starts with tap_length 0 and
\* the module's NLP settings, configured on the DSP and then bypassed.
Init ==
    /\ change_list = <<>>
    /\ curecstate = [ch \in Chans |-> [nlp |-> VPMNLP, tap |-> 0]]
    /\ queued = FALSE /\ running = FALSE /\ order = NoOrder
    /\ dsp = [ch \in Chans |-> [up |-> TRUE, nlp |-> VPMNLP, ec |-> FALSE,
                                swc |-> FALSE]]
    /\ reqs = 0 /\ allocFails = 0 /\ dspFails = 0

Next ==
    \/ EchocanCreate \/ EchocanFree \/ AllocFail
    \/ BhStart \/ GetNextOrder \/ ApplyOrder

\* The workqueue thread runs a queued work item and, while running, is
\* scheduled until it returns.
Fairness == WF_vars(BhStart) /\ WF_vars(GetNextOrder) /\ WF_vars(ApplyOrder)

Spec == Init /\ [][Next]_vars /\ Fairness

-----------------------------------------------------------------------------
TypeOK ==
    /\ change_list \in Seq(Order)
    /\ curecstate \in [Chans -> Params]
    /\ queued \in BOOLEAN /\ running \in BOOLEAN
    /\ order \in Order \cup {NoOrder}
    /\ dsp \in [Chans -> Dsp]

\* The outstanding requests of channel ch, oldest first: the order the
\* worker holds, then the queued one.
Outstanding(ch) ==
    (IF order # NoOrder /\ order.channel = ch THEN <<order.params>> ELSE <<>>)
    \o [k \in 1 .. Len(SelectSeq(change_list, LAMBDA o : o.channel = ch)) |->
          SelectSeq(change_list, LAMBDA o : o.channel = ch)[k].params]

EcQ == INSTANCE EcQueue WITH hist <- [ch \in Chans |-> Outstanding(ch)],
                             cache <- curecstate

\* The queue implements EcQueue: curecstate only takes parameter sets
\* requested for the channel, in request order, coalescing in
\* vpmadt032_check_and_schedule_update never loses the latest request, and
\* vpmadt032_bh eventually applies it.
EcQueueSpec == EcQ!Spec

\* Echo cancellation and software companding of every channel on the DSP
\* are on exactly when the cached state curecstate says tap_length is
\* non-zero (the diff of vpmadt032_bh against curecstate is only right if
\* this holds).
EcMatchesTap ==
    \A ch \in Chans : dsp[ch].ec = (curecstate[ch].tap = 1)
                      /\ dsp[ch].swc = (curecstate[ch].tap = 1)

\* A configured DSP channel runs with the NLP settings curecstate records
\* for it once update_channel_config has reconfigured it.
NlpApplied ==
    \A ch \in Chans : dsp[ch].up => dsp[ch].nlp = curecstate[ch].nlp
=============================================================================
