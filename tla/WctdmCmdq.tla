------------------------------ MODULE WctdmCmdq ------------------------------
(***************************************************************************)
(* The register-command queue of the wctdm24xxp driver                     *)
(* (src/linux/drivers/dahdi/wctdm24xxp/base.c).                             *)
(*                                                                         *)
(* Every card (sub-device) owns a fixed array cmdq[card].cmds of           *)
(* USER_COMMANDS foreground slots followed by ISR_COMMANDS slots that the  *)
(* transmit interrupt refills with hook and line-state polls.  Once per    *)
(* frame the transmit path (wctdm_transmitprep / cmd_dequeue) sends the    *)
(* first ready command of every card, stamped with the rolling txident;   *)
(* the receive path (wctdm_receiveprep / cmd_decipher) reads the rolling   *)
(* rxident of the returned frame, forces retransmission on a gap           *)
(* (cmd_retransmit) and completes the command stamped with that ident.    *)
(* Foreground callers (wctdm_setreg / wctdm_getreg) enqueue into a free    *)
(* slot and sleep in schluffen until a slot is free or their read is       *)
(* finished; a signal ends the sleep with -ERESTARTSYS.                    *)
(*                                                                         *)
(* The bus (voicebus DMA) is the sequence `wire` of returned frames: the   *)
(* hardware executes the commands of a frame when the frame is sent and    *)
(* answers in the returned frame of the same position, which echoes the   *)
(* sent ident byte.  Frames may be lost.  FramesPerChunk frames make up   *)
(* one DAHDI chunk; cmd_checkisr refills the ISR slots at its start, and  *)
(* its last frame neither carries an ident nor advances txident on the    *)
(* way out, nor has its ident read on the way back (x < DAHDI_CHUNKSIZE-1)*)
(*                                                                         *)
(* Ghost state: gen (a generation bit per slot, flipped at every fill,     *)
(* carried by the hardware's answer as its tag) and lastWr (the value of  *)
(* the latest write the driver enqueued per register).                    *)
(***************************************************************************)
EXTENDS Integers, Sequences, FiniteSets, FiniteSetsExt, SequencesExt

CONSTANTS
    Cards,          \* the cards sharing the frame
    Procs,          \* foreground processes calling wctdm_setreg/getreg
    Addrs,          \* register addresses
    Vals,           \* register values (naturals, 0 included)
    HOOK_STATE,     \* register polled by ISR slot 0 (68 on an FXS)
    LINE_STATE,     \* register polled by ISR slot 1 and the filler (64)
    USER_COMMANDS,  \* foreground slots per card (8 in wctdm24xxp.h)
    IDMOD,          \* modulus of txident/rxident (256: unsigned char)
    FramesPerChunk, \* frames per chunk (DAHDI_CHUNKSIZE)
    LATENCY,        \* frames in flight on the bus at most
    MaxLoss,        \* bound on lost frames
    MaxCalls,       \* bound on foreground and hook requests
    Signals,        \* whether a signal may end a sleep
    VpmCards,       \* the VPM100 echo-canceller chips among Cards (24..27)
    DTMF_ON,        \* a VPM100's DTMF-on interrupt register (0xb9)
    DTMF_OFF,       \* a VPM100's DTMF-off interrupt register (0xbd)
    VPM_FILLER      \* register read by a VPM100's filler (0x1a0)

ASSUME /\ HOOK_STATE \in Addrs /\ LINE_STATE \in Addrs
       /\ 0 \in Vals /\ Vals \subseteq Nat
       /\ USER_COMMANDS \in Nat \ {0}
       /\ IDMOD \in Nat \ {0} /\ FramesPerChunk \in Nat \ {0, 1}
       /\ LATENCY \in Nat \ {0} /\ MaxLoss \in Nat /\ MaxCalls \in Nat
       /\ Signals \in BOOLEAN
       /\ VpmCards \subseteq Cards
       /\ {DTMF_ON, DTMF_OFF, VPM_FILLER} \subseteq Addrs
       /\ VpmCards # {} => Vals = {0, 1}

ISR_COMMANDS == 2
MAX_COMMANDS == USER_COMMANDS + ISR_COMMANDS
Slots     == 0 .. MAX_COMMANDS - 1
UserSlots == 0 .. USER_COMMANDS - 1
IsrSlots  == USER_COMMANDS .. MAX_COMMANDS - 1
Idents    == 0 .. IDMOD - 1

\* A command word.  0x00000000 (a free slot) is Empty; otherwise op is the
\* __CMD_RD/__CMD_WR bit, tx and fin the __CMD_TX/__CMD_FIN bits, ident
\* bits 24..31 and val the low byte.
Empty == [op |-> "none"]
Cmd == [op : {"rd", "wr"}, addr : Addrs, val : Vals,
        tx : BOOLEAN, fin : BOOLEAN, ident : Idents]
CMD_WR(a, b) == [op |-> "wr", addr |-> a, val |-> b,
                 tx |-> FALSE, fin |-> FALSE, ident |-> 0]
CMD_RD(a)    == [op |-> "rd", addr |-> a, val |-> 0,
                 tx |-> FALSE, fin |-> FALSE, ident |-> 0]

NoTag == <<-1, -1>>
Reply == [tag : (Slots \X {0, 1}) \cup {NoTag}, val : Vals]
Frame == [x : 0 .. FramesPerChunk - 1, ident : Idents, reply : [Cards -> Reply]]

VARIABLES
    cmds,       \* cmdq[card].cmds
    isrshadow,  \* cmdq[card].isrshadow
    sethook,    \* sethook[card]: a write waiting for ISR slot 0, or Empty
    txident, rxident,
    pos,        \* command frame within the current chunk
    wire,       \* frames sent and not yet received
    hw,         \* the registers of the cards
    lost,       \* frames lost so far
    pc, req, hit, ret,  \* foreground callers
    calls,      \* requests made so far
    gen, lastWr \* ghost

vars == <<cmds, isrshadow, sethook, txident, rxident, pos, wire, hw, lost,
          pc, req, hit, ret, calls, gen, lastWr>>
busVars  == <<txident, rxident, pos, wire, hw, lost>>
procVars == <<pc, req, hit, ret>>

-----------------------------------------------------------------------------
(* Helpers of the slot store.                                              *)

\* Mutant: the scan runs one slot too far, into the first ISR slot.
empty_slot_past_end(q) ==
    LET free == {x \in 0 .. USER_COMMANDS : q[x] = Empty}
    IN IF free = {} THEN -1 ELSE Min(free)

\* empty_slot: the lowest free foreground slot, or -1.
empty_slot(q) ==
    LET free == {x \in UserSlots : q[x] = Empty}
    IN IF free = {} THEN -1 ELSE Min(free)

\* Mutant: the scan stops at USER_COMMANDS and never sends the ISR slots.
ReadyToSend_user_only(q) ==
    LET ready == {x \in UserSlots : q[x] # Empty /\ ~q[x].tx /\ ~q[x].fin}
    IN IF ready = {} THEN -1 ELSE Min(ready)

\* The scan of cmd_dequeue: the first command neither sent nor finished.
ReadyToSend(q) ==
    LET ready == {x \in Slots : q[x] # Empty /\ ~q[x].tx /\ ~q[x].fin}
    IN IF ready = {} THEN -1 ELSE Min(ready)

\* The scan of cmd_decipher: the first sent, unfinished command with ident i.
AwaitingReply(q, i) ==
    LET cand == {x \in Slots : q[x] # Empty /\ q[x].tx /\ ~q[x].fin
                                /\ q[x].ident = i}
    IN IF cand = {} THEN -1 ELSE Min(cand)

\* Fill slot x of card c, flipping its ghost generation.
Fill(c, x, cmd) ==
    /\ cmds' = [cmds EXCEPT ![c][x] = cmd]
    /\ gen' = [gen EXCEPT ![c][x] = 1 - @]
    /\ lastWr' = IF cmd.op = "wr"
                 THEN [lastWr EXCEPT ![c][cmd.addr] = cmd.val] ELSE lastWr

-----------------------------------------------------------------------------
(* The transmit interrupt: one command frame of wctdm_transmitprep.        *)

\* The registers ISR slots 0 and 1 poll: hook and line state on an FXS,
\* the DTMF-on and DTMF-off interrupts on a VPM100.
IsrReg(c, i) ==
    IF c \in VpmCards THEN <<DTMF_ON, DTMF_OFF>>[i + 1]
    ELSE <<HOOK_STATE, LINE_STATE>>[i + 1]

\* cmd_checkisr: refill free ISR slots, slot 0 with a pending sethook write
\* (consuming it) or the slot-0 poll, slot 1 with the slot-1 poll.
CheckIsr(q, c) ==
    [x \in Slots |->
        IF x = USER_COMMANDS /\ q[x] = Empty
        THEN IF sethook[c] # Empty THEN sethook[c] ELSE CMD_RD(IsrReg(c, 0))
        ELSE IF x = USER_COMMANDS + 1 /\ q[x] = Empty
        THEN CMD_RD(IsrReg(c, 1))
        ELSE q[x]]

\* Mutant: the stamp is written without setting __CMD_TX.
Dequeue_no_tx(q, x) ==
    IF x = -1 THEN q ELSE [q EXCEPT ![x].ident = txident]

\* cmd_dequeue: mark the chosen command sent and stamp it with txident.
Dequeue(q, x) ==
    IF x = -1 THEN q
    ELSE [q EXCEPT ![x].tx = TRUE, ![x].ident = txident]

\* What the card receives: the chosen command, or the filler read
\* (LINE_STATE on an FXS, 0x1a0 on a VPM100).  With FANCY_ECHOCAN, which
\* wctdm24xxp.h defines, some VPM100 fillers are instead writes of the LED
\* register 0x1ab (lines 619-624); no slot ever takes a filler's answer,
\* and no modelled state reads 0x1ab, so the read stands for them.
Sent(q, x, c) ==
    IF x = -1 THEN CMD_RD(IF c \in VpmCards THEN VPM_FILLER ELSE LINE_STATE)
    ELSE q[x]

\* The chip's side of a write.  The DTMF interrupt registers of a VPM100
\* are write-one-to-clear; the model gives them one bit.
ChipWrite(c, r, a, v) ==
    IF c \in VpmCards /\ a \in {DTMF_ON, DTMF_OFF}
    THEN [r EXCEPT ![a] = IF v # 0 THEN 0 ELSE @]
    ELSE [r EXCEPT ![a] = v]

\* Mutant: the interrupt is logged and its shadow cleared, but sethook is
\* never written, so nothing acknowledges it.
VpmCheck_no_ack(q, s, h) ==
    IF s[0] # 0
    THEN [q |-> [q EXCEPT ![USER_COMMANDS] = Empty],
          s |-> [s EXCEPT ![0] = 0], h |-> h]
    ELSE IF s[1] # 0
    THEN [q |-> [q EXCEPT ![USER_COMMANDS + 1] = Empty],
          s |-> [s EXCEPT ![1] = 0], h |-> h]
    ELSE [q |-> q, s |-> s, h |-> h]

\* wctdm_vpm_check (from wctdm_isr_misc, after the whole transmitprep):
\* a DTMF-on interrupt read into isrshadow[0] is written back through
\* sethook, the shadow cleared and ISR slot 0 cancelled, whatever it holds
\* by now; otherwise the same for DTMF-off, isrshadow[1] and slot 1.
\* sethook is overwritten whether or not cmd_checkisr took it.
VpmCheck(q, s, h) ==
    IF s[0] # 0
    THEN [q |-> [q EXCEPT ![USER_COMMANDS] = Empty],
          s |-> [s EXCEPT ![0] = 0], h |-> CMD_WR(DTMF_ON, s[0])]
    ELSE IF s[1] # 0
    THEN [q |-> [q EXCEPT ![USER_COMMANDS + 1] = Empty],
          s |-> [s EXCEPT ![1] = 0], h |-> CMD_WR(DTMF_OFF, s[1])]
    ELSE [q |-> q, s |-> s, h |-> h]

Transmit ==
    /\ Len(wire) < LATENCY
    /\ LET lastFrame == pos = FramesPerChunk - 1
           refill(c) == pos = 0 /\ cmds[c][USER_COMMANDS] = Empty
           q1  == IF pos = 0 THEN [c \in Cards |-> CheckIsr(cmds[c], c)]
                             ELSE cmds
           g1  == [c \in Cards |-> [x \in Slots |->
                     IF pos = 0 /\ x \in IsrSlots /\ cmds[c][x] = Empty
                     THEN 1 - gen[c][x] ELSE gen[c][x]]]
           \* cmd_dequeue sends nothing but the filler in the first frame
           \* of a chunk (if (pos)).
           sel == [c \in Cards |-> IF pos = 0 THEN -1 ELSE ReadyToSend(q1[c])]
           snt == [c \in Cards |-> Sent(q1[c], sel[c], c)]
           q2  == [c \in Cards |-> Dequeue(q1[c], sel[c])]
           h1  == [c \in Cards |-> IF refill(c) THEN Empty ELSE sethook[c]]
           \* wctdm_isr_misc runs once the last frame of the chunk is built.
           vc  == [c \in Cards |->
                     IF c \in VpmCards /\ lastFrame
                     THEN VpmCheck(q2[c], isrshadow[c], h1[c])
                     ELSE [q |-> q2[c], s |-> isrshadow[c], h |-> h1[c]]]
       IN /\ cmds' = [c \in Cards |-> vc[c].q]
          /\ isrshadow' = [c \in Cards |-> vc[c].s]
          /\ sethook' = [c \in Cards |-> vc[c].h]
          /\ gen' = g1
          /\ lastWr' = [c \in Cards |->
                          IF refill(c) /\ sethook[c] # Empty
                          THEN [lastWr[c] EXCEPT ![sethook[c].addr] =
                                                   sethook[c].val]
                          ELSE lastWr[c]]
          /\ hw' = [c \in Cards |->
                      IF snt[c].op = "wr"
                      THEN ChipWrite(c, hw[c], snt[c].addr, snt[c].val)
                      ELSE hw[c]]
          \* The last frame's ident byte is not written; the receiver
          \* never reads it, and the model leaves it 0.
          /\ wire' = Append(wire,
                [x |-> pos,
                 ident |-> IF lastFrame THEN 0 ELSE txident,
                 reply |-> [c \in Cards |->
                   [tag |-> IF sel[c] = -1 THEN NoTag
                            ELSE <<sel[c], g1[c][sel[c]]>>,
                    val |-> IF snt[c].op = "wr" THEN snt[c].val
                            ELSE hw[c][snt[c].addr]]]])
          /\ txident' = IF lastFrame THEN txident
                         ELSE (txident + 1) % IDMOD
          /\ pos' = (pos + 1) % FramesPerChunk
          /\ UNCHANGED <<rxident, lost, procVars, calls>>

-----------------------------------------------------------------------------
(* The receive interrupt: one command frame of wctdm_receiveprep.          *)

\* Mutant: a gap in the idents is counted but nothing is retransmitted.
Retransmit_none(q) == q

\* cmd_retransmit: every unfinished command of the first wc->cards cards
\* loses its __CMD_TX bit and ident; the VPM100 queues (24..27) are not
\* among them and keep theirs.
Retransmit(q) ==
    [c \in Cards |-> [x \in Slots |->
        IF c \notin VpmCards /\ q[c][x] # Empty /\ ~q[c][x].fin
        THEN [q[c][x] EXCEPT !.tx = FALSE, !.ident = 0]
        ELSE q[c][x]]]

\* cmd_decipher of card c with the frame's answer r: store the byte and set
\* __CMD_FIN; writes and ISR reads are cleared at once.
Decipher(q, i, r) ==
    LET x == AwaitingReply(q, i)
    IN IF x = -1 THEN q
       ELSE IF q[x].op = "wr" \/ x \in IsrSlots THEN [q EXCEPT ![x] = Empty]
       ELSE [q EXCEPT ![x].val = r.val, ![x].fin = TRUE]

ShadowUpdate(q, i, r, s) ==
    LET x == AwaitingReply(q, i)
    IN IF x # -1 /\ q[x].op = "rd" /\ x \in IsrSlots
       THEN [s EXCEPT ![x - USER_COMMANDS] = r.val]
       ELSE s

Receive ==
    /\ wire # <<>>
    /\ LET f  == Head(wire)
           \* the last frame keeps the rxident of the frame before it
           last == f.x = FramesPerChunk - 1
           rx == IF last THEN rxident ELSE f.ident
           q0 == IF ~last /\ f.ident # (rxident + 1) % IDMOD
                 THEN Retransmit(cmds) ELSE cmds
       IN /\ rxident' = rx
          /\ cmds' = [c \in Cards |-> Decipher(q0[c], rx, f.reply[c])]
          /\ isrshadow' = [c \in Cards |->
                  ShadowUpdate(q0[c], rx, f.reply[c], isrshadow[c])]
          /\ wire' = Tail(wire)
          /\ UNCHANGED <<sethook, txident, pos, hw, lost, procVars, calls,
                         gen, lastWr>>

\* A frame is dropped by the bus (a missed interrupt, a ring overrun).
LoseFrame ==
    /\ lost < MaxLoss
    /\ \E i \in 1 .. Len(wire) : wire' = RemoveAt(wire, i)
    /\ lost' = lost + 1
    /\ UNCHANGED <<cmds, isrshadow, sethook, txident, rxident, pos, hw,
                   procVars, calls, gen, lastWr>>

-----------------------------------------------------------------------------
(* Foreground register access.                                             *)

\* A process reaches a VPM100 only through wctdm_vpm_out, from
\* echocan_create and echocan_free: a write of an echo-canceller channel
\* register, never of the DTMF interrupt registers.
EchocanTarget(c, op, a) ==
    c \in VpmCards => op = "setreg" /\ a \notin {DTMF_ON, DTMF_OFF}

\* A process starts wctdm_setreg(card, addr, val) or wctdm_getreg(card, addr).
Call(p) ==
    /\ pc[p] = "idle"
    /\ calls < MaxCalls
    /\ \E c \in Cards, a \in Addrs, v \in Vals, op \in {"setreg", "getreg"} :
          /\ EchocanTarget(c, op, a)
          /\ pc' = [pc EXCEPT ![p] = op]
          /\ req' = [req EXCEPT ![p] = [card |-> c, addr |-> a, val |-> v]]
    /\ calls' = calls + 1
    /\ UNCHANGED <<cmds, isrshadow, sethook, busVars, hit, ret, gen, lastWr>>

\* wctdm_setreg_full(inisr = 0): take the lowest free slot and return 0.
\* With no free slot the caller sleeps until a receive interrupt wakes it.
Setreg(p) ==
    /\ pc[p] = "setreg"
    /\ LET c == req[p].card  x == empty_slot(cmds[c])
       IN /\ x # -1
          /\ Fill(c, x, CMD_WR(req[p].addr, req[p].val))
    /\ pc' = [pc EXCEPT ![p] = "idle"]
    /\ ret' = [ret EXCEPT ![p] = 0]
    /\ UNCHANGED <<isrshadow, sethook, busVars, req, hit, calls>>

\* wctdm_getreg, first loop: enqueue CMD_RD into the lowest free slot.
GetregEnqueue(p) ==
    /\ pc[p] = "getreg"
    /\ LET c == req[p].card  x == empty_slot(cmds[c])
       IN /\ x # -1
          /\ Fill(c, x, CMD_RD(req[p].addr))
          /\ hit' = [hit EXCEPT ![p] = x]
    /\ pc' = [pc EXCEPT ![p] = "getreg_wait"]
    /\ UNCHANGED <<isrshadow, sethook, busVars, req, ret, calls>>

\* wctdm_getreg, second loop: once __CMD_FIN is set, take the byte and free
\* the slot.
GetregFinish(p) ==
    /\ pc[p] = "getreg_wait"
    /\ LET c == req[p].card  x == hit[p]
       IN /\ cmds[c][x].fin
          /\ ret' = [ret EXCEPT ![p] = cmds[c][x].val]
          /\ cmds' = [cmds EXCEPT ![c][x] = Empty]
    /\ pc' = [pc EXCEPT ![p] = "idle"]
    /\ hit' = [hit EXCEPT ![p] = -1]
    /\ UNCHANGED <<isrshadow, sethook, busVars, req, calls, gen, lastWr>>

\* schluffen returns -ERESTARTSYS: a signal ends either sleep, and the
\* caller returns at once.
Interrupt(p) ==
    /\ Signals
    /\ pc[p] \in {"setreg", "getreg", "getreg_wait"}
    /\ pc' = [pc EXCEPT ![p] = "idle"]
    /\ ret' = [ret EXCEPT ![p] = -1]
    /\ hit' = [hit EXCEPT ![p] = -1]
    /\ UNCHANGED <<cmds, isrshadow, sethook, busVars, req, calls, gen, lastWr>>

\* wctdm_setreg_intr (wctdm_setreg_full with inisr = 1), called from the
\* interrupt (by the FXO hook check): take a free slot, or drop the write
\* without retrying.
SetregIntr ==
    /\ calls < MaxCalls
    /\ calls' = calls + 1
    /\ \E c \in Cards \ VpmCards, a \in Addrs, v \in Vals :
          LET x == empty_slot(cmds[c])
          IN IF x # -1 THEN Fill(c, x, CMD_WR(a, v))
             ELSE UNCHANGED <<cmds, gen, lastWr>>
    /\ UNCHANGED <<isrshadow, sethook, busVars, procVars>>

\* wctdm_hooksig on an FXS: post CMD_WR(LINE_STATE, lasttxhook) in sethook,
\* replacing a write not yet taken by cmd_checkisr.
Hooksig ==
    /\ calls < MaxCalls
    /\ calls' = calls + 1
    /\ \E c \in Cards \ VpmCards, v \in Vals :
          sethook' = [sethook EXCEPT ![c] = CMD_WR(LINE_STATE, v)]
    /\ UNCHANGED <<cmds, isrshadow, busVars, procVars, gen, lastWr>>

\* A VPM100 detects the start or the end of a DTMF digit on a channel and
\* raises the bit in its DTMF-on or DTMF-off interrupt register.
DtmfDetect ==
    /\ calls < MaxCalls
    /\ calls' = calls + 1
    /\ \E c \in VpmCards, a \in {DTMF_ON, DTMF_OFF} :
          /\ hw[c][a] = 0
          /\ hw' = [hw EXCEPT ![c][a] = 1]
    /\ UNCHANGED <<cmds, isrshadow, sethook, txident, rxident, pos, wire,
                   lost, procVars, gen, lastWr>>

-----------------------------------------------------------------------------
Init ==
    /\ cmds = [c \in Cards |-> [x \in Slots |-> Empty]]
    /\ isrshadow = [c \in Cards |-> [i \in 0 .. ISR_COMMANDS - 1 |-> 0]]
    /\ sethook = [c \in Cards |-> Empty]
    \* wctdm_init_one sets txident = 1 before starting the bus; rxident is 0.
    /\ txident = 1 % IDMOD /\ rxident = 0 /\ pos = 0
    /\ wire = <<>>
    /\ hw = [c \in Cards |-> [a \in Addrs |-> 0]]
    /\ lost = 0
    /\ pc = [p \in Procs |-> "idle"]
    /\ req = [p \in Procs |-> [card |-> CHOOSE c \in Cards : TRUE,
                               addr |-> LINE_STATE, val |-> 0]]
    /\ hit = [p \in Procs |-> -1]
    /\ ret = [p \in Procs |-> 0]
    /\ calls = 0
    /\ gen = [c \in Cards |-> [x \in Slots |-> 0]]
    /\ lastWr = [c \in Cards |-> [a \in Addrs |-> 0]]

Next ==
    \/ Transmit \/ Receive \/ LoseFrame
    \/ SetregIntr \/ Hooksig \/ DtmfDetect
    \/ \E p \in Procs : Call(p) \/ Setreg(p) \/ GetregEnqueue(p)
                        \/ GetregFinish(p) \/ Interrupt(p)

\* The bus interrupts run at the fixed frame rate and the scheduler runs a
\* woken process; losses and signals are not forced.
Fairness ==
    /\ WF_vars(Transmit) /\ WF_vars(Receive)
    /\ \A p \in Procs : WF_vars(Setreg(p)) /\ WF_vars(GetregEnqueue(p))
                        /\ WF_vars(GetregFinish(p))

Spec == Init /\ [][Next]_vars /\ Fairness

-----------------------------------------------------------------------------
TypeOK ==
    /\ cmds \in [Cards -> [Slots -> Cmd \cup {Empty}]]
    /\ isrshadow \in [Cards -> [0 .. ISR_COMMANDS - 1 -> Vals]]
    /\ sethook \in [Cards -> Cmd \cup {Empty}]
    /\ txident \in Idents /\ rxident \in Idents
    /\ pos \in 0 .. FramesPerChunk - 1
    /\ wire \in Seq(Frame) /\ Len(wire) <= LATENCY
    /\ hw \in [Cards -> [Addrs -> Vals]]
    /\ pc \in [Procs -> {"idle", "setreg", "getreg", "getreg_wait"}]
    /\ hit \in [Procs -> UserSlots \cup {-1}]
    /\ gen \in [Cards -> [Slots -> {0, 1}]]

\* A receive step completes command x of card c: the slot is cleared or
\* gets __CMD_FIN.
Completes(c, x) ==
    /\ wire # <<>> /\ wire' = Tail(wire) /\ lost' = lost
    /\ cmds[c][x] # Empty /\ ~cmds[c][x].fin
    /\ \/ cmds'[c][x] = Empty
       \/ cmds'[c][x] # Empty /\ cmds'[c][x].fin

\* The returned frame carries the hardware's answer to that very command
\* (same slot, same fill).
AnsweredBy(c, x) == Head(wire).reply[c].tag = <<x, gen[c][x]>>

\* Reply correlation (cmd_decipher): whenever a frame that carries an
\* ident of its own completes a command, the byte it stores is the
\* hardware's answer to that very command, never to a filler, to another
\* slot or to an earlier occupant, across lost frames, retransmissions and
\* ident wrap.  The first frame of a chunk is left out: it carries the
\* ident with which the previous chunk's last frame was stamped (see
\* ReplyMatchingAll).
ReplyMatching ==
    [][\A c \in Cards, x \in Slots :
         Completes(c, x) /\ Head(wire).x # 0 => AnsweredBy(c, x)]_vars

\* The same for every frame: a command sent in the last frame of a chunk
\* is stamped with the txident that the next chunk's first frame carries,
\* and is completed by that frame's answer.
ReplyMatchingAll ==
    [][\A c \in Cards, x \in Slots : Completes(c, x) => AnsweredBy(c, x)]_vars

\* Every wctdm_setreg/wctdm_getreg call eventually returns, in spite of lost
\* frames (resynchronisation by cmd_retransmit).
CallsReturn == \A p \in Procs : pc[p] # "idle" ~> pc[p] = "idle"

\* The hook-state poll of ISR slot 0 completes again and again, so the
\* hook debouncer keeps receiving fresh values.
HookPolled == \A c \in Cards : []<>(cmds[c][USER_COMMANDS] = Empty)

\* Program order: once no write of a register is queued any more, the
\* register holds the value of the write the driver enqueued last.
ProgramOrder ==
    \A c \in Cards \ VpmCards, a \in Addrs :
        (\A x \in Slots : cmds[c][x] = Empty \/ cmds[c][x].op # "wr"
                          \/ cmds[c][x].addr # a)
        => hw[c][a] = lastWr[c][a]

\* Cancellation (spec 5): a foreground read slot is only occupied while the
\* caller that enqueued it still waits for it; an interrupted wait does not
\* leave the slot behind.
NoOrphanRead ==
    \A c \in Cards, x \in UserSlots :
        (cmds[c][x] # Empty /\ cmds[c][x].op = "rd")
        => \E p \in Procs : pc[p] = "getreg_wait" /\ req[p].card = c
                            /\ hit[p] = x
\* DTMF interrupts are acknowledged (wctdm_vpm_check, cmd_checkisr): an
\* interrupt bit a VPM100 raises is eventually cleared by the write-back of
\* the bits read, although wctdm_vpm_check cancels whatever ISR slot it
\* finds, overwrites sethook and frames are lost.
DtmfAcknowledged ==
    \A c \in VpmCards, a \in {DTMF_ON, DTMF_OFF} : hw[c][a] # 0 ~> hw[c][a] = 0

\* An acknowledgement is never withdrawn: a DTMF write-back that
\* cmd_checkisr moved from sethook into ISR slot 0 leaves the slot only
\* once it has reached the chip, never through the cancellation in
\* wctdm_vpm_check of a slot still waiting behind a foreground command.
AckNotCancelled ==
    [][\A c \in VpmCards :
         LET w == cmds[c][USER_COMMANDS]
         IN (w # Empty /\ w.op = "wr" /\ ~w.tx) =>
              \/ cmds'[c][USER_COMMANDS] # Empty
              \/ hw'[c][w.addr] = 0]_vars
=============================================================================
