-------------------------------- MODULE Dacs --------------------------------
(***************************************************************************)
(* Native bridging of two ports through the TDM bus (base.c, wctdm_dacs, *)
(* wctdm_dacs_connect and wctdm_dacs_disconnect).                          *)
(*                                                                         *)
(* Every port transmits and receives on a TDM slot whose start count is   *)
(* kept in two registers of the module (PCM_XMIT/RCV_START_COUNT_LSB/MSB *)
(* on a ProSLIC, registers 34..37 on a DAA).  The model keeps the slot    *)
(* number, start count / 8: card on its own slot, card + 24 when it       *)
(* transmits for a bridge.  wc->dacssrc[dst] is the source a destination  *)
(* receives from, or -1.  DAHDI calls wctdm_dacs with src to bridge and   *)
(* without it to undo a bridge; the calls of one span are not concurrent, *)
(* so each is one step.                                                    *)
(***************************************************************************)
EXTENDS Integers

CONSTANTS
    Cards,        \* card indices, a small set of naturals
    modtype,      \* wc->modtype: Cards -> {"FXS", "FXO", "QRV", "NONE"}
    nativebridge  \* module parameter

\* The slot offset of a bridged source: srccard + 24.
BRIDGE_OFFSET == 24

VARIABLES
    dacssrc,  \* wc->dacssrc
    txslot,   \* transmit start count / 8, per card
    rxslot    \* receive start count / 8, per card

vars == <<dacssrc, txslot, rxslot>>

Analog(c) == modtype[c] \in {"FXS", "FXO"}

\* wctdm_dacs_connect: refuses a destination that already has a source
\* and any card that is neither FXS nor FXO; otherwise the source sends on
\* srccard + 24 and the destination listens there.
Connect(src, dst) ==
    /\ nativebridge # 0
    /\ dacssrc[dst] = -1
    /\ Analog(src) /\ Analog(dst)
    /\ dacssrc' = [dacssrc EXCEPT ![dst] = src]
    /\ txslot' = [txslot EXCEPT ![src] = src + BRIDGE_OFFSET]
    /\ rxslot' = [rxslot EXCEPT ![dst] = src + BRIDGE_OFFSET]

\* Mutant: the receive slot of the destination is not restored.
Disconnect_keep_rx(card) ==
    LET s == dacssrc[card] IN
    /\ nativebridge # 0
    /\ s # -1
    /\ txslot' = IF modtype[s] = "FXS" THEN [txslot EXCEPT ![s] = s]
                 ELSE IF modtype[s] = "FXO" /\ modtype[card] = "FXO"
                 THEN [txslot EXCEPT ![card] = card]
                 ELSE txslot
    /\ dacssrc' = [dacssrc EXCEPT ![card] = -1]
    /\ UNCHANGED rxslot

\* Mutant: a ProSLIC source gets the destination's own slot back.
Disconnect_wrong_slot(card) ==
    LET s == dacssrc[card] IN
    /\ nativebridge # 0
    /\ s # -1
    /\ txslot' = IF modtype[s] = "FXS" THEN [txslot EXCEPT ![s] = card]
                 ELSE IF modtype[s] = "FXO" /\ modtype[card] = "FXO"
                 THEN [txslot EXCEPT ![card] = card]
                 ELSE txslot
    /\ rxslot' = IF Analog(card) THEN [rxslot EXCEPT ![card] = card] ELSE rxslot
    /\ dacssrc' = [dacssrc EXCEPT ![card] = -1]

\* wctdm_dacs_disconnect: restores the transmit slot of the source and the
\* receive slot of this card.  For a DAA source the code writes registers
\* 34/35 of `card`, the destination, not of wc->dacssrc[card]: the DAA's
\* transmit slot if `card` is a DAA, two registers that hold no PCM slot
\* if it is a ProSLIC (whose slot registers are PCM_XMIT_START_COUNT_*);
\* the source keeps its bridge slot either way.
Disconnect(card) ==
    LET s == dacssrc[card] IN
    /\ nativebridge # 0
    /\ s # -1
    /\ txslot' = IF modtype[s] = "FXS" THEN [txslot EXCEPT ![s] = s]
                 ELSE IF modtype[s] = "FXO" /\ modtype[card] = "FXO"
                 THEN [txslot EXCEPT ![card] = card]
                 ELSE txslot
    /\ rxslot' = IF Analog(card) THEN [rxslot EXCEPT ![card] = card] ELSE rxslot
    /\ dacssrc' = [dacssrc EXCEPT ![card] = -1]

\* wctdm_init_one (dacssrc) and the module init (registers 34..37 and the
\* ProSLIC PCM start counts at card * 8).
Init ==
    /\ dacssrc = [c \in Cards |-> -1]
    /\ txslot = [c \in Cards |-> c]
    /\ rxslot = [c \in Cards |-> c]

Next ==
    \/ \E src, dst \in Cards : Connect(src, dst)
    \/ \E c \in Cards : Disconnect(c)

Spec == Init /\ [][Next]_vars

-----------------------------------------------------------------------------
Slots == Cards \cup {c + BRIDGE_OFFSET : c \in Cards}

\* Types; a card transmits only on its own slot or on its bridge slot.
TypeOK ==
    /\ dacssrc \in [Cards -> Cards \cup {-1}]
    /\ txslot \in [Cards -> Slots]
    /\ \A c \in Cards : txslot[c] \in {c, c + BRIDGE_OFFSET}
    /\ rxslot \in [Cards -> Slots]

\* A bridged destination hears its source: every destination with a
\* source listens on the slot that source transmits on, whatever other
\* bridges were made and undone (connect and disconnect in any order).
BridgeHeard ==
    \A d \in Cards : dacssrc[d] # -1 => rxslot[d] = txslot[dacssrc[d]]

\* Undoing bridges restores the ports: a card that is nobody's source
\* transmits on its own slot, and a card without a source listens on its
\* own slot, so it is heard by, and hears, the span again.
Restored ==
    /\ \A c \in Cards : (\A d \in Cards : dacssrc[d] # c) => txslot[c] = c
    /\ \A c \in Cards : dacssrc[c] = -1 => rxslot[c] = c
=============================================================================
