------------------------------ MODULE Lifecycle ------------------------------
(***************************************************************************)
(* The lifetime of a board (base.c): wctdm_open and wctdm_close count the *)
(* channels in use in wc->usecount; wctdm_remove_one releases the board   *)
(* at once when nothing is open and otherwise marks it dead, and the      *)
(* close that brings usecount to zero on a dead board releases it.        *)
(*                                                                         *)
(* No lock is held around usecount and dead: open and close run in the    *)
(* process that opens or closes a channel, remove in the PCI hot-unplug   *)
(* path.  usecount++ and usecount-- are a read and a write, and the test  *)
(* `!wc->usecount && wc->dead` at the end of close reads usecount again.  *)
(* `freed` counts the calls of wctdm_release (free_wc).                   *)
(*                                                                         *)
(* The board comes up through the module detection of ModuleDetect:      *)
(* channels can be opened, and the board removed, only once wctdm_init_one *)
(* has registered the span, and wctdm_open refuses a port whose cardflag  *)
(* bit detection left clear.                                              *)
(***************************************************************************)
EXTENDS ModuleDetect

CONSTANTS
    Users,     \* channels opened by user processes
    MaxOpens   \* opens per user

VARIABLES
    usecount,  \* wc->usecount
    dead,      \* wc->dead
    freed,     \* calls of wctdm_release
    holds,     \* holds[u]: u has the channel open and has not closed it
    pc,        \* "idle", "open" (usecount read), "dec" (read), "chk"
    tmp,       \* the usecount value a user read
    opens,     \* opens so far per user
    rstep      \* wctdm_remove_one: "idle", "free" or "mark" (tested), "done"

lcVars == <<usecount, dead, freed, holds, pc, tmp, opens, rstep>>

vars == <<lcVars, detVars>>

\* wctdm_open up to usecount++ on port p: the span is registered and
\* nothing freed; a port without its cardflag bit, or a dead board,
\* returns -ENODEV; otherwise usecount is read.
OpenRead(u, p) ==
    /\ phase = "registered"
    /\ pc[u] = "idle" /\ ~holds[u] /\ opens[u] < MaxOpens /\ freed = 0
    /\ opens' = [opens EXCEPT ![u] = @ + 1]
    /\ IF p \notin cardflag \/ dead THEN UNCHANGED <<pc, tmp>>
       ELSE /\ pc' = [pc EXCEPT ![u] = "open"]
            /\ tmp' = [tmp EXCEPT ![u] = usecount]
    /\ UNCHANGED <<usecount, dead, freed, holds, rstep>>

\* The write of usecount++; the channel is open.
OpenWrite(u) ==
    /\ pc[u] = "open"
    /\ usecount' = tmp[u] + 1
    /\ holds' = [holds EXCEPT ![u] = TRUE]
    /\ pc' = [pc EXCEPT ![u] = "idle"]
    /\ UNCHANGED <<dead, freed, tmp, opens, rstep>>

\* Mutant: close is entered for a channel that is not open.
CloseRead_unguarded(u) ==
    /\ pc[u] = "idle"
    /\ holds' = [holds EXCEPT ![u] = FALSE]
    /\ pc' = [pc EXCEPT ![u] = "dec"]
    /\ tmp' = [tmp EXCEPT ![u] = usecount]
    /\ UNCHANGED <<usecount, dead, freed, opens, rstep>>

\* The user closes the channel: wctdm_close reads usecount for usecount--.
CloseRead(u) ==
    /\ pc[u] = "idle" /\ holds[u]
    /\ holds' = [holds EXCEPT ![u] = FALSE]
    /\ pc' = [pc EXCEPT ![u] = "dec"]
    /\ tmp' = [tmp EXCEPT ![u] = usecount]
    /\ UNCHANGED <<usecount, dead, freed, opens, rstep>>

\* The write of usecount--.
CloseWrite(u) ==
    /\ pc[u] = "dec"
    /\ usecount' = tmp[u] - 1
    /\ pc' = [pc EXCEPT ![u] = "chk"]
    /\ UNCHANGED <<dead, freed, holds, tmp, opens, rstep>>

\* The end of wctdm_close: if (!wc->usecount && wc->dead) wctdm_release.
CloseCheck(u) ==
    /\ pc[u] = "chk"
    /\ freed' = IF usecount = 0 /\ dead THEN freed + 1 ELSE freed
    /\ pc' = [pc EXCEPT ![u] = "idle"]
    /\ UNCHANGED <<usecount, dead, holds, tmp, opens, rstep>>

\* wctdm_remove_one, after the hardware is stopped: `if (!wc->usecount)`
\* is read first (line 3855), and the release or `wc->dead = 1` that it
\* chooses comes after, with no lock around the two.
RemoveTest ==
    /\ phase = "registered" /\ rstep = "idle"
    /\ rstep' = IF usecount = 0 THEN "free" ELSE "mark"
    /\ UNCHANGED <<usecount, dead, freed, holds, pc, tmp, opens>>

\* Line 3856 (wctdm_release) or line 3860 (wc->dead = 1).
RemoveFinish ==
    /\ rstep \in {"free", "mark"}
    /\ IF rstep = "free" THEN freed' = freed + 1 /\ UNCHANGED dead
       ELSE dead' = TRUE /\ UNCHANGED freed
    /\ rstep' = "done"
    /\ UNCHANGED <<usecount, holds, pc, tmp, opens>>

\* wctdm_remove_one has returned.
removed == rstep = "done"

\* wctdm_init_one: detection starts, nothing is open.
Init ==
    /\ DetectInit
    /\ usecount = 0
    /\ dead = FALSE
    /\ freed = 0
    /\ holds = [u \in Users |-> FALSE]
    /\ pc = [u \in Users |-> "idle"]
    /\ tmp = [u \in Users |-> 0]
    /\ opens = [u \in Users |-> 0]
    /\ rstep = "idle"

LifeNext ==
    \/ RemoveTest \/ RemoveFinish
    \/ \E u \in Users :
          \/ \E p \in PortSet : OpenRead(u, p)
          \/ OpenWrite(u)
          \/ CloseRead(u) \/ CloseWrite(u) \/ CloseCheck(u)

Next ==
    \/ DetectNext /\ UNCHANGED lcVars
    \/ LifeNext /\ UNCHANGED detVars

\* A call that has started runs to its end, and so does the probe, which
\* runs in the process loading the driver; nobody has to close.
Fairness ==
    WF_detVars(Probe) /\ WF_detVars(Register) /\ WF_lcVars(RemoveFinish) /\
    \A u \in Users : WF_lcVars(OpenWrite(u)) /\ WF_lcVars(CloseWrite(u))
                     /\ WF_lcVars(CloseCheck(u))

Spec == Init /\ [][Next]_vars /\ Fairness

-----------------------------------------------------------------------------
\* Types; usecount never goes below zero.
TypeOK ==
    /\ DetectTypeOK
    /\ usecount \in 0 .. Cardinality(Users) * MaxOpens
    /\ dead \in BOOLEAN /\ rstep \in {"idle", "free", "mark", "done"}
    /\ freed \in Nat
    /\ holds \in [Users -> BOOLEAN]
    /\ pc \in [Users -> {"idle", "open", "dec", "chk"}]
    /\ opens \in [Users -> 0 .. MaxOpens]

\* The board is released at most once: neither two closes nor a close and
\* the remove both call wctdm_release.
ReleaseOnce == freed <= 1

\* Nothing uses a released board: once wctdm_release has run no channel
\* is open and no open or close is still inside the driver.
NoUseAfterFree ==
    freed > 0 => \A u \in Users : ~holds[u] /\ pc[u] = "idle"

\* A probe that fails after the hardware was started (dahdi_register
\* failing at the end of wctdm_init_one) releases the board: the PCI core
\* never calls wctdm_remove_one for a device whose probe failed.
FailedProbeReleases == phase = "failed" => freed > 0

\* A removed board whose channels have all been closed is released
\* (it is not leaked because usecount stayed above zero).
Released ==
    [](removed /\ (\A u \in Users : ~holds[u]) => <>(freed > 0))
=============================================================================
