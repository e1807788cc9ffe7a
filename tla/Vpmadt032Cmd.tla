----------------------------- MODULE Vpmadt032Cmd -----------------------------
(***************************************************************************)
(* The VPMADT032 coprocessor command channel                               *)
(* (src/linux/drivers/dahdi/voicebus/GpakCust.c and its bus side in        *)
(* src/linux/drivers/dahdi/wctdm24xxp/base.c).                              *)
(*                                                                         *)
(* Commands are objects that live on one of three lists of struct          *)
(* vpmadt032: free_cmds, pending_cmds (waiting for the bus) and            *)
(* active_cmds (sent, waiting for the reply), or are held by the caller    *)
(* that took them.  vpmadt032_get_free_cmd pops the free list or kmallocs *)
(* a new command (which can fail).  Every command frame, the transmit path *)
(* (cmd_dequeue_vpmadt032 through vpmadt032_get_ready_cmd) moves the       *)
(* oldest pending command to active_cmds and stamps it with txident; the   *)
(* receive path (cmd_decipher_vpmadt032) completes the head of            *)
(* active_cmds when its stamp equals rxident, and on an ident gap          *)
(* cmd_vpmadt032_retransmit moves every active command to the tail of     *)
(* pending_cmds.  The DSP memory is paged: vpmadt032_setpage caches the   *)
(* page last requested in curpage and only sends a page-change write when *)
(* the page differs.                                                       *)
(*                                                                         *)
(* The callers are the G.PAK memory primitives gpakReadDspMemory and      *)
(* gpakWriteDspMemory.                                                     *)
(*                                                                         *)
(* Ghost state: gen (a generation bit per command object, flipped when the *)
(* object is handed out, carried by the hardware's answer as its tag) and *)
(* lastWr (the value of the latest write enqueued per DSP word).          *)
(***************************************************************************)
EXTENDS Integers, Sequences, FiniteSets, SequencesExt

CONSTANTS
    Procs,            \* callers of the G.PAK memory primitives
    CmdIds,           \* command objects kmalloc can hand out
    None,             \* NULL: no command
    Pages,            \* DSP memory pages (addr >> 16, masked to 4 bits)
    Offs,             \* word offsets within a page
    Vals,             \* data words
    NoPage,           \* curpage before the first vpmadt032_setpage (0x80)
    VPM150M_MAX_COMMANDS, \* largest block read issued asynchronously, + 1
    MaxWords,         \* largest NumWords of a request
    IDMOD,            \* modulus of txident/rxident (256: unsigned char)
    FramesPerChunk,   \* frames per chunk (DAHDI_CHUNKSIZE)
    LATENCY,          \* frames in flight on the bus at most
    MaxLoss,          \* bound on lost frames
    MaxAllocFail,     \* bound on failed kmallocs
    MaxOps            \* bound on G.PAK memory requests

ASSUME /\ None \notin CmdIds /\ NoPage \notin Pages /\ Pages \subseteq Vals /\ 0 \in Vals
       /\ MaxWords \in Nat \ {0} /\ VPM150M_MAX_COMMANDS \in Nat
       /\ IDMOD \in Nat \ {0} /\ LATENCY \in Nat \ {0}
       /\ FramesPerChunk \in Nat \ {0, 1}
       /\ MaxLoss \in Nat /\ MaxAllocFail \in Nat /\ MaxOps \in Nat

Idents == 0 .. IDMOD - 1
Words  == 0 .. MaxWords - 1

\* struct vpmadt032_cmd: desc (__VPM150M_RD/WR, __VPM150M_RWPAGE,
\* __VPM150M_TX, __VPM150M_FIN), address, data and txident.
Cmd == [op : {"rd", "wr"}, rwpage : BOOLEAN, addr : Offs \cup {0},
        data : Vals, tx : BOOLEAN, fin : BOOLEAN, ident : Idents]
NewCmd(o, pg, a, d) == [op |-> o, rwpage |-> pg, addr |-> a, data |-> d,
                        tx |-> FALSE, fin |-> FALSE, ident |-> 0]

\* The contents of a command on free_cmds are never read before
\* vpmadt032_getreg_full_async or vpmadt032_setreg_full overwrites them;
\* they are kept at one value.
Blank == NewCmd("rd", FALSE, 0, 0)

NoTag == <<None, 0>>
Frame == [x : 0 .. FramesPerChunk - 1, ident : Idents,
          tag : (CmdIds \X {0, 1}) \cup {NoTag}, data : Vals]

\* A request of a caller: gpakReadDspMemory or gpakWriteDspMemory of n
\* words from offset off of page page.
Request == [kind : {"read", "write"}, page : Pages, off : Offs,
            n : 1 .. MaxWords, vals : [Words -> Vals]]

VARIABLES
    cmd,        \* the contents of every command object
    alloc,      \* the command objects kmalloc has handed out
    free, pending, active,  \* free_cmds, pending_cmds, active_cmds
    curpage,    \* vpm->curpage
    txident, rxident,
    pos,        \* frame within the current chunk
    wire,       \* frames sent and not yet received
    mem, hwpage,\* the DSP memory and its page register
    lost, allocFails,
    pc, req, i, handles, out, ops,  \* the callers
    gen, lastWr \* ghost

vars == <<cmd, alloc, free, pending, active, curpage, txident, rxident, pos, wire,
          mem, hwpage, lost, allocFails, pc, req, i, handles, out, ops,
          gen, lastWr>>
listVars == <<cmd, alloc, free, pending, active, allocFails, gen>>
busVars  == <<txident, rxident, pos, wire, mem, hwpage, lost>>

-----------------------------------------------------------------------------
(* Commands and lists.                                                     *)

\* vpmadt032_get_free_cmd: pop the head of free_cmds, or kmalloc a new
\* command, which may fail (id is None).  Defines cmd', alloc', free',
\* allocFails' and gen'; the caller receives the object as id.
GetFreeCmd(id) ==
    \/ /\ free # <<>>
       /\ id = Head(free)
       /\ free' = Tail(free)
       /\ UNCHANGED <<alloc, allocFails>>
    \/ /\ free = <<>>
       /\ id \in CmdIds \ alloc
       /\ alloc' = alloc \cup {id}
       /\ UNCHANGED <<free, allocFails>>
    \/ /\ free = <<>>
       /\ allocFails < MaxAllocFail
       /\ id = None
       /\ allocFails' = allocFails + 1
       /\ UNCHANGED <<alloc, free>>

\* Hand the object out with the given contents and append it to
\* pending_cmds (vpmadt032_getreg_full_async, vpmadt032_setreg_full).
Issue(id, c) ==
    /\ cmd' = [cmd EXCEPT ![id] = c]
    /\ gen' = [gen EXCEPT ![id] = 1 - @]
    /\ pending' = Append(pending, id)

\* Mutant: the last pending command is never taken.
GetReadyCmd_all_but_last ==
    IF active = <<>> /\ Len(pending) > 1 THEN Head(pending) ELSE None

\* vpmadt032_get_ready_cmd (GpakCust.h): the oldest pending command, sent
\* only while no command is in flight.
GetReadyCmd == IF active = <<>> /\ pending # <<>> THEN Head(pending) ELSE None

\* What the DSP does with command c: the page register, a memory word, or
\* the answer of a read.
Execute(c) ==
    CASE c.rwpage /\ c.op = "wr" -> [page |-> c.data, mem |-> mem,
                                      ans |-> c.data]
      [] c.rwpage                -> [page |-> hwpage, mem |-> mem,
                                      ans |-> hwpage]
      [] c.op = "wr"             -> [page |-> hwpage,
                                      mem |-> [mem EXCEPT ![hwpage][c.addr] =
                                                              c.data],
                                      ans |-> c.data]
      [] OTHER                   -> [page |-> hwpage, mem |-> mem,
                                      ans |-> mem[hwpage][c.addr]]


-----------------------------------------------------------------------------
(* The bus.                                                                *)

\* cmd_dequeue_vpmadt032 in one frame of wctdm_transmitprep: the ready
\* command is sent (and marked sent) stamped with txident, the DSP executes
\* it and answers in the returned frame of the same position; otherwise
\* zeros are sent.  Every frame but the last of a chunk carries txident
\* and advances it; the last carries none (x < DAHDI_CHUNKSIZE - 1).
Transmit ==
    /\ Len(wire) < LATENCY
    /\ LET id == GetReadyCmd
           x  == IF id = None THEN [page |-> hwpage, mem |-> mem, ans |-> 0]
                 ELSE Execute(cmd[id])
       IN /\ IF id = None THEN UNCHANGED <<cmd, pending, active>>
             ELSE /\ pending' = SelectSeq(pending, LAMBDA e : e # id)
                  /\ active' = Append(active, id)
                  /\ cmd' = [cmd EXCEPT ![id].tx = TRUE,
                                        ![id].ident = txident]
          /\ hwpage' = x.page
          /\ mem' = x.mem
          /\ wire' = Append(wire,
                [x |-> pos,
                 ident |-> IF pos = FramesPerChunk - 1 THEN 0 ELSE txident,
                 tag |-> IF id = None THEN NoTag ELSE <<id, gen[id]>>,
                 data |-> x.ans])
    /\ txident' = IF pos = FramesPerChunk - 1 THEN txident
                   ELSE (txident + 1) % IDMOD
    /\ pos' = (pos + 1) % FramesPerChunk
    /\ UNCHANGED <<alloc, free, curpage, rxident, lost, allocFails, pc, req,
                   i, handles, out, ops, gen, lastWr>>

\* Mutant: a gap in the idents is counted but nothing is retransmitted.
RetransmitVpm_none(p, a, c) == [pending |-> p, active |-> a, cmd |-> c]

\* cmd_vpmadt032_retransmit: every active command, its __VPM150M_TX bit
\* cleared, moves to the tail of pending_cmds.
RetransmitVpm(p, a, c) ==
    [pending |-> p \o a, active |-> <<>>,
     cmd |-> [id \in DOMAIN c |-> IF id \in Range(a)
                                  THEN [c[id] EXCEPT !.tx = FALSE]
                                  ELSE c[id]]]

\* One frame of wctdm_receiveprep: except in the last frame of a chunk,
\* rxident is read and a gap calls cmd_retransmit; then
\* cmd_decipher_vpmadt032 on the head of active_cmds against rxident.  A finished write returns to free_cmds; a finished read is
\* marked __VPM150M_FIN and its completion signalled.
Receive ==
    /\ wire # <<>>
    /\ LET f  == Head(wire)
           last == f.x = FramesPerChunk - 1
           rx == IF last THEN rxident ELSE f.ident
           r  == IF ~last /\ f.ident # (rxident + 1) % IDMOD
                 THEN RetransmitVpm(pending, active, cmd)
                 ELSE [pending |-> pending, active |-> active, cmd |-> cmd]
           hd == IF r.active = <<>> THEN None ELSE Head(r.active)
           done == hd # None /\ r.cmd[hd].ident = rx
       IN /\ rxident' = rx
          /\ pending' = r.pending
          /\ active' = IF done THEN Tail(r.active) ELSE r.active
          /\ cmd' = IF ~done THEN r.cmd
                    ELSE IF r.cmd[hd].op = "wr" THEN [r.cmd EXCEPT ![hd] = Blank]
                    ELSE [r.cmd EXCEPT ![hd].data = f.data, ![hd].fin = TRUE]
          /\ free' = IF done /\ r.cmd[hd].op = "wr" THEN Append(free, hd)
                     ELSE free
    /\ wire' = Tail(wire)
    /\ UNCHANGED <<alloc, curpage, txident, pos, mem, hwpage, lost, allocFails,
                   pc, req, i, handles, out, ops, gen, lastWr>>

\* A frame is dropped on the way back (a missed receive interrupt).
LoseFrame ==
    /\ lost < MaxLoss
    /\ \E k \in 1 .. Len(wire) : wire' = RemoveAt(wire, k)
    /\ lost' = lost + 1
    /\ UNCHANGED <<cmd, alloc, free, pending, active, curpage, txident,
                   rxident, pos, mem, hwpage, allocFails, pc, req, i, handles,
                   out, ops, gen, lastWr>>

-----------------------------------------------------------------------------
(* The callers: gpakReadDspMemory and gpakWriteDspMemory.                  *)

\* Where each vpmadt032_setpage call of a request continues.
AfterSetpage == [r_setpage |-> "r_async", l_setpage |-> "l_async",
                 w_setpage |-> "w_setreg"]

\* A caller starts gpakReadDspMemory or gpakWriteDspMemory.
Start(p) ==
    /\ pc[p] = "idle"
    /\ ops < MaxOps
    /\ \E r \in Request :
          /\ r.off + r.n - 1 \in Offs
          /\ r.kind = "read" => r.vals = [k \in Words |-> 0]
          /\ req' = [req EXCEPT ![p] = r]
          /\ pc' = [pc EXCEPT ![p] = IF r.kind = "read" THEN "io_wait"
                                     ELSE "w_setpage"]
    /\ i' = [i EXCEPT ![p] = 0]
    /\ out' = [out EXCEPT ![p] = [k \in Words |-> 0]]
    /\ ops' = ops + 1
    /\ UNCHANGED <<listVars, busVars, curpage, handles, lastWr>>

\* vpmadt032_io_wait: sleep until pending_cmds and active_cmds are empty,
\* then choose the asynchronous block read or the word-by-word loop.
IoWait(p) ==
    /\ pc[p] = "io_wait"
    /\ pending = <<>> /\ active = <<>>
    /\ pc' = [pc EXCEPT ![p] = IF req[p].n < VPM150M_MAX_COMMANDS
                               THEN "r_setpage" ELSE "l_setpage"]
    /\ UNCHANGED <<listVars, busVars, curpage, req, i, handles, out, ops,
                   lastWr>>

\* vpmadt032_setpage: nothing when curpage already is the page; otherwise
\* curpage is updated first and then vpmadt032_setreg_full enqueues the
\* page-change write, which fails silently when no command can be had.
SetPage(p) ==
    /\ pc[p] \in DOMAIN AfterSetpage
    /\ LET pg == req[p].page
       IN IF curpage = pg
          THEN UNCHANGED <<listVars, curpage>>
          ELSE /\ curpage' = pg
               /\ \E id \in CmdIds \cup {None} :
                     /\ GetFreeCmd(id)
                     /\ IF id = None THEN UNCHANGED <<cmd, gen, pending>>
                        ELSE Issue(id, NewCmd("wr", TRUE, 0, pg))
    /\ pc' = [pc EXCEPT ![p] = AfterSetpage[pc[p]]]
    /\ UNCHANGED <<active, busVars, req, i, handles, out, ops, lastWr>>

\* The block read, first loop: vpmadt032_getreg_full_async for word i; when
\* no command can be had the function returns at once.
RAsync(p) ==
    /\ pc[p] = "r_async"
    /\ \E id \in CmdIds \cup {None} :
          /\ GetFreeCmd(id)
          /\ IF id = None
             THEN /\ UNCHANGED <<cmd, gen, pending, i, handles>>
                  /\ pc' = [pc EXCEPT ![p] = "idle"]
             ELSE /\ Issue(id, NewCmd("rd", FALSE, req[p].off + i[p], 0))
                  /\ handles' = [handles EXCEPT ![p][i[p]] = id]
                  /\ IF i[p] + 1 = req[p].n
                     THEN /\ pc' = [pc EXCEPT ![p] = "r_return"]
                          /\ i' = [i EXCEPT ![p] = req[p].n - 1]
                     ELSE /\ i' = [i EXCEPT ![p] = @ + 1]
                          /\ UNCHANGED pc
    /\ UNCHANGED <<active, busVars, curpage, req, out, ops, lastWr>>

\* Mutant: the command is not put back on free_cmds.
Collect_no_free(p, k) ==
    LET id == handles[p][k]
    IN /\ cmd[id].fin
       /\ out' = [out EXCEPT ![p][k] = cmd[id].data]
       /\ cmd' = [cmd EXCEPT ![id] = Blank]
       /\ UNCHANGED free
       /\ handles' = [handles EXCEPT ![p][k] = None]

\* vpmadt032_getreg_full_return for the command of word k once its
\* completion is signalled: take the data, clear desc, return it to
\* free_cmds.
Collect(p, k) ==
    LET id == handles[p][k]
    IN /\ cmd[id].fin
       /\ out' = [out EXCEPT ![p][k] = cmd[id].data]
       /\ cmd' = [cmd EXCEPT ![id] = Blank]
       /\ free' = Append(free, id)
       /\ handles' = [handles EXCEPT ![p][k] = None]

\* The block read, second loop, from the last word down to the first.
RReturn(p) ==
    /\ pc[p] = "r_return"
    /\ Collect(p, i[p])
    /\ IF i[p] = 0 THEN pc' = [pc EXCEPT ![p] = "idle"] /\ UNCHANGED i
       ELSE i' = [i EXCEPT ![p] = @ - 1] /\ UNCHANGED pc
    /\ UNCHANGED <<alloc, pending, active, allocFails, gen, busVars, curpage,
                   req, ops, lastWr>>

\* The word-by-word read: vpmadt032_getreg issues word i (after its
\* vpmadt032_setpage) with vpmadt032_getreg_full; -ENOMEM is ignored and the
\* loop goes on.
LAsync(p) ==
    /\ pc[p] = "l_async"
    /\ \E id \in CmdIds \cup {None} :
          /\ GetFreeCmd(id)
          /\ IF id = None
             THEN /\ UNCHANGED <<cmd, gen, pending, handles>>
                  /\ IF i[p] + 1 < req[p].n
                     THEN pc' = [pc EXCEPT ![p] = "l_setpage"]
                          /\ i' = [i EXCEPT ![p] = @ + 1]
                     ELSE pc' = [pc EXCEPT ![p] = "idle"] /\ UNCHANGED i
             ELSE /\ Issue(id, NewCmd("rd", FALSE, req[p].off + i[p], 0))
                  /\ handles' = [handles EXCEPT ![p][i[p]] = id]
                  /\ pc' = [pc EXCEPT ![p] = "l_return"]
                  /\ UNCHANGED i
    /\ UNCHANGED <<active, busVars, curpage, req, out, ops, lastWr>>

\* Mutant: the loop runs while i <= NumWords.
LReturn_one_more(p) ==
    /\ pc[p] = "l_return"
    /\ Collect(p, i[p])
    /\ IF i[p] < req[p].n
       THEN pc' = [pc EXCEPT ![p] = "l_setpage"] /\ i' = [i EXCEPT ![p] = @ + 1]
       ELSE pc' = [pc EXCEPT ![p] = "idle"] /\ UNCHANGED i
    /\ UNCHANGED <<alloc, pending, active, allocFails, gen, busVars, curpage,
                   req, ops, lastWr>>

\* The word-by-word read, after the completion of word i: the data is
\* taken and the loop goes on with the next word.
LReturn(p) ==
    /\ pc[p] = "l_return"
    /\ Collect(p, i[p])
    /\ IF i[p] + 1 < req[p].n
       THEN pc' = [pc EXCEPT ![p] = "l_setpage"] /\ i' = [i EXCEPT ![p] = @ + 1]
       ELSE pc' = [pc EXCEPT ![p] = "idle"] /\ UNCHANGED i
    /\ UNCHANGED <<alloc, pending, active, allocFails, gen, busVars, curpage,
                   req, ops, lastWr>>

\* gpakWriteDspMemory, word i: vpmadt032_setreg enqueues the write with
\* vpmadt032_setreg_full (after its vpmadt032_setpage) and does not wait;
\* -ENOMEM is ignored.
WSetreg(p) ==
    /\ pc[p] = "w_setreg"
    /\ LET a == req[p].off + i[p]  v == req[p].vals[i[p]]
       IN \E id \in CmdIds \cup {None} :
             /\ GetFreeCmd(id)
             /\ IF id = None THEN UNCHANGED <<cmd, gen, pending, lastWr>>
                ELSE /\ Issue(id, NewCmd("wr", FALSE, a, v))
                     /\ lastWr' = [lastWr EXCEPT ![req[p].page][a] = v]
    /\ IF i[p] + 1 < req[p].n
       THEN pc' = [pc EXCEPT ![p] = "w_setpage"] /\ i' = [i EXCEPT ![p] = @ + 1]
       ELSE pc' = [pc EXCEPT ![p] = "idle"] /\ UNCHANGED i
    /\ UNCHANGED <<active, busVars, curpage, req, handles, out, ops>>

-----------------------------------------------------------------------------
\* vpmadt032_alloc: empty lists and curpage = 0x80; the page register of
\* the DSP is unknown.
Init ==
    /\ cmd = [id \in CmdIds |-> Blank]
    /\ alloc = {}
    /\ free = <<>> /\ pending = <<>> /\ active = <<>>
    /\ curpage = NoPage
    /\ txident = 1 % IDMOD /\ rxident = 0 /\ pos = 0
    /\ wire = <<>>
    /\ mem = [pg \in Pages |-> [a \in Offs |-> 0]]
    /\ hwpage \in Pages
    /\ lost = 0 /\ allocFails = 0
    /\ pc = [p \in Procs |-> "idle"]
    /\ req = [p \in Procs |-> CHOOSE r \in Request : TRUE]
    /\ i = [p \in Procs |-> 0]
    /\ handles = [p \in Procs |-> [k \in Words |-> None]]
    /\ out = [p \in Procs |-> [k \in Words |-> 0]]
    /\ ops = 0
    /\ gen = [id \in CmdIds |-> 0]
    /\ lastWr = [pg \in Pages |-> [a \in Offs |-> 0]]

Next ==
    \/ Transmit \/ Receive \/ LoseFrame
    \/ \E p \in Procs : \/ Start(p) \/ IoWait(p) \/ SetPage(p) \/ RAsync(p)
                        \/ RReturn(p) \/ LAsync(p) \/ LReturn(p) \/ WSetreg(p)

\* The bus interrupts run at the frame rate; a caller that can go on is
\* scheduled.  Losses and failed allocations are not forced.
Fairness ==
    /\ WF_vars(Transmit) /\ WF_vars(Receive)
    /\ \A p \in Procs : WF_vars(IoWait(p) \/ SetPage(p) \/ RAsync(p)
                                \/ RReturn(p) \/ LAsync(p) \/ LReturn(p)
                                \/ WSetreg(p))

Spec == Init /\ [][Next]_vars /\ Fairness

-----------------------------------------------------------------------------
TypeOK ==
    /\ cmd \in [CmdIds -> Cmd]
    /\ alloc \subseteq CmdIds
    /\ \A l \in {free, pending, active} : l \in Seq(alloc)
    /\ curpage \in Pages \cup {NoPage}
    /\ txident \in Idents /\ rxident \in Idents
    /\ pos \in 0 .. FramesPerChunk - 1
    /\ wire \in Seq(Frame) /\ Len(wire) <= LATENCY
    /\ mem \in [Pages -> [Offs -> Vals]] /\ hwpage \in Pages
    /\ pc \in [Procs -> {"idle", "io_wait", "r_setpage", "r_async",
                         "r_return", "l_setpage", "l_async", "l_return",
                         "w_setpage", "w_setreg"}]
    /\ i \in [Procs -> Words]
    /\ handles \in [Procs -> [Words -> CmdIds \cup {None}]]
    /\ gen \in [CmdIds -> {0, 1}]

\* Command id leaves active_cmds with a result in this step.
Completes(id) ==
    id \in Range(active) /\ id \notin Range(active') /\ id \notin Range(pending')

\* Reply correlation (cmd_decipher_vpmadt032): whenever a frame that
\* carries an ident of its own completes a command, the data it takes is
\* the DSP's answer to that very command (same object, same use), across
\* lost frames, retransmission and ident wrap.  The first frame of a chunk
\* is left out: it carries the ident the previous chunk's last frame was
\* stamped with.
ReplyMatching ==
    [][\A id \in Range(active) :
         Completes(id) /\ wire # <<>> /\ Head(wire).x # 0
         => Head(wire).tag = <<id, gen[id]>>]_vars

\* The same for every frame, the first of a chunk included.
ReplyMatchingAll ==
    [][\A id \in Range(active) :
         Completes(id) => wire # <<>> /\ Head(wire).tag = <<id, gen[id]>>]_vars

\* The page cache of vpmadt032_setpage: whenever the channel is idle (no
\* command pending or active), the DSP's page register is the page
\* curpage says it is, so that skipping the page change is safe.
PageCoherent ==
    (pending = <<>> /\ active = <<>> /\ curpage # NoPage)
    => hwpage = curpage

\* gpakReadDspMemory returns the DSP words the caller asked for: each word
\* a caller takes from a finished read is the value most recently written
\* to that word of that page through gpakWriteDspMemory.
ReadCorrect ==
    [][\A p \in Procs, k \in Words :
         handles[p][k] # None /\ handles'[p][k] = None
         => out'[p][k] = lastWr[req[p].page][req[p].off + k]]_vars

\* No command object is lost (spec: a command is on exactly one list or
\* held by its caller until it is returned to free_cmds): every object
\* kmalloc handed out is on free_cmds, pending_cmds or active_cmds, or is
\* held by a caller that will return it.
NoLostCommand ==
    \A id \in alloc :
        \/ id \in Range(free) \cup Range(pending) \cup Range(active)
        \/ \E p \in Procs, k \in Words : handles[p][k] = id

\* Every gpakReadDspMemory and gpakWriteDspMemory call returns, in spite of
\* lost frames (resynchronisation by cmd_vpmadt032_retransmit).
CallsReturn == \A p \in Procs : pc[p] # "idle" ~> pc[p] = "idle"
=============================================================================
