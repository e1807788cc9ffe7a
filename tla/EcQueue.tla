------------------------------- MODULE EcQueue -------------------------------
(***************************************************************************)
(* What the echo-canceller change queue of the VPMADT032 promises          *)
(* (spec: "only the most recent desired state per channel matters"; the    *)
(* worker applies requests in FIFO order and updates the cached state).    *)
(*                                                                         *)
(* hist[ch] is the sequence of parameter sets requested for channel ch and *)
(* not yet applied, oldest first; cache[ch] is the state the worker last  *)
(* applied.  A request may supersede requests not yet applied; the worker *)
(* applies one of the outstanding requests of a channel, dropping the     *)
(* older ones.  So a channel's cached state only ever takes values that   *)
(* were requested for it, in the order they were requested, and the      *)
(* latest request is eventually applied.                                   *)
(***************************************************************************)
EXTENDS Naturals, Sequences

CONSTANTS Chans, Params

VARIABLES hist, cache

Init ==
    /\ hist = [ch \in Chans |-> <<>>]
    /\ cache \in [Chans -> Params]

\* A request for channel ch: p supersedes the outstanding requests after
\* the k-th.
Request(ch, p) ==
    \E k \in 0 .. Len(hist[ch]) :
        /\ hist' = [hist EXCEPT ![ch] = Append(SubSeq(@, 1, k), p)]
        /\ UNCHANGED cache

\* The worker applies the k-th outstanding request of ch.
Apply(ch) ==
    \E k \in 1 .. Len(hist[ch]) :
        /\ cache' = [cache EXCEPT ![ch] = hist[ch][k]]
        /\ hist' = [hist EXCEPT ![ch] = SubSeq(@, k + 1, Len(@))]

Next == \E ch \in Chans : Apply(ch) \/ \E p \in Params : Request(ch, p)

Spec == Init /\ [][Next]_<<hist, cache>>
             /\ \A ch \in Chans : WF_<<hist, cache>>(Apply(ch))
=============================================================================
