---------------------------- MODULE ReliablePipe ----------------------------
(***************************************************************************)
(* What a UdpStream promises its two users: a pair of byte pipes, one per  *)
(* direction, that never reorder, lose or invent data, whose end-of-file   *)
(* comes only after everything the other side wrote, and whose shutdown    *)
(* succeeds only once the other side holds everything - or once the stream *)
(* has given the peer up.  Either end may fail at any time.                *)
(*                                                                         *)
(* FrsStream implements this specification; nothing here mentions frames,  *)
(* sequence numbers, acknowledgements or timers.                           *)
(***************************************************************************)
EXTENDS Naturals, Sequences

CONSTANTS A, B,        \* the two ends of the pipe
          Data         \* what a write carries

VARIABLES sent,        \* sent[e]: everything the user of e wrote, in order
          got,         \* got[e]: everything the user of e read, in order
          taken,       \* taken[e]: how much of the peer's data (and its end) e holds
          closed,      \* closed[e]: the user of e shut its writing side down
          gone,        \* gone[e]: e has failed or has given its peer up
          wr, rd       \* what the user's writing and reading side last saw

pipeVars == <<sent, got, taken, closed, gone, wr, rd>>

Ends == {A, B}
Other(e) == IF e = A THEN B ELSE A

PipeInit ==
    /\ sent = [e \in Ends |-> <<>>]
    /\ got = [e \in Ends |-> <<>>]
    /\ taken = [e \in Ends |-> 0]
    /\ closed = [e \in Ends |-> FALSE]
    /\ gone = [e \in Ends |-> FALSE]
    /\ wr = [e \in Ends |-> "open"]
    /\ rd = [e \in Ends |-> "open"]

PipeWrite(e) ==
    /\ wr[e] = "open" /\ ~closed[e]
    /\ \E v \in Data : sent' = [sent EXCEPT ![e] = Append(@, v)]
    /\ UNCHANGED <<got, taken, closed, gone, wr, rd>>

PipeClose(e) ==
    /\ wr[e] = "open" /\ ~closed[e]
    /\ closed' = [closed EXCEPT ![e] = TRUE]
    /\ wr' = [wr EXCEPT ![e] = "closing"]
    /\ UNCHANGED <<sent, got, taken, gone, rd>>

\* e takes over the next item of its peer, or the end of the peer's data.
PipeTake(e) ==
    /\ \/ taken[e] < Len(sent[Other(e)])
       \/ taken[e] = Len(sent[Other(e)]) /\ closed[Other(e)]
    /\ taken' = [taken EXCEPT ![e] = @ + 1]
    /\ UNCHANGED <<sent, got, closed, gone, wr, rd>>

PipeRead(e) ==
    /\ rd[e] = "open"
    /\ Len(got[e]) < taken[e] /\ Len(got[e]) < Len(sent[Other(e)])
    /\ got' = [got EXCEPT ![e] = Append(@, sent[Other(e)][Len(@) + 1])]
    /\ UNCHANGED <<sent, taken, closed, gone, wr, rd>>

PipeEof(e) ==
    /\ rd[e] = "open"
    /\ closed[Other(e)] /\ taken[e] = Len(sent[Other(e)]) + 1
    /\ got[e] = sent[Other(e)]
    /\ rd' = [rd EXCEPT ![e] = "eof"]
    /\ UNCHANGED <<sent, got, taken, closed, gone, wr>>

PipeShutdownOk(e) ==
    /\ wr[e] = "closing"
    /\ gone[e] \/ taken[Other(e)] = Len(sent[e]) + 1
    /\ wr' = [wr EXCEPT ![e] = "ok"]
    /\ UNCHANGED <<sent, got, taken, closed, gone, rd>>

PipeGone(e) ==
    /\ ~gone[e]
    /\ gone' = [gone EXCEPT ![e] = TRUE]
    /\ UNCHANGED <<sent, got, taken, closed, wr, rd>>

PipeError(e) ==
    /\ gone[e]
    /\ \/ rd[e] = "open" /\ rd' = [rd EXCEPT ![e] = "err"] /\ wr' = wr
       \/ wr[e] \in {"open", "closing"} /\ wr' = [wr EXCEPT ![e] = "err"] /\ rd' = rd
    /\ UNCHANGED <<sent, got, taken, closed, gone>>

\* The user lets go of the stream.
PipeDrop(e) ==
    /\ wr' = [wr EXCEPT ![e] = "dropped"]
    /\ rd' = [rd EXCEPT ![e] = "dropped"]
    /\ UNCHANGED <<sent, got, taken, closed, gone>>

PipeNext ==
    \E e \in Ends :
        \/ PipeWrite(e) \/ PipeClose(e) \/ PipeTake(e) \/ PipeRead(e)
        \/ PipeEof(e) \/ PipeShutdownOk(e) \/ PipeGone(e) \/ PipeError(e)
        \/ PipeDrop(e)

PipeSpec == PipeInit /\ [][PipeNext]_pipeVars
=============================================================================
