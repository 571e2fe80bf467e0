------------------------------- MODULE Duplex -------------------------------
(***************************************************************************)
(* What the proxy promises a client and the server behind it, for each     *)
(* connection: two streams of units, up and down, in which nothing is      *)
(* lost, doubled or moved while both ends are open.  An end that closes    *)
(* has given what it sent; what was on its way to it may be dropped, and   *)
(* so may what it sent if it left unread what the other end had sent (its  *)
(* close is then a reset).  Nobody is told of an end that did not come.    *)
(*                                                                         *)
(* An end is [st, sent, got, eof]: its state, how many units it has sent,  *)
(* the last unit it has got (the n-th unit of a stream is n), and whether  *)
(* it was told that the stream to it has ended.                            *)
(***************************************************************************)
EXTENDS Naturals, Sequences, SequencesExt

CONSTANT Conns

VARIABLES up, down, cli, srv

dvars == <<up, down, cli, srv>>

Ended(end) == end.st \in {"closed", "refused"}

Init ==
    /\ up = [c \in Conns |-> <<>>] /\ down = [c \in Conns |-> <<>>]
    /\ cli = [c \in Conns |-> [st |-> "none", sent |-> 0, got |-> 0, eof |-> FALSE]]
    /\ srv = cli

Open(c) ==
    \/ cli[c].st = "none" /\ cli' = [cli EXCEPT ![c].st = "open"]
                          /\ UNCHANGED <<up, down, srv>>
    \/ cli[c].st # "none" /\ srv[c].st = "none"
                          /\ srv' = [srv EXCEPT ![c].st = "open"]
                          /\ UNCHANGED <<up, down, cli>>

\* Some clients may find that there is no server for them.
Refuse ==
    \E S \in SUBSET {c \in Conns : cli[c].st # "none" /\ srv[c].st = "none"} :
        /\ srv' = [c \in Conns |-> IF c \in S THEN [srv[c] EXCEPT !.st = "refused"]
                                   ELSE srv[c]]
        /\ UNCHANGED <<up, down, cli>>

Send(c) ==
    \/ /\ cli[c].st = "open"
       /\ cli' = [cli EXCEPT ![c].sent = @ + 1]
       /\ up' = [up EXCEPT ![c] = Append(@, cli'[c].sent)]
       /\ UNCHANGED <<down, srv>>
    \/ /\ srv[c].st = "open"
       /\ srv' = [srv EXCEPT ![c].sent = @ + 1]
       /\ down' = [down EXCEPT ![c] = Append(@, srv'[c].sent)]
       /\ UNCHANGED <<up, cli>>

Receive(c) ==
    \/ /\ srv[c].st = "open" /\ up[c] # <<>>
       /\ srv' = [srv EXCEPT ![c].got = Head(up[c])]
       /\ up' = [up EXCEPT ![c] = Tail(@)]
       /\ UNCHANGED <<down, cli>>
    \/ /\ cli[c].st = "open" /\ down[c] # <<>>
       /\ cli' = [cli EXCEPT ![c].got = Head(down[c])]
       /\ down' = [down EXCEPT ![c] = Tail(@)]
       /\ UNCHANGED <<up, srv>>

Close(c) ==
    \/ cli[c].st = "open" /\ cli' = [cli EXCEPT ![c].st = "closed"]
                          /\ UNCHANGED <<up, down, srv>>
    \/ srv[c].st = "open" /\ srv' = [srv EXCEPT ![c].st = "closed"]
                          /\ UNCHANGED <<up, down, cli>>

\* An end is told of the end of its stream when it has got all of it.
Eof(c) ==
    \/ /\ Ended(cli[c]) /\ srv[c].st = "open" /\ up[c] = <<>>
       /\ srv' = [srv EXCEPT ![c].eof = TRUE] /\ UNCHANGED <<up, down, cli>>
    \/ /\ Ended(srv[c]) /\ cli[c].st = "open" /\ down[c] = <<>>
       /\ cli' = [cli EXCEPT ![c].eof = TRUE] /\ UNCHANGED <<up, down, srv>>

\* What may be dropped, and then the last of it first.
UpMayGo(c) == Ended(srv[c]) \/ (Ended(cli[c]) /\ down[c] # <<>>)
DownMayGo(c) == Ended(cli[c]) \/ (Ended(srv[c]) /\ up[c] # <<>>)
Lose(c) ==
    /\ \E u \in IF UpMayGo(c) THEN Prefixes(up[c]) ELSE {up[c]},
          d \in IF DownMayGo(c) THEN Prefixes(down[c]) ELSE {down[c]} :
            up' = [up EXCEPT ![c] = u] /\ down' = [down EXCEPT ![c] = d]
    /\ UNCHANGED <<cli, srv>>

Next == Refuse \/ \E c \in Conns : Open(c) \/ Send(c) \/ Receive(c) \/ Close(c)
                                   \/ Eof(c) \/ Lose(c)

Spec == Init /\ [][Next]_dvars
=============================================================================
