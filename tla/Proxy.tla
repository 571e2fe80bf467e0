------------------------------- MODULE Proxy --------------------------------
(***************************************************************************)
(* sj3proxy: a parent that accepts TCP connections and forks a child for   *)
(* each, the children that carry bytes between the client and the server's *)
(* UNIX socket, and SIGCHLD.  The two ends are how sj3lib and sj3serv use  *)
(* a connection: one request at a time, read as a whole before it is       *)
(* answered; each may go at any time.                                      *)
(*                                                                         *)
(* Bytes are units, numbered in the order an end sends them.  A socket     *)
(* holds a few units in each direction.  A closed socket with unread       *)
(* input resets the connection: what its peer has not read may be lost.    *)
(***************************************************************************)
EXTENDS Naturals, Sequences

CONSTANTS
    Conns,          \* the clients that will connect
    Addrs,          \* what getaddrinfo returns
    None,
    CAP, UCAP,      \* room in a TCP and in a UNIX socket
    BUFSIZ,         \* room in readwrite's buffer
    REQ, ANS,       \* units of a request and of an answer
    REQUESTS,       \* bound: requests of each client
    FAULTS          \* bound: calls of the system that fail

ASSUME ProxyAssumption ==
    /\ {CAP, UCAP, BUFSIZ, REQ, ANS} \subseteq Nat \ {0}
    /\ REQUESTS \in [Conns -> Nat] /\ FAULTS \in Nat
    /\ None \notin Conns

VARIABLES
    parent, listening, ready, acc,  \* the parent, its listeners, those select
                                    \* found, and inet_fd
    backlog,        \* connections not accepted yet
    held,           \* the processes that have the connection's descriptor
    child, revents, buf,            \* the children
    fin,            \* readwrite shut its output to the client down
    c2p, p2c, p2s, s2p,             \* the sockets' buffers
    cli, srv,       \* the ends, as in Duplex
    zombies, sigchld, faults

parentVars == <<parent, listening, ready, acc, backlog>>
childVars == <<child, revents, buf, fin>>
sockets == <<c2p, p2c, p2s, s2p>>
vars == <<parentVars, held, childVars, sockets, cli, srv, zombies, sigchld, faults>>

End0 == [st |-> "none", sent |-> 0, got |-> 0, eof |-> FALSE]

Init ==
    /\ parent = "setup" /\ listening = {} /\ ready = {} /\ acc = None
    /\ backlog = [l \in Addrs |-> <<>>]
    /\ held = [c \in Conns |-> {}]
    /\ child = [c \in Conns |-> "none"]
    /\ revents = [c \in Conns |-> {}]
    /\ buf = [c \in Conns |-> <<>>] /\ fin = [c \in Conns |-> FALSE]
    /\ c2p = buf /\ p2c = buf /\ p2s = buf /\ s2p = buf
    /\ cli = [c \in Conns |-> End0] /\ srv = cli
    /\ zombies = {} /\ sigchld = FALSE /\ faults = 0

\* A call of the system fails.
Fault == faults < FAULTS /\ faults' = faults + 1

-----------------------------------------------------------------------------
(* The parent (main) *)

\* The addresses that can be bound are listened to.
setup_listeners ==
    /\ parent = "setup"
    /\ \/ listening' = Addrs /\ UNCHANGED faults
       \/ Fault /\ \E l \in Addrs : listening' = Addrs \ {l}
    /\ parent' = "select"
    /\ UNCHANGED <<ready, acc, backlog, held, childVars, sockets, cli, srv, zombies,
                   sigchld>>

main_select ==
    /\ parent = "select"
    /\ ready' = {l \in listening : backlog[l] # <<>>}
    /\ ready' # {}
    /\ parent' = "accept"
    /\ UNCHANGED <<listening, acc, backlog, held, childVars, sockets, cli, srv, zombies,
                   sigchld, faults>>

\* On to the next listener that was ready, or back to select.
AfterListener == parent' = IF ready' = {} THEN "select" ELSE "accept"

\* The listeners that were ready are served one after the other; the order of
\* their list does not matter.
main_accept ==
    /\ parent = "accept"
    /\ \E l \in ready :
        /\ ready' = ready \ {l}
        /\ \/ /\ acc' = Head(backlog[l])
              /\ backlog' = [backlog EXCEPT ![l] = Tail(@)]
              /\ held' = [held EXCEPT ![acc'] = {"parent"}]
              /\ parent' = "fork"
              /\ UNCHANGED faults
           \/ Fault /\ AfterListener /\ UNCHANGED <<acc, backlog, held>>
    /\ UNCHANGED <<listening, childVars, sockets, cli, srv, zombies, sigchld>>

\* The parent exits if it cannot fork.
main_fork ==
    /\ parent = "fork"
    /\ \/ /\ parent' = "close"
          /\ held' = [held EXCEPT ![acc] = @ \cup {"child"}]
          /\ child' = [child EXCEPT ![acc] = "start"]
          /\ UNCHANGED faults
       \/ /\ Fault /\ parent' = "exited"
          /\ held' = [held EXCEPT ![acc] = @ \ {"parent"}]
          /\ UNCHANGED child
    /\ UNCHANGED <<listening, ready, acc, backlog, revents, buf, fin, sockets, cli, srv,
                   zombies, sigchld>>

\* The processes that have the descriptor when the parent has closed it.
Parents(h) == h \ {"parent"}

main_close ==
    /\ parent = "close"
    /\ held' = [held EXCEPT ![acc] = Parents(@)]
    /\ acc' = None
    /\ UNCHANGED ready /\ AfterListener
    /\ UNCHANGED <<listening, backlog, childVars, sockets, cli, srv, zombies, sigchld,
                   faults>>

\* Mutant: one child is waited for.
Reap_one(Z) == Z \ {CHOOSE z \in Z : TRUE}

\* The handler waits until there is no dead child left.
Reap(Z) == {}

\* SIGCHLD interrupts select, which is then called again.
main_sigchld_handler ==
    /\ parent # "exited" /\ sigchld
    /\ zombies' = Reap(zombies) /\ sigchld' = FALSE
    /\ UNCHANGED <<parentVars, held, childVars, sockets, cli, srv, faults>>

-----------------------------------------------------------------------------
(* A child (readwrite) *)

\* The child of c ends, and its descriptors are closed.  What the client may
\* still send before the parent has closed it too is not modelled.
Exit(c) ==
    /\ child' = [child EXCEPT ![c] = "exited"]
    /\ held' = [held EXCEPT ![c] = @ \ {"child"}]
    /\ revents' = [revents EXCEPT ![c] = {}]
    /\ buf' = [buf EXCEPT ![c] = <<>>]
    /\ c2p' = [c2p EXCEPT ![c] = IF child[c] = "start" THEN @ ELSE <<>>]
    /\ s2p' = [s2p EXCEPT ![c] = <<>>]
    /\ zombies' = zombies \cup {c} /\ sigchld' = TRUE
    /\ UNCHANGED <<parentVars, p2s, cli>>

\* What the client has not got yet is lost if it is reset.
Reset(c) == \/ UNCHANGED p2c
            \/ c2p[c] # <<>> /\ p2c' = [p2c EXCEPT ![c] = <<>>]

Goto(c, l) == child' = [child EXCEPT ![c] = l]

\* What a child's step leaves alone unless it says otherwise.
Still == UNCHANGED <<parentVars, held, cli, srv, zombies, sigchld, faults>>

child_connect(c) ==
    /\ child[c] = "start"
    /\ \/ /\ Goto(c, "poll")
          /\ srv' = [srv EXCEPT ![c].st = "open"]
          /\ UNCHANGED <<parentVars, held, revents, buf, fin, sockets, cli, zombies,
                         sigchld, faults>>
       \/ Fault /\ Exit(c) /\ UNCHANGED <<p2c, fin, srv>>

\* Mutant: the server's answers are not waited for.
Readable_inet(c) == IF c2p[c] # <<>> \/ cli[c].st = "closed" THEN {"inet"} ELSE {}

Readable(c) == (IF c2p[c] # <<>> \/ cli[c].st = "closed" THEN {"inet"} ELSE {})
               \cup (IF s2p[c] # <<>> \/ srv[c].st = "closed" THEN {"sj3"} ELSE {})

\* The sides poll found are served in turn.
child_poll(c) ==
    /\ child[c] = "poll" /\ Readable(c) # {}
    /\ revents' = [revents EXCEPT ![c] = Readable(c)]
    /\ Goto(c, IF "inet" \in Readable(c) THEN "inet" ELSE "sj3")
    /\ UNCHANGED <<buf, fin, sockets>> /\ Still

Some(s) == SubSeq(s, 1, IF Len(s) < BUFSIZ THEN Len(s) ELSE BUFSIZ)
Behind(s) == SubSeq(s, Len(Some(s)) + 1, Len(s))

\* The client's side: data, or its end or an error.
child_inet(c) ==
    /\ child[c] = "inet"
    /\ \/ /\ c2p[c] # <<>>
          /\ buf' = [buf EXCEPT ![c] = Some(c2p[c])]
          /\ c2p' = [c2p EXCEPT ![c] = Behind(@)]
          /\ Goto(c, "up")
          /\ UNCHANGED <<revents, fin, p2c, p2s, s2p>> /\ Still
       \/ /\ cli[c].st = "closed"
          /\ c2p[c] = <<>> \/ p2c[c] # <<>>
          /\ Exit(c) /\ UNCHANGED <<p2c, fin, srv, faults>>

\* Mutant: what does not fit at once is forgotten.
Rest_lost(b) == <<>>

\* atomicio goes on with what is left.
Rest(b) == Tail(b)

child_up(c) ==
    /\ child[c] = "up"
    /\ \/ /\ srv[c].st = "open" /\ Len(p2s[c]) < UCAP
          /\ p2s' = [p2s EXCEPT ![c] = Append(@, Head(buf[c]))]
          /\ buf' = [buf EXCEPT ![c] = Rest(@)]
          /\ IF buf'[c] # <<>> THEN UNCHANGED child
             ELSE Goto(c, IF "sj3" \in revents[c] THEN "sj3" ELSE "poll")
          /\ UNCHANGED <<revents, fin, c2p, p2c, s2p>> /\ Still
       \/ /\ srv[c].st = "closed"
          /\ Exit(c) /\ Reset(c) /\ UNCHANGED <<fin, srv, faults>>

\* The server's side.
child_sj3(c) ==
    /\ child[c] = "sj3"
    /\ \/ /\ s2p[c] # <<>>
          /\ buf' = [buf EXCEPT ![c] = Some(s2p[c])]
          /\ s2p' = [s2p EXCEPT ![c] = Behind(@)]
          /\ Goto(c, "down")
          /\ UNCHANGED <<revents, fin, c2p, p2c, p2s>> /\ Still
       \/ /\ s2p[c] = <<>>      \* the server is gone
          /\ fin' = [fin EXCEPT ![c] = TRUE]
          /\ Exit(c) /\ Reset(c) /\ UNCHANGED <<srv, faults>>

child_down(c) ==
    /\ child[c] = "down"
    /\ \/ /\ cli[c].st = "open" /\ Len(p2c[c]) < CAP
          /\ p2c' = [p2c EXCEPT ![c] = Append(@, Head(buf[c]))]
          /\ buf' = [buf EXCEPT ![c] = Rest(@)]
          /\ IF buf'[c] # <<>> THEN UNCHANGED child ELSE Goto(c, "poll")
          /\ UNCHANGED <<revents, fin, c2p, p2s, s2p>> /\ Still
       \/ /\ cli[c].st = "closed"
          /\ Exit(c) /\ UNCHANGED <<p2c, fin, srv, faults>>

readwrite(c) == \/ child_connect(c) \/ child_poll(c) \/ child_inet(c) \/ child_up(c)
                \/ child_sj3(c) \/ child_down(c)

-----------------------------------------------------------------------------
(* The ends *)

Quiet == UNCHANGED <<parent, listening, ready, acc, held, childVars, zombies, sigchld,
                     faults>>

client_connect(c, l) ==
    /\ cli[c].st = "none" /\ l \in listening /\ parent # "exited"
    /\ cli' = [cli EXCEPT ![c].st = "open"]
    /\ backlog' = [backlog EXCEPT ![l] = Append(@, c)]
    /\ Quiet /\ UNCHANGED <<sockets, srv>>

\* The proxy has taken the client's connection and closed it, or never will.
Dropped(c) ==
    held[c] = {} /\ (child[c] = "exited" \/ parent = "exited") /\ cli[c].st # "none"
Waiting(c) == cli[c].got < ANS * (cli[c].sent \div REQ)

client_send(c) ==
    /\ cli[c].st = "open" /\ ~cli[c].eof /\ child[c] # "exited" /\ ~Waiting(c)
    /\ cli[c].sent < REQ * REQUESTS[c] /\ Len(c2p[c]) < CAP
    /\ cli' = [cli EXCEPT ![c].sent = @ + 1]
    /\ c2p' = [c2p EXCEPT ![c] = Append(@, cli'[c].sent)]
    /\ Quiet /\ UNCHANGED <<backlog, p2c, p2s, s2p, srv>>

client_receive(c) ==
    /\ cli[c].st = "open" /\ p2c[c] # <<>>
    /\ cli' = [cli EXCEPT ![c].got = Head(p2c[c])]
    /\ p2c' = [p2c EXCEPT ![c] = Tail(@)]
    /\ Quiet /\ UNCHANGED <<backlog, c2p, p2s, s2p, srv>>

client_eof(c) ==
    /\ cli[c].st = "open" /\ ~cli[c].eof /\ p2c[c] = <<>>
    /\ fin[c] \/ Dropped(c)
    /\ cli' = [cli EXCEPT ![c].eof = TRUE]
    /\ Quiet /\ UNCHANGED <<backlog, sockets, srv>>

client_close(c) ==
    /\ cli[c].st = "open"
    /\ cli' = [cli EXCEPT ![c].st = "closed"]
    /\ Quiet /\ UNCHANGED <<backlog, sockets, srv>>

Answering(c) == srv[c].sent < ANS * (srv[c].got \div REQ)

server_receive(c) ==
    /\ srv[c].st = "open" /\ p2s[c] # <<>> /\ ~Answering(c)
    /\ srv' = [srv EXCEPT ![c].got = Head(p2s[c])]
    /\ p2s' = [p2s EXCEPT ![c] = Tail(@)]
    /\ Quiet /\ UNCHANGED <<backlog, c2p, p2c, s2p, cli>>

server_send(c) ==
    /\ srv[c].st = "open" /\ Answering(c) /\ child[c] # "exited" /\ Len(s2p[c]) < UCAP
    /\ srv' = [srv EXCEPT ![c].sent = @ + 1]
    /\ s2p' = [s2p EXCEPT ![c] = Append(@, srv'[c].sent)]
    /\ Quiet /\ UNCHANGED <<backlog, c2p, p2c, p2s, cli>>

\* The server closes when it is told of the client's end, or when it goes.
server_eof(c) ==
    /\ srv[c].st = "open" /\ ~srv[c].eof
    /\ child[c] = "exited" /\ p2s[c] = <<>>
    /\ srv' = [srv EXCEPT ![c].eof = TRUE]
    /\ Quiet /\ UNCHANGED <<backlog, sockets, cli>>

server_close(c) ==
    /\ srv[c].st = "open"
    /\ srv' = [srv EXCEPT ![c].st = "closed"]
    /\ Quiet /\ UNCHANGED <<backlog, sockets, cli>>

client(c) == client_send(c) \/ client_receive(c) \/ client_eof(c)
server(c) == server_receive(c) \/ server_send(c) \/ server_eof(c)
main == setup_listeners \/ main_select \/ main_accept \/ main_fork \/ main_close

Next ==
    \/ main \/ main_sigchld_handler
    \/ \E c \in Conns, l \in Addrs : client_connect(c, l)
    \/ \E c \in Conns : \/ readwrite(c) \/ client(c) \/ server(c)
                        \/ client_close(c) \/ server_close(c)

\* The system runs each process that can run, and delivers signals.  An end
\* need not come, send or close; one that has asked goes on to the answer.
Fairness ==
    /\ WF_vars(main) /\ WF_vars(main_sigchld_handler)
    /\ \A c \in Conns : WF_vars(readwrite(c)) /\ WF_vars(client(c)) /\ WF_vars(server(c))

Spec == Init /\ [][Next]_vars /\ Fairness

-----------------------------------------------------------------------------
(* Properties *)

Buf(c, dir) == IF child[c] = dir THEN buf[c] ELSE <<>>
Refused(c) == srv[c].st = "none" /\ Dropped(c)

\* The streams are what the sockets and the child's buffer hold.
Up   == [c \in Conns |-> p2s[c] \o Buf(c, "up") \o c2p[c]]
Down == [c \in Conns |-> p2c[c] \o Buf(c, "down") \o s2p[c]]
Srv  == [c \in Conns |-> IF Refused(c) THEN [srv[c] EXCEPT !.st = "refused"] ELSE srv[c]]

D == INSTANCE Duplex WITH up <- Up, down <- Down, srv <- Srv

\* The proxy is a pair of streams: what the sockets and the child's buffer hold
\* is what the client has sent and the server has not got, in order, and so
\* down; it is dropped, and an end told of the other's, only when that end has
\* closed (readwrite, atomicio).
Streams == D!Spec

\* A client that has sent a request gets the whole answer, or is told that the
\* server is gone, though requests and answers are longer than the sockets and
\* the buffer (readwrite carries one direction at a time and blocks in it).
\* When one end closes, the child ends and the other end is told, though the
\* parent has had the connection's descriptor too (main's close).
Answered ==
    \A c \in Conns :
        /\ cli[c].st = "open" /\ Waiting(c) ~>
              ~Waiting(c) \/ cli[c].st = "closed" \/ cli[c].eof
        /\ cli[c].st = "open" /\ srv[c].st = "closed" ~>
              cli[c].eof \/ cli[c].st = "closed"
        /\ cli[c].st = "closed" /\ srv[c].st = "open" ~>
              child[c] = "exited" /\ (srv[c].eof \/ srv[c].st = "closed")

\* No dead child stays unless the parent is gone, though signals that come
\* together are one (main_sigchld_handler).
Reaped == \A c \in Conns : c \in zombies ~> c \notin zombies \/ parent = "exited"
=============================================================================
