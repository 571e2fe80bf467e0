----------------------------- MODULE ProxyProofs ----------------------------
(***************************************************************************)
(* The proxy implements Duplex: for every number of clients and listeners, *)
(* every size of the sockets and of readwrite's buffer, and whatever       *)
(* fails, each step of the processes and of the ends is a step of the pair *)
(* of streams.  What makes the mapping work is the invariant Inv: an exit  *)
(* of the child loses only what Duplex lets go, because the child goes on  *)
(* until it has found an end closed (Conn), and nobody is told of an end   *)
(* that may still send.  The parent's part (Waits, Accepted) is that a     *)
(* connection is accepted once, and forked for by the accept it came from. *)
(***************************************************************************)
EXTENDS Proxy, SequenceTheorems, TLAPS

States == {"none", "open", "closed"}
End == [st : States, sent : Nat, got : Nat, eof : BOOLEAN]
Running == {"start", "poll", "inet", "up", "sj3", "down"}

TypeOK ==
    /\ parent \in {"setup", "select", "accept", "fork", "close", "exited"}
    /\ listening \subseteq Addrs /\ ready \subseteq Addrs
    /\ acc \in Conns \cup {None}
    /\ backlog \in [Addrs -> Seq(Conns)]
    /\ held \in [Conns -> SUBSET {"parent", "child"}]
    /\ child \in [Conns -> Running \cup {"none", "exited"}]
    /\ revents \in [Conns -> SUBSET {"inet", "sj3"}]
    /\ fin \in [Conns -> BOOLEAN]
    /\ buf \in [Conns -> Seq(Nat)]
    /\ c2p \in [Conns -> Seq(Nat)] /\ p2c \in [Conns -> Seq(Nat)]
    /\ p2s \in [Conns -> Seq(Nat)] /\ s2p \in [Conns -> Seq(Nat)]
    /\ cli \in [Conns -> End] /\ srv \in [Conns -> End]

\* Connection c waits to be accepted, as the i-th of listener l.
Queued(l, i, c) == i \in 1..Len(backlog[l]) /\ backlog[l][i] = c

\* The client has connected, and nobody has the descriptor yet.
Idle(c) == child[c] = "none" /\ held[c] = {} /\ cli[c].st # "none"

\* A connection that waits to be accepted is idle, and waits in one place.
Waits ==
    /\ \A l \in ready : backlog[l] # <<>>
    /\ \A c \in Conns, l \in Addrs, i \in Nat :
          /\ Queued(l, i, c) => Idle(c)
          /\ \A m \in Addrs, j \in Nat : Queued(l, i, c) /\ Queued(m, j, c) => l = m /\ i = j

\* The parent forks for, and then closes, a connection it has.
Accepted ==
    parent \in {"fork", "close"} =>
        /\ acc \in Conns /\ "parent" \in held[acc] /\ cli[acc].st # "none"
        /\ parent = "fork" => child[acc] = "none"

\* What a connection's client, child and server have come to.
Conn(c) ==
    /\ cli[c].st = "none" => child[c] = "none" /\ held[c] = {}
    /\ "child" \in held[c] <=> child[c] \in Running
    /\ child[c] \in {"none", "start"} => srv[c].st = "none"
    /\ srv[c].st = "none" => /\ p2s[c] = <<>> /\ s2p[c] = <<>>
                             /\ child[c] \in {"none", "start", "exited"}
    /\ child[c] \in {"up", "down"} => buf[c] # <<>>
    /\ \/ child[c] = "sj3"
       \/ child[c] \in {"inet", "up"} /\ "sj3" \in revents[c]
       => s2p[c] # <<>> \/ srv[c].st = "closed"
    /\ child[c] = "exited" =>
          /\ s2p[c] = <<>>
          /\ srv[c].st # "none" => /\ c2p[c] = <<>>
                                   /\ "closed" \in {cli[c].st, srv[c].st}
    /\ fin[c] => srv[c].st = "closed" /\ child[c] = "exited"

Inv == TypeOK /\ Waits /\ Accepted /\ \A c \in Conns : Conn(c)

-----------------------------------------------------------------------------
(* Streams of units *)

\* The units on their way: in the last socket, in the buffer, in the first.
Stream(p, b, r) == p \o b \o r

\* What is carried from one socket to the next stays in order.
LEMMA MoveUnit ==
    ASSUME NEW p \in Seq(Nat), NEW b \in Seq(Nat), NEW r \in Seq(Nat), b # <<>>
    PROVE  Stream(Append(p, Head(b)), Tail(b), r) = Stream(p, b, r)
<1> DEFINE L == Append(p, Head(b)) \o Tail(b) \o r
           R == p \o b \o r
<1>1. Append(p, Head(b)) \in Seq(Nat) /\ Tail(b) \in Seq(Nat)
  OBVIOUS
<1>2. L \in Seq(Nat) /\ R \in Seq(Nat) /\ Len(L) = Len(R)
  BY <1>1
<1>3. ASSUME NEW i \in 1..Len(R) PROVE L[i] = R[i]
  BY <1>1, <1>2
<1>4. L = R
  BY <1>1, <1>2, <1>3, SeqEqual
<1> QED  BY <1>4, Zenon DEF Stream

\* What read takes, and leaves in the socket.
LEMMA TakeSome ==
    ASSUME NEW s \in Seq(Nat)
    PROVE  /\ Some(s) \in Seq(Nat) /\ Behind(s) \in Seq(Nat)
           /\ s # <<>> => Some(s) # <<>>
           /\ \A p \in Seq(Nat) : Stream(p, Some(s), Behind(s)) = Stream(p, <<>>, s)
<1> DEFINE k == IF Len(s) < BUFSIZ THEN Len(s) ELSE BUFSIZ
<1>1. k \in 0..Len(s) /\ (s # <<>> => k > 0)
  BY ProxyAssumption
<1> HIDE DEF k
<1>2. Len(SubSeq(s, 1, k)) = k /\ SubSeq(s, 1, k) \in Seq(Nat)
  BY <1>1
<1>3. Some(s) = SubSeq(s, 1, k) /\ Behind(s) = SubSeq(s, k + 1, Len(s))
  BY <1>2 DEF Some, Behind, k
<1>4. SubSeq(s, k + 1, Len(s)) \in Seq(Nat)
  BY <1>1
<1>5. SubSeq(s, 1, k) \o SubSeq(s, k + 1, Len(s)) = SubSeq(s, 1, Len(s))
  <2>1. 1 \in 1..Len(s) + 1 /\ k \in 1 - 1..Len(s) /\ Len(s) \in k..Len(s)
    BY <1>1
  <2> QED  BY <2>1, ConcatAdjacentSubSeq, Zenon
<1>6. SubSeq(s, 1, Len(s)) = s
  BY SubSeqFull, Zenon
<1>7. s # <<>> => SubSeq(s, 1, k) # <<>>
  BY <1>1, <1>2
<1>8. Some(s) \in Seq(Nat) /\ Behind(s) \in Seq(Nat)
  BY <1>2, <1>3, <1>4, Zenon
<1>9. ASSUME NEW p \in Seq(Nat)
      PROVE  p \o Some(s) \o Behind(s) = p \o (Some(s) \o Behind(s))
  <2>1. PICK a \in Seq(Nat), b \in Seq(Nat) : a = Some(s) /\ b = Behind(s)
    BY <1>8
  <2>2. p \o a \o b = p \o (a \o b)
    BY ConcatAssociative
  <2> QED  BY <2>1, <2>2, Zenon
<1>10. Some(s) \o Behind(s) = s
  BY <1>3, <1>5, <1>6, Zenon
<1>11. ASSUME NEW p \in Seq(Nat) PROVE Stream(p, <<>>, s) = p \o s
  BY DEF Stream
<1>12. ASSUME NEW p \in Seq(Nat)
       PROVE  Stream(p, Some(s), Behind(s)) = Stream(p, <<>>, s)
  <2>1. p \o Some(s) \o Behind(s) = p \o s
    BY <1>9, <1>10, Zenon
  <2> QED  BY <1>11, <2>1, Zenon DEF Stream
<1> QED  BY <1>3, <1>7, <1>8, <1>12, Zenon

LEMMA StreamProperties ==
    ASSUME NEW p \in Seq(Nat), NEW b \in Seq(Nat), NEW r \in Seq(Nat)
    PROVE  /\ Stream(p, b, r) \in Seq(Nat)
           /\ Stream(p, b, r) = <<>> <=> p = <<>> /\ b = <<>> /\ r = <<>>
           /\ p # <<>> => /\ Head(Stream(p, b, r)) = Head(p)
                          /\ Tail(Stream(p, b, r)) = Stream(Tail(p), b, r)
           /\ \A x \in Nat : Stream(p, b, Append(r, x)) = Append(Stream(p, b, r), x)
<1> DEFINE s == p \o b \o r
<1>1. s \in Seq(Nat) /\ Len(s) = Len(p) + Len(b) + Len(r)
  OBVIOUS
<1>2. s = <<>> <=> p = <<>> /\ b = <<>> /\ r = <<>>
  BY <1>1
<1>3. ASSUME p # <<>> PROVE Head(s) = Head(p) /\ Tail(s) = Tail(p) \o b \o r
  <2>1. Tail(s) \in Seq(Nat) /\ Tail(p) \o b \o r \in Seq(Nat)
    BY <1>1, <1>3
  <2>2. Len(Tail(s)) = Len(Tail(p) \o b \o r)
    BY <1>1, <1>3
  <2>3. ASSUME NEW i \in 1..Len(Tail(s)) PROVE Tail(s)[i] = (Tail(p) \o b \o r)[i]
    BY <1>1, <1>3
  <2> QED  BY <1>3, <2>1, <2>2, <2>3, SeqEqual
<1>4. ASSUME NEW x \in Nat PROVE p \o b \o Append(r, x) = Append(s, x)
  <2>1. p \o b \o Append(r, x) \in Seq(Nat) /\ Append(s, x) \in Seq(Nat)
    BY <1>1
  <2>2. Len(p \o b \o Append(r, x)) = Len(Append(s, x))
    BY <1>1
  <2>3. ASSUME NEW i \in 1..Len(Append(s, x))
        PROVE  (p \o b \o Append(r, x))[i] = Append(s, x)[i]
    BY <1>1
  <2> QED  BY <2>1, <2>2, <2>3, SeqEqual
<1> QED  BY <1>1, <1>2, <1>3, <1>4, Zenon DEF Stream

LEMMA StreamAppend ==
    \A p, b, r \in Seq(Nat), x \in Nat :
        Stream(p, b, Append(r, x)) = Append(Stream(p, b, r), x)
BY StreamProperties

LEMMA StreamHead ==
    \A p, b, r \in Seq(Nat) : p # <<>> =>
        /\ Head(Stream(p, b, r)) = Head(p)
        /\ Tail(Stream(p, b, r)) = Stream(Tail(p), b, r)
BY StreamProperties

\* What the first of the sockets holds is the first part of the stream.
LEMMA FirstPart ==
    ASSUME NEW p \in Seq(Nat), NEW b \in Seq(Nat), NEW r \in Seq(Nat)
    PROVE  /\ p \in D!Prefixes(Stream(p, b, r))
           /\ <<>> \in D!Prefixes(Stream(p, b, r))
<1> DEFINE s == p \o b \o r
<1>1. s \in Seq(Nat) /\ Len(s) = Len(p) + Len(b) + Len(r)
  OBVIOUS
<1>2. SubSeq(s, 1, Len(p)) = p
  <2>1. SubSeq(s, 1, Len(p)) \in Seq(Nat) /\ Len(SubSeq(s, 1, Len(p))) = Len(p)
    BY <1>1
  <2>2. ASSUME NEW i \in 1..Len(p) PROVE SubSeq(s, 1, Len(p))[i] = p[i]
    BY <1>1
  <2> QED  BY <2>1, <2>2, SeqEqual
<1>3. SubSeq(s, 1, 0) = <<>>
  BY <1>1
<1>4. Len(p) \in 0..Len(s) /\ 0 \in 0..Len(s)
  BY <1>1
<1> QED  BY <1>2, <1>3, <1>4 DEF D!Prefixes, Stream

-----------------------------------------------------------------------------
(* The invariant *)

\* Only connection c is concerned.
Elsewhere(c) ==
    /\ \A d \in Conns \ {c} :
          /\ held'[d] = held[d] /\ child'[d] = child[d]
          /\ revents'[d] = revents[d] /\ buf'[d] = buf[d] /\ fin'[d] = fin[d]
          /\ c2p'[d] = c2p[d] /\ p2c'[d] = p2c[d]
          /\ p2s'[d] = p2s[d] /\ s2p'[d] = s2p[d]
          /\ cli'[d] = cli[d] /\ srv'[d] = srv[d]
    /\ parent' = "exited" <=> parent = "exited"

LEMMA OthersStay ==
    ASSUME NEW c \in Conns, Elsewhere(c), \A d \in Conns : Conn(d)
    PROVE  \A d \in Conns \ {c} : Conn(d)'
BY DEF Elsewhere, Conn

LEMMA WaitsStays ==
    ASSUME Waits, UNCHANGED backlog, \A l \in ready' : backlog[l] # <<>>,
           \A d \in Conns : Idle(d) => Idle(d)'
    PROVE  Waits'
<1>1. ASSUME NEW l, NEW i, NEW c PROVE Queued(l, i, c)' <=> Queued(l, i, c)
  BY DEF Queued
<1> QED  BY <1>1, Zenon DEF Waits

LEMMA InitInv == Init => Inv
<1> SUFFICES ASSUME Init PROVE Inv
  OBVIOUS
<1>1. TypeOK
  BY DEF Init, TypeOK, End, End0, States, Running
<1>2. Waits /\ Accepted
  BY DEF Init, Waits, Accepted, Queued
<1>3. \A c \in Conns : Conn(c)
  BY DEF Init, Conn, End0, Running
<1> QED  BY <1>1, <1>2, <1>3 DEF Inv

-----------------------------------------------------------------------------
(* The steps of the parent *)

LEMMA SetupInv == Inv /\ setup_listeners => Inv'
<1> SUFFICES ASSUME Inv, setup_listeners PROVE Inv'
  OBVIOUS
<1>1. TypeOK'
  BY DEF Inv, TypeOK, setup_listeners, Fault, childVars, sockets
<1>2. Waits'
  BY WaitsStays DEF Inv, Waits, Idle, setup_listeners, childVars
<1>3. Accepted'
  BY DEF Accepted, setup_listeners
<1>4. \A c \in Conns : Conn(c)'
  BY DEF Inv, Conn, setup_listeners, childVars, sockets
<1> QED  BY <1>1, <1>2, <1>3, <1>4 DEF Inv

LEMMA SelectInv == Inv /\ main_select => Inv'
<1> SUFFICES ASSUME Inv, main_select PROVE Inv'
  OBVIOUS
<1>1. TypeOK'
  BY DEF Inv, TypeOK, main_select, childVars, sockets
<1>2. Waits' /\ Accepted'
  BY WaitsStays DEF Inv, Accepted, Idle, main_select, childVars
<1>3. \A c \in Conns : Conn(c)'
  BY DEF Inv, Conn, main_select, childVars, sockets
<1> QED  BY <1>1, <1>2, <1>3 DEF Inv

LEMMA AcceptInv == Inv /\ main_accept => Inv'
<1> SUFFICES ASSUME Inv, main_accept PROVE Inv'
  OBVIOUS
<1> USE DEF Inv
<1> PICK l \in ready :
        /\ ready' = ready \ {l}
        /\ \/ /\ acc' = Head(backlog[l])
              /\ backlog' = [backlog EXCEPT ![l] = Tail(@)]
              /\ held' = [held EXCEPT ![acc'] = {"parent"}]
              /\ parent' = "fork"
              /\ UNCHANGED faults
           \/ Fault /\ AfterListener /\ UNCHANGED <<acc, backlog, held>>
  BY DEF main_accept
<1>1. UNCHANGED <<listening, childVars, sockets, cli, srv, zombies, sigchld>>
  BY DEF main_accept
<1>2. CASE /\ acc' = Head(backlog[l])
           /\ backlog' = [backlog EXCEPT ![l] = Tail(@)]
           /\ held' = [held EXCEPT ![acc'] = {"parent"}]
           /\ parent' = "fork"
  <2> DEFINE c == Head(backlog[l])
  <2>1. /\ l \in Addrs /\ backlog[l] # <<>> /\ backlog[l] \in Seq(Conns)
        /\ Len(backlog[l]) \in Nat \ {0} /\ c = backlog[l][1] /\ c \in Conns
    BY DEF TypeOK, Waits
  <2> HIDE DEF c
  <2>2. Queued(l, 1, c) /\ Idle(c)
    <3>1. Queued(l, 1, c)
      BY <2>1 DEF Queued
    <3> QED  BY <2>1, <3>1 DEF Waits
  <2>3. /\ Tail(backlog[l]) \in Seq(Conns) /\ Len(Tail(backlog[l])) = Len(backlog[l]) - 1
        /\ \A i \in 1..Len(Tail(backlog[l])) : Tail(backlog[l])[i] = backlog[l][i + 1]
    BY <2>1
  <2>4. /\ backlog'[l] = Tail(backlog[l])
        /\ \A m \in Addrs \ {l} : backlog'[m] = backlog[m]
        /\ held'[c] = {"parent"} /\ \A d \in Conns \ {c} : held'[d] = held[d]
        /\ acc' = c
    BY <1>2, <2>1 DEF TypeOK
  <2>5. TypeOK'
    <3>1. backlog' \in [Addrs -> Seq(Conns)]
      BY <1>2, <2>1, <2>3 DEF TypeOK
    <3>2. held' \in [Conns -> SUBSET {"parent", "child"}]
      BY <1>2, <2>1, <2>4 DEF TypeOK
    <3> QED  BY <1>1, <1>2, <2>1, <2>4, <3>1, <3>2 DEF TypeOK, childVars, sockets
  <2>6. UNCHANGED <<child, cli>>
    BY <1>1 DEF childVars
  <2> DEFINE at(m, i) == IF m = l THEN i + 1 ELSE i
  <2>7. ASSUME NEW m \in Addrs, NEW i \in Nat, NEW d \in Conns, Queued(m, i, d)'
        PROVE  at(m, i) \in Nat /\ at(m, i) # 0 /\ Queued(m, at(m, i), d) /\ ~(m = l /\ i = 0)
    <3>1. CASE m = l
      <4>1. i \in 1..Len(Tail(backlog[l])) /\ Tail(backlog[l])[i] = d
        BY <2>4, <2>7, <3>1 DEF Queued
      <4>2. i + 1 \in 1..Len(backlog[l]) /\ backlog[l][i + 1] = d
        BY <2>1, <2>3, <4>1
      <4> QED  BY <3>1, <4>1, <4>2 DEF Queued
    <3>2. CASE m # l
      BY <2>4, <2>7, <3>2 DEF Queued
    <3> QED  BY <3>1, <3>2
  <2>9. ASSUME NEW m \in Addrs, NEW i \in Nat, NEW d \in Conns, Queued(m, i, d)'
        PROVE  Idle(d)'
    <3>1. Queued(m, at(m, i), d) /\ at(m, i) \in Nat /\ ~(m = l /\ at(m, i) = 1)
      BY <2>7, <2>9
    <3> HIDE DEF at
    <3>2. Idle(d) /\ d # c
      <4>1. 1 \in Nat
        OBVIOUS
      <4>2. ASSUME d = c PROVE FALSE
        <5>1. Queued(m, at(m, i), c)
          BY <3>1, <4>2
        <5>2. l = m /\ 1 = at(m, i)
          BY <2>1, <2>2, <3>1, <4>1, <5>1, Zenon DEF Waits
        <5> QED  BY <3>1, <5>2
      <4>3. Idle(d)
        BY <3>1, Zenon DEF Waits
      <4> QED  BY <4>2, <4>3
    <3> QED  BY <2>4, <2>6, <3>2 DEF Idle
  <2>10. ASSUME NEW m \in Addrs, NEW n \in Addrs, NEW i \in Nat, NEW j \in Nat,
                NEW d \in Conns, Queued(m, i, d)', Queued(n, j, d)'
         PROVE  m = n /\ i = j
    <3>1. /\ at(m, i) \in Nat /\ Queued(m, at(m, i), d)
          /\ at(n, j) \in Nat /\ Queued(n, at(n, j), d)
      BY <2>7, <2>10
    <3>2. m = n /\ at(m, i) = at(n, j)
      <4> HIDE DEF at
      <4> QED  BY <3>1, Zenon DEF Waits
    <3> QED  BY <3>2
  <2>11. ASSUME NEW m \in ready' PROVE backlog'[m] # <<>>
    BY <2>4, <2>11 DEF TypeOK, Waits
  <2>12. Waits'
    BY <2>9, <2>10, <2>11, Zenon DEF Waits
  <2>13. Accepted'
    BY <1>2, <2>1, <2>2, <2>4, <2>6 DEF Accepted, Idle
  <2>14. ASSUME NEW d \in Conns PROVE Conn(d)'
    BY <1>1, <2>2, <2>4, <2>14 DEF Conn, Idle, Running, childVars, sockets
  <2> QED  BY <2>5, <2>12, <2>13, <2>14
<1>3. CASE Fault /\ AfterListener /\ UNCHANGED <<acc, backlog, held>>
  <2>1. TypeOK'
    BY <1>1, <1>3 DEF TypeOK, AfterListener, childVars, sockets
  <2>2. Waits' /\ Accepted'
    <3>1. \A m \in ready' : backlog[m] # <<>>
      BY DEF Waits
    <3>2. Waits'
      BY <1>1, <1>3, <3>1, WaitsStays DEF Idle, childVars
    <3> QED  BY <1>3, <3>2 DEF Accepted, AfterListener
  <2>3. \A d \in Conns : Conn(d)'
    BY <1>1, <1>3 DEF Conn, childVars, sockets
  <2> QED  BY <2>1, <2>2, <2>3
<1> QED  BY <1>2, <1>3

LEMMA ForkInv == Inv /\ main_fork => Inv'
<1> SUFFICES ASSUME Inv, main_fork PROVE Inv'
  OBVIOUS
<1> USE DEF Inv
<1>1. /\ parent = "fork" /\ acc \in Conns /\ "parent" \in held[acc]
      /\ cli[acc].st # "none" /\ child[acc] = "none"
  BY DEF main_fork, Accepted
<1>2. UNCHANGED <<listening, ready, acc, backlog, revents, buf, fin, sockets, cli, srv>>
  BY DEF main_fork
<1>3. ~Idle(acc)
  BY <1>1 DEF Idle
<1>4. \A d \in Conns \ {acc} : held'[d] = held[d] /\ child'[d] = child[d]
  BY DEF main_fork, TypeOK
<1>5. Waits'
  BY <1>2, <1>3, <1>4, WaitsStays DEF Waits, Idle
<1>6. CASE /\ parent' = "close"
           /\ held' = [held EXCEPT ![acc] = @ \cup {"child"}]
           /\ child' = [child EXCEPT ![acc] = "start"]
  <2>1. TypeOK'
    BY <1>1, <1>2, <1>6 DEF TypeOK, Running, sockets
  <2>2. Accepted'
    BY <1>1, <1>2, <1>6 DEF TypeOK, Accepted
  <2>3. ASSUME NEW d \in Conns PROVE Conn(d)'
    BY <1>1, <1>2, <1>6, <2>3 DEF TypeOK, Conn, Running, sockets
  <2> QED  BY <1>5, <2>1, <2>2, <2>3
<1>7. CASE /\ parent' = "exited"
           /\ held' = [held EXCEPT ![acc] = @ \ {"parent"}]
           /\ UNCHANGED child
  <2>1. TypeOK'
    BY <1>1, <1>2, <1>7 DEF TypeOK, sockets
  <2>2. Accepted'
    BY <1>7 DEF Accepted
  <2>3. ASSUME NEW d \in Conns PROVE Conn(d)'
    BY <1>1, <1>2, <1>7, <2>3 DEF TypeOK, Conn, Running, sockets
  <2> QED  BY <1>5, <2>1, <2>2, <2>3
<1> QED  BY <1>6, <1>7 DEF main_fork

LEMMA CloseInv == Inv /\ main_close => Inv'
<1> SUFFICES ASSUME Inv, main_close PROVE Inv'
  OBVIOUS
<1> USE DEF Inv
<1>1. /\ acc \in Conns /\ "parent" \in held[acc] /\ cli[acc].st # "none"
  BY DEF main_close, Accepted
<1>2. UNCHANGED <<listening, ready, backlog, childVars, sockets, cli, srv>>
  BY DEF main_close
<1>3. /\ held' = [held EXCEPT ![acc] = @ \ {"parent"}]
      /\ acc' = None /\ parent' \in {"select", "accept"}
  BY DEF main_close, Parents, AfterListener
<1>4. TypeOK'
  BY <1>1, <1>2, <1>3 DEF TypeOK, childVars, sockets
<1>5. Waits'
  <2>1. ~Idle(acc)
    BY <1>1 DEF Idle
  <2>2. \A d \in Conns \ {acc} : held'[d] = held[d]
    BY <1>3 DEF TypeOK
  <2> QED  BY <1>2, <2>1, <2>2, WaitsStays DEF Waits, Idle, childVars
<1>6. Accepted'
  BY <1>3 DEF Accepted
<1>7. ASSUME NEW d \in Conns PROVE Conn(d)'
  BY <1>1, <1>2, <1>3, <1>7 DEF TypeOK, Conn, Running, childVars, sockets
<1> QED  BY <1>4, <1>5, <1>6, <1>7

LEMMA SignalInv == Inv /\ main_sigchld_handler => Inv'
<1> SUFFICES ASSUME Inv, main_sigchld_handler PROVE Inv'
  OBVIOUS
<1> USE DEF Inv
<1>1. UNCHANGED <<parentVars, held, childVars, sockets, cli, srv>>
  BY DEF main_sigchld_handler
<1>2. TypeOK'
  BY <1>1 DEF TypeOK, parentVars, childVars, sockets
<1>3. Waits'
  BY <1>1, WaitsStays DEF Waits, Idle, parentVars, childVars
<1>4. Accepted' /\ \A c \in Conns : Conn(c)'
  BY <1>1 DEF Accepted, Conn, parentVars, childVars, sockets
<1> QED  BY <1>2, <1>3, <1>4

-----------------------------------------------------------------------------
(* The steps of a child *)

\* A step that concerns a connection nobody waits for keeps the parent's part.
LEMMA ParentStays ==
    ASSUME Inv, NEW c \in Conns, ~Idle(c), Elsewhere(c),
           UNCHANGED <<parent, ready, acc, backlog>>,
           "parent" \in held[c] => "parent" \in held'[c], cli[c].st # "none" => cli'[c].st # "none",
           child[c] # "none" \/ parent # "fork"
    PROVE  Waits' /\ Accepted'
<1>1. \A d \in Conns : Idle(d) => Idle(d)'
  BY DEF Idle, Elsewhere
<1>2. Waits'
  BY <1>1, WaitsStays DEF Inv, Waits
<1>3. Accepted'
  BY DEF Inv, Accepted, Elsewhere
<1> QED  BY <1>2, <1>3

\* What a step of c's child changes, as values of the variables of c.
Child(c) ==
    /\ UNCHANGED <<parentVars, cli>> /\ child[c] \in Running
    /\ "parent" \in held[c] => "parent" \in held'[c]
    /\ TypeOK' /\ Elsewhere(c)

LEMMA ChildKeeps ==
    ASSUME Inv, NEW c \in Conns, Child(c), Conn(c)'
    PROVE  Inv'
<1>1. ~Idle(c) /\ child[c] # "none"
  BY DEF Child, Idle, Running
<1>2. Waits' /\ Accepted'
  BY <1>1, ParentStays DEF Child, parentVars
<1>3. \A d \in Conns : Conn(d)'
  BY OthersStay DEF Inv, Child
<1> QED  BY <1>2, <1>3 DEF Inv, Child

LEMMA ExitIsChild ==
    ASSUME Inv, NEW c \in Conns, child[c] \in Running, Exit(c),
           UNCHANGED p2c \/ p2c' = [p2c EXCEPT ![c] = <<>>],
           UNCHANGED fin \/ fin' = [fin EXCEPT ![c] = TRUE], UNCHANGED srv
    PROVE  Child(c)
<1> USE DEF Inv
<1>1. <<>> \in Seq(Nat)
  OBVIOUS
<1>2. TypeOK'
  <2>1. fin' \in [Conns -> BOOLEAN]
    BY Zenon DEF TypeOK
  <2>2. c2p' \in [Conns -> Seq(Nat)]
    BY <1>1 DEF TypeOK, Exit
  <2>3. p2c' \in [Conns -> Seq(Nat)]
    BY <1>1 DEF TypeOK
  <2>4. buf' \in [Conns -> Seq(Nat)] /\ s2p' \in [Conns -> Seq(Nat)]
    BY <1>1 DEF TypeOK, Exit
  <2>5. /\ held' \in [Conns -> SUBSET {"parent", "child"}]
        /\ child' \in [Conns -> Running \cup {"none", "exited"}]
        /\ revents' \in [Conns -> SUBSET {"inet", "sj3"}]
    BY DEF TypeOK, Exit
  <2>6. UNCHANGED <<parentVars, p2s, cli, srv>>
    BY DEF Exit
  <2> QED  BY <2>1, <2>2, <2>3, <2>4, <2>5, <2>6 DEF TypeOK, parentVars
<1>3. Elsewhere(c)
  BY DEF TypeOK, Elsewhere, Exit, parentVars
<1> QED  BY <1>2, <1>3 DEF TypeOK, Child, Exit

LEMMA StartInv ==
    ASSUME Inv, NEW c \in Conns, child_connect(c)
    PROVE  Inv' /\ Child(c)
<1> USE DEF Inv
<1>1. child[c] = "start" /\ srv[c].st = "none" /\ s2p[c] = <<>>
  BY DEF child_connect, Conn
<1>2. CASE /\ Goto(c, "poll")
           /\ srv' = [srv EXCEPT ![c].st = "open"]
           /\ UNCHANGED <<parentVars, held, revents, buf, fin, sockets, cli, zombies,
                          sigchld, faults>>
  <2>1. TypeOK'
    BY <1>2 DEF TypeOK, Goto, Running, End, States, parentVars, sockets
  <2>2. Elsewhere(c)
    BY <1>2 DEF TypeOK, Elsewhere, Goto, parentVars, sockets
  <2>3. Child(c)
    BY <1>1, <1>2, <2>1, <2>2 DEF Child, Running
  <2>4. Conn(c)'
    BY <1>1, <1>2 DEF TypeOK, Conn, Goto, Running, End, sockets
  <2> QED  BY <2>3, <2>4, ChildKeeps
<1>3. CASE Exit(c) /\ UNCHANGED <<p2c, fin, srv>>
  <2>1. Child(c)
    BY <1>1, <1>3, ExitIsChild DEF Running
  <2>2. Conn(c)'
    BY <1>1, <1>3 DEF TypeOK, Conn, Exit, Running
  <2> QED  BY <2>1, <2>2, ChildKeeps
<1> QED  BY <1>2, <1>3 DEF child_connect

LEMMA PollInv ==
    ASSUME Inv, NEW c \in Conns, child_poll(c)
    PROVE  Inv' /\ Child(c)
<1> USE DEF Inv
<1>1. /\ child[c] = "poll" /\ Readable(c) # {} /\ Readable(c) \subseteq {"inet", "sj3"}
      /\ "sj3" \in Readable(c) <=> s2p[c] # <<>> \/ srv[c].st = "closed"
  BY DEF child_poll, Readable
<1>2. /\ revents' = [revents EXCEPT ![c] = Readable(c)]
      /\ child' = [child EXCEPT ![c] = IF "inet" \in Readable(c) THEN "inet" ELSE "sj3"]
      /\ UNCHANGED <<parentVars, held, buf, fin, sockets, cli, srv>>
  BY DEF child_poll, Goto, Still
<1> HIDE DEF Readable
<1>3. TypeOK'
  BY <1>1, <1>2 DEF TypeOK, Running, parentVars, sockets
<1>4. Elsewhere(c)
  BY <1>2 DEF TypeOK, Elsewhere, parentVars, sockets
<1>5. Child(c)
  BY <1>1, <1>2, <1>3, <1>4 DEF Child, Running
<1>6. child'[c] \in {"inet", "sj3"} /\ (child'[c] = "sj3" => "sj3" \in Readable(c))
      /\ revents'[c] = Readable(c)
  BY <1>1, <1>2 DEF TypeOK
<1>7. Conn(c)'
  BY <1>1, <1>2, <1>6 DEF Conn, Running, sockets
<1> QED  BY <1>5, <1>7, ChildKeeps

LEMMA InetInv ==
    ASSUME Inv, NEW c \in Conns, child_inet(c)
    PROVE  Inv' /\ Child(c)
<1> USE DEF Inv
<1>1. child[c] = "inet" /\ srv[c].st # "none" /\ c2p[c] \in Seq(Nat)
  BY DEF child_inet, TypeOK, Conn
<1>2. CASE /\ c2p[c] # <<>>
           /\ buf' = [buf EXCEPT ![c] = Some(c2p[c])]
           /\ c2p' = [c2p EXCEPT ![c] = Behind(@)]
           /\ Goto(c, "up")
           /\ UNCHANGED <<revents, fin, p2c, p2s, s2p>> /\ Still
  <2>1. /\ Some(c2p[c]) \in Seq(Nat) /\ Behind(c2p[c]) \in Seq(Nat)
        /\ Some(c2p[c]) # <<>>
    BY <1>1, <1>2, TakeSome
  <2>2. TypeOK'
    BY <1>2, <2>1 DEF TypeOK, Goto, Running, Still, parentVars
  <2>3. Elsewhere(c)
    BY <1>2 DEF TypeOK, Elsewhere, Goto, Still, parentVars
  <2>4. Child(c)
    BY <1>1, <1>2, <2>2, <2>3 DEF Child, Running, Still
  <2>5. Conn(c)'
    BY <1>1, <1>2, <2>1 DEF TypeOK, Conn, Goto, Running, Still
  <2> QED  BY <2>4, <2>5, ChildKeeps
<1>3. CASE /\ cli[c].st = "closed"
           /\ Exit(c) /\ UNCHANGED <<p2c, fin, srv>>
  <2>1. Child(c)
    BY <1>1, <1>3, ExitIsChild DEF Running
  <2>2. Conn(c)'
    BY <1>1, <1>3 DEF TypeOK, Conn, Exit, Running
  <2> QED  BY <2>1, <2>2, ChildKeeps
<1> QED  BY <1>2, <1>3 DEF child_inet

LEMMA UpInv ==
    ASSUME Inv, NEW c \in Conns, child_up(c)
    PROVE  Inv' /\ Child(c)
<1> USE DEF Inv
<1>1. /\ child[c] = "up" /\ srv[c].st # "none" /\ buf[c] # <<>>
      /\ buf[c] \in Seq(Nat) /\ p2s[c] \in Seq(Nat)
  BY DEF child_up, TypeOK, Conn
<1>2. CASE /\ p2s' = [p2s EXCEPT ![c] = Append(@, Head(buf[c]))]
           /\ buf' = [buf EXCEPT ![c] = Rest(@)]
           /\ IF buf'[c] # <<>> THEN UNCHANGED child
              ELSE Goto(c, IF "sj3" \in revents[c] THEN "sj3" ELSE "poll")
           /\ UNCHANGED <<revents, fin, c2p, p2c, s2p>> /\ Still
  <2>1. Append(p2s[c], Head(buf[c])) \in Seq(Nat) /\ Rest(buf[c]) \in Seq(Nat)
    BY <1>1 DEF Rest
  <2>2. child' \in [Conns -> Running \cup {"none", "exited"}]
    BY <1>2 DEF TypeOK, Goto, Running
  <2>3. TypeOK'
    BY <1>2, <2>1, <2>2 DEF TypeOK, Still, parentVars
  <2>4. Elsewhere(c)
    BY <1>2 DEF TypeOK, Elsewhere, Goto, Still, parentVars
  <2>5. Child(c)
    BY <1>1, <1>2, <2>3, <2>4 DEF Child, Running, Still
  <2>6. /\ child'[c] \in {"up", "sj3", "poll"}
        /\ child'[c] = "up" => buf'[c] # <<>>
        /\ child'[c] = "sj3" => "sj3" \in revents[c]
    BY <1>1, <1>2 DEF TypeOK, Goto
  <2>7. UNCHANGED <<cli, srv, held, revents, fin, c2p, p2c, s2p>>
    BY <1>2 DEF Still
  <2>8. Conn(c)'
    BY <1>1, <2>6, <2>7 DEF Conn, Running
  <2> QED  BY <2>5, <2>8, ChildKeeps
<1>3. CASE /\ srv[c].st = "closed"
           /\ Exit(c) /\ Reset(c) /\ UNCHANGED <<fin, srv>>
  <2>1. Child(c)
    BY <1>1, <1>3, ExitIsChild DEF Running, Reset
  <2>2. Conn(c)'
    BY <1>1, <1>3 DEF TypeOK, Conn, Exit, Running
  <2> QED  BY <2>1, <2>2, ChildKeeps
<1> QED  BY <1>2, <1>3 DEF child_up

LEMMA Sj3Inv ==
    ASSUME Inv, NEW c \in Conns, child_sj3(c)
    PROVE  Inv' /\ Child(c)
<1> USE DEF Inv
<1>1. child[c] = "sj3" /\ srv[c].st # "none" /\ s2p[c] \in Seq(Nat)
  BY DEF child_sj3, TypeOK, Conn
<1>2. CASE /\ s2p[c] # <<>>
           /\ buf' = [buf EXCEPT ![c] = Some(s2p[c])]
           /\ s2p' = [s2p EXCEPT ![c] = Behind(@)]
           /\ Goto(c, "down")
           /\ UNCHANGED <<revents, fin, c2p, p2c, p2s>> /\ Still
  <2>1. /\ Some(s2p[c]) \in Seq(Nat) /\ Behind(s2p[c]) \in Seq(Nat)
        /\ Some(s2p[c]) # <<>>
    BY <1>1, <1>2, TakeSome
  <2>2. TypeOK'
    BY <1>2, <2>1 DEF TypeOK, Goto, Running, Still, parentVars
  <2>3. Elsewhere(c)
    BY <1>2 DEF TypeOK, Elsewhere, Goto, Still, parentVars
  <2>4. Child(c)
    BY <1>1, <1>2, <2>2, <2>3 DEF Child, Running, Still
  <2>5. Conn(c)'
    BY <1>1, <1>2, <2>1 DEF TypeOK, Conn, Goto, Running, Still
  <2> QED  BY <2>4, <2>5, ChildKeeps
<1>3. CASE /\ s2p[c] = <<>>
           /\ fin' = [fin EXCEPT ![c] = TRUE]
           /\ Exit(c) /\ Reset(c) /\ UNCHANGED srv
  <2>1. Child(c)
    BY <1>1, <1>3, ExitIsChild DEF Running, Reset
  <2>2. srv[c].st = "closed"
    BY <1>1, <1>3 DEF Conn
  <2>3. Conn(c)'
    BY <1>1, <1>3, <2>2 DEF TypeOK, Conn, Exit, Running
  <2> QED  BY <2>1, <2>3, ChildKeeps
<1> QED  BY <1>2, <1>3 DEF child_sj3

LEMMA DownInv ==
    ASSUME Inv, NEW c \in Conns, child_down(c)
    PROVE  Inv' /\ Child(c)
<1> USE DEF Inv
<1>1. /\ child[c] = "down" /\ srv[c].st # "none" /\ buf[c] # <<>>
      /\ buf[c] \in Seq(Nat) /\ p2c[c] \in Seq(Nat)
  BY DEF child_down, TypeOK, Conn
<1>2. CASE /\ p2c' = [p2c EXCEPT ![c] = Append(@, Head(buf[c]))]
           /\ buf' = [buf EXCEPT ![c] = Rest(@)]
           /\ IF buf'[c] # <<>> THEN UNCHANGED child ELSE Goto(c, "poll")
           /\ UNCHANGED <<revents, fin, c2p, p2s, s2p>> /\ Still
  <2>1. Append(p2c[c], Head(buf[c])) \in Seq(Nat) /\ Rest(buf[c]) \in Seq(Nat)
    BY <1>1 DEF Rest
  <2>2. child' \in [Conns -> Running \cup {"none", "exited"}]
    BY <1>2 DEF TypeOK, Goto, Running
  <2>3. TypeOK'
    BY <1>2, <2>1, <2>2 DEF TypeOK, Still, parentVars
  <2>4. Elsewhere(c)
    BY <1>2 DEF TypeOK, Elsewhere, Goto, Still, parentVars
  <2>5. Child(c)
    BY <1>1, <1>2, <2>3, <2>4 DEF Child, Running, Still
  <2>6. child'[c] \in {"down", "poll"} /\ (child'[c] = "down" => buf'[c] # <<>>)
    BY <1>1, <1>2 DEF TypeOK, Goto
  <2>7. UNCHANGED <<cli, srv, held, revents, fin, c2p, p2s, s2p>>
    BY <1>2 DEF Still
  <2>8. Conn(c)'
    BY <1>1, <2>6, <2>7 DEF Conn, Running
  <2> QED  BY <2>5, <2>8, ChildKeeps
<1>3. CASE /\ cli[c].st = "closed"
           /\ Exit(c) /\ UNCHANGED <<p2c, fin, srv>>
  <2>1. Child(c)
    BY <1>1, <1>3, ExitIsChild DEF Running
  <2>2. Conn(c)'
    BY <1>1, <1>3 DEF TypeOK, Conn, Exit, Running
  <2> QED  BY <2>1, <2>2, ChildKeeps
<1> QED  BY <1>2, <1>3 DEF child_down

-----------------------------------------------------------------------------
(* The steps of the ends *)

LEMMA ConnectInv ==
    ASSUME Inv, NEW c \in Conns, NEW l \in Addrs, client_connect(c, l)
    PROVE  Inv'
<1> USE DEF Inv
<1>1. /\ cli[c].st = "none" /\ child[c] = "none" /\ held[c] = {} /\ ~Idle(c)
      /\ c \in Conns /\ backlog[l] \in Seq(Conns)
  BY DEF client_connect, Conn, Idle, TypeOK
<1>2. /\ cli' = [cli EXCEPT ![c].st = "open"]
      /\ backlog' = [backlog EXCEPT ![l] = Append(@, c)]
      /\ UNCHANGED <<parent, listening, ready, acc, held, childVars, sockets, srv>>
  BY DEF client_connect, Quiet
<1>3. /\ Append(backlog[l], c) \in Seq(Conns)
      /\ Len(backlog[l]) \in Nat /\ Len(Append(backlog[l], c)) = Len(backlog[l]) + 1
      /\ Append(backlog[l], c)[Len(backlog[l]) + 1] = c
      /\ \A i \in 1..Len(backlog[l]) : Append(backlog[l], c)[i] = backlog[l][i]
  BY <1>1
<1>4. /\ backlog'[l] = Append(backlog[l], c)
      /\ \A m \in Addrs \ {l} : backlog'[m] = backlog[m]
      /\ cli'[c].st = "open" /\ \A d \in Conns \ {c} : cli'[d] = cli[d]
  BY <1>2 DEF TypeOK, End
<1>5. TypeOK'
  <2>1. cli' \in [Conns -> End]
    BY <1>2 DEF TypeOK, End, States
  <2>2. backlog' \in [Addrs -> Seq(Conns)]
    BY <1>2, <1>3 DEF TypeOK
  <2> QED  BY <1>2, <2>1, <2>2 DEF TypeOK, childVars, sockets
<1>6. \A d \in Conns : Conn(d)'
  BY <1>1, <1>2, <1>4 DEF Conn, childVars, sockets
<1>7. Accepted'
  BY <1>2, <1>4 DEF Accepted, childVars
<1>8. Idle(c)' /\ \A d \in Conns : Idle(d) => Idle(d)'
  BY <1>1, <1>2, <1>4 DEF Idle, childVars
<1> DEFINE new(m, i) == m = l /\ i = Len(backlog[l]) + 1
<1>9. ASSUME NEW d \in Conns, NEW m \in Addrs, NEW i \in Nat, Queued(m, i, d)'
      PROVE  IF new(m, i) THEN d = c ELSE Queued(m, i, d)
  <2>1. CASE m = l
    <3>1. i \in 1..Len(backlog[l]) + 1 /\ Append(backlog[l], c)[i] = d
      BY <1>3, <1>4, <1>9, <2>1 DEF Queued
    <3>2. i # Len(backlog[l]) + 1 => i \in 1..Len(backlog[l])
      BY <1>3, <3>1
    <3> QED  BY <1>3, <2>1, <3>1, <3>2 DEF Queued
  <2>2. CASE m # l
    BY <1>4, <1>9, <2>2 DEF Queued
  <2> QED  BY <2>1, <2>2
<1>10. ASSUME NEW m \in Addrs, NEW i \in Nat PROVE ~Queued(m, i, c)
  BY <1>1 DEF Waits
<1>11. ASSUME NEW d \in Conns, NEW m \in Addrs, NEW i \in Nat, Queued(m, i, d)'
       PROVE  Idle(d)'
  <2> HIDE DEF new
  <2> QED  BY <1>8, <1>9, <1>11, Zenon DEF Waits
<1>12. ASSUME NEW d \in Conns, NEW m \in Addrs, NEW i \in Nat,
              NEW n \in Addrs, NEW j \in Nat, Queued(m, i, d)', Queued(n, j, d)'
       PROVE  m = n /\ i = j
  <2>1. CASE new(m, i)
    BY <1>9, <1>10, <1>12, <2>1
  <2>2. CASE ~new(m, i)
    <3>1. Queued(m, i, d) /\ d # c
      BY <1>9, <1>10, <1>12, <2>2
    <3>2. Queued(n, j, d)
      BY <1>9, <1>12, <3>1
    <3> QED  BY <3>1, <3>2, Zenon DEF Waits
  <2> QED  BY <2>1, <2>2
<1>13. ASSUME NEW m \in ready' PROVE backlog'[m] # <<>>
  <2>1. m \in ready /\ m \in Addrs /\ backlog[m] # <<>>
    BY <1>2, <1>13 DEF TypeOK, Waits
  <2> QED  BY <1>3, <1>4, <2>1
<1>14. Waits'
  BY <1>11, <1>12, <1>13, Zenon DEF Waits
<1> QED  BY <1>5, <1>6, <1>7, <1>14

\* What a step of the ends of c, once connected, leaves alone.
Ends(c) ==
    /\ UNCHANGED <<parent, listening, ready, acc, backlog, held, childVars>>
    /\ cli[c].st # "none" => cli'[c].st # "none"
    /\ TypeOK' /\ Elsewhere(c)

LEMMA EndsKeep ==
    ASSUME Inv, NEW c \in Conns, Ends(c), Conn(c)'
    PROVE  Inv'
<1>1. \A d \in Conns : Idle(d) => Idle(d)'
  BY DEF Idle, Ends, Elsewhere, childVars
<1>2. Waits'
  BY <1>1, WaitsStays DEF Inv, Waits, Ends
<1>3. Accepted'
  BY DEF Inv, Accepted, Ends, Elsewhere, childVars
<1>4. \A d \in Conns : Conn(d)'
  BY OthersStay DEF Inv, Ends
<1> QED  BY <1>2, <1>3, <1>4 DEF Inv, Ends

\* An end that is told of the other's end, and one that closes.
Told(e) == [e EXCEPT !.eof = TRUE]
Left(e) == [e EXCEPT !.st = "closed"]

LEMMA EndTypes ==
    ASSUME NEW e \in End
    PROVE  /\ Told(e) \in End /\ Told(e).st = e.st
           /\ Left(e) \in End /\ Left(e).st = "closed"
<1>1. Left(e) \in End /\ Left(e).st = "closed" /\ Told(e).st = e.st
  BY DEF Told, Left, End, States
<1>2. TRUE \in BOOLEAN
  OBVIOUS
<1>3. Told(e) \in End
  BY <1>2 DEF Told, End
<1> QED  BY <1>1, <1>3

LEMMA ClientInv ==
    ASSUME Inv, NEW c \in Conns, client(c) \/ client_close(c)
    PROVE  Inv' /\ Ends(c)
<1> USE DEF Inv
<1>1. UNCHANGED <<parent, listening, ready, acc, backlog, held, childVars, srv, p2s, s2p>>
  BY DEF client, client_send, client_receive, client_eof, client_close, Quiet, sockets
<1>2. c2p[c] \in Seq(Nat) /\ p2c[c] \in Seq(Nat) /\ cli[c] \in End
  BY DEF TypeOK
<1>3. cli[c].st = "open"
  BY DEF client, client_send, client_receive, client_eof, client_close
<1>4. CASE client_send(c)
  <2>1. cli[c].sent + 1 \in Nat
    BY <1>2 DEF End
  <2>2. cli' = [cli EXCEPT ![c].sent = @ + 1] /\ UNCHANGED p2c
    BY <1>4 DEF client_send
  <2>3. c2p' = [c2p EXCEPT ![c] = Append(@, cli[c].sent + 1)]
    BY <1>2, <1>4, <2>2 DEF client_send, TypeOK, End
  <2>4. Append(c2p[c], cli[c].sent + 1) \in Seq(Nat)
    BY <1>2, <2>1
  <2>5. TypeOK'
    BY <1>1, <2>1, <2>2, <2>3, <2>4 DEF TypeOK, End, childVars
  <2>6. /\ cli'[c].st = "open" /\ child[c] # "exited"
        /\ \A d \in Conns \ {c} : cli'[d] = cli[d] /\ c2p'[d] = c2p[d]
    BY <1>3, <1>4, <2>2, <2>3 DEF client_send, TypeOK, End
  <2>7. Ends(c)
    BY <1>1, <2>2, <2>5, <2>6 DEF Ends, Elsewhere, childVars
  <2>8. Conn(c)'
    BY <1>1, <1>3, <2>2, <2>6 DEF Conn, Running, childVars
  <2> QED  BY <2>7, <2>8, EndsKeep
<1>5. CASE client_receive(c)
  <2>1. Head(p2c[c]) \in Nat /\ Tail(p2c[c]) \in Seq(Nat)
    BY <1>2, <1>5 DEF client_receive
  <2>2. /\ cli' = [cli EXCEPT ![c].got = Head(p2c[c])]
        /\ p2c' = [p2c EXCEPT ![c] = Tail(@)] /\ UNCHANGED c2p
    BY <1>5 DEF client_receive
  <2>3. TypeOK'
    BY <1>1, <2>1, <2>2 DEF TypeOK, End, childVars
  <2>4. /\ cli'[c].st = "open"
        /\ \A d \in Conns \ {c} : cli'[d] = cli[d] /\ p2c'[d] = p2c[d]
    BY <1>3, <2>2 DEF TypeOK, End
  <2>5. Ends(c)
    BY <1>1, <2>2, <2>3, <2>4 DEF Ends, Elsewhere, childVars
  <2>6. Conn(c)'
    BY <1>1, <1>3, <2>2, <2>4 DEF Conn, Running, childVars
  <2> QED  BY <2>5, <2>6, EndsKeep
<1>6. CASE \/ client_eof(c) /\ cli' = [cli EXCEPT ![c].eof = TRUE]
           \/ client_close(c) /\ cli' = [cli EXCEPT ![c].st = "closed"]
  <2>1. UNCHANGED <<c2p, p2c>>
    BY <1>6 DEF client_eof, client_close, sockets
  <2>2. \/ cli' = [cli EXCEPT ![c] = Told(@)]
        \/ cli' = [cli EXCEPT ![c] = Left(@)]
    BY <1>6 DEF TypeOK, Told, Left
  <2>3. /\ cli' \in [Conns -> End] /\ cli'[c].st \in {"open", "closed"}
        /\ \A d \in Conns \ {c} : cli'[d] = cli[d]
    <3>1. /\ Told(cli[c]) \in End /\ Told(cli[c]).st = "open"
          /\ Left(cli[c]) \in End /\ Left(cli[c]).st = "closed"
      BY <1>2, <1>3, EndTypes
    <3>2. PICK e \in End : e.st \in {"open", "closed"} /\ cli' = [cli EXCEPT ![c] = e]
      BY <2>2, <3>1
    <3> QED  BY <3>2 DEF TypeOK
  <2>4. TypeOK'
    BY <1>1, <2>1, <2>3 DEF TypeOK, childVars
  <2>5. Ends(c)
    BY <1>1, <2>1, <2>3, <2>4 DEF Ends, Elsewhere, childVars
  <2>6. Conn(c)'
    BY <1>1, <1>3, <2>1, <2>3 DEF Conn, Running, childVars
  <2> QED  BY <2>5, <2>6, EndsKeep
<1> QED  BY <1>4, <1>5, <1>6 DEF client, client_eof, client_close

LEMMA ServerInv ==
    ASSUME Inv, NEW c \in Conns, server(c) \/ server_close(c)
    PROVE  Inv' /\ Ends(c)
<1> USE DEF Inv
<1>1. UNCHANGED <<parent, listening, ready, acc, backlog, held, childVars, cli, c2p, p2c>>
  BY DEF server, server_receive, server_send, server_eof, server_close, Quiet, sockets
<1>2. p2s[c] \in Seq(Nat) /\ s2p[c] \in Seq(Nat) /\ srv[c] \in End
  BY DEF TypeOK
<1>3. srv[c].st = "open"
  BY DEF server, server_receive, server_send, server_eof, server_close
<1>4. CASE server_send(c)
  <2>1. srv[c].sent + 1 \in Nat
    BY <1>2 DEF End
  <2>2. srv' = [srv EXCEPT ![c].sent = @ + 1] /\ UNCHANGED p2s
    BY <1>4 DEF server_send
  <2>3. s2p' = [s2p EXCEPT ![c] = Append(@, srv[c].sent + 1)]
    BY <1>2, <1>4, <2>2 DEF server_send, TypeOK, End
  <2>4. Append(s2p[c], srv[c].sent + 1) \in Seq(Nat) /\ Append(s2p[c], srv[c].sent + 1) # <<>>
    BY <1>2, <2>1
  <2>5. TypeOK'
    BY <1>1, <2>1, <2>2, <2>3, <2>4 DEF TypeOK, End, childVars
  <2>6. /\ srv'[c].st = "open" /\ child[c] # "exited"
        /\ s2p'[c] = Append(s2p[c], srv[c].sent + 1)
        /\ \A d \in Conns \ {c} : srv'[d] = srv[d] /\ s2p'[d] = s2p[d]
    BY <1>3, <1>4, <2>2, <2>3 DEF server_send, TypeOK, End
  <2>7. Ends(c)
    BY <1>1, <2>2, <2>5, <2>6 DEF Ends, Elsewhere, childVars
  <2>8. Conn(c)'
    BY <1>1, <1>3, <2>2, <2>4, <2>6 DEF Conn, Running, childVars
  <2> QED  BY <2>7, <2>8, EndsKeep
<1>5. CASE server_receive(c)
  <2>1. Head(p2s[c]) \in Nat /\ Tail(p2s[c]) \in Seq(Nat)
    BY <1>2, <1>5 DEF server_receive
  <2>2. /\ srv' = [srv EXCEPT ![c].got = Head(p2s[c])]
        /\ p2s' = [p2s EXCEPT ![c] = Tail(@)] /\ UNCHANGED s2p
    BY <1>5 DEF server_receive
  <2>3. TypeOK'
    BY <1>1, <2>1, <2>2 DEF TypeOK, End, childVars
  <2>4. /\ srv'[c].st = "open" /\ p2s'[c] = Tail(p2s[c])
        /\ \A d \in Conns \ {c} : srv'[d] = srv[d] /\ p2s'[d] = p2s[d]
    BY <1>3, <2>2 DEF TypeOK, End
  <2>5. Ends(c)
    BY <1>1, <2>2, <2>3, <2>4 DEF Ends, Elsewhere, childVars
  <2>6. Conn(c)'
    BY <1>1, <1>3, <2>2, <2>4 DEF Conn, Running, childVars
  <2> QED  BY <2>5, <2>6, EndsKeep
<1>6. CASE \/ server_eof(c) /\ srv' = [srv EXCEPT ![c].eof = TRUE]
           \/ server_close(c) /\ srv' = [srv EXCEPT ![c].st = "closed"]
  <2>1. UNCHANGED <<p2s, s2p>>
    BY <1>6 DEF server_eof, server_close, sockets
  <2>2. \/ srv' = [srv EXCEPT ![c] = Told(@)]
        \/ srv' = [srv EXCEPT ![c] = Left(@)]
    BY <1>6 DEF TypeOK, Told, Left
  <2>3. /\ srv' \in [Conns -> End] /\ srv'[c].st \in {"open", "closed"}
        /\ \A d \in Conns \ {c} : srv'[d] = srv[d]
    <3>1. /\ Told(srv[c]) \in End /\ Told(srv[c]).st = "open"
          /\ Left(srv[c]) \in End /\ Left(srv[c]).st = "closed"
      BY <1>2, <1>3, EndTypes
    <3>2. PICK e \in End : e.st \in {"open", "closed"} /\ srv' = [srv EXCEPT ![c] = e]
      BY <2>2, <3>1
    <3> QED  BY <3>2 DEF TypeOK
  <2>4. TypeOK'
    BY <1>1, <2>1, <2>3 DEF TypeOK, childVars
  <2>5. Ends(c)
    BY <1>1, <2>1, <2>3, <2>4 DEF Ends, Elsewhere, childVars
  <2>6. Conn(c)'
    BY <1>1, <1>3, <2>1, <2>3 DEF Conn, Running, childVars
  <2> QED  BY <2>5, <2>6, EndsKeep
<1> QED  BY <1>4, <1>5, <1>6 DEF server, server_eof, server_close

LEMMA StutterInv == Inv /\ UNCHANGED vars => Inv'
<1> SUFFICES ASSUME Inv, UNCHANGED vars PROVE Inv'
  OBVIOUS
<1> USE DEF Inv, vars, parentVars, childVars, sockets
<1>1. TypeOK' /\ Accepted' /\ \A c \in Conns : Conn(c)'
  BY DEF TypeOK, Accepted, Conn
<1>2. Waits'
  BY WaitsStays DEF Waits, Idle
<1> QED  BY <1>1, <1>2

\* The two ends of a connection, its child and the parent stay in step.
THEOREM Invariance == Spec => []Inv
<1>1. Inv /\ [Next]_vars => Inv'
  BY SetupInv, SelectInv, AcceptInv, ForkInv, CloseInv, SignalInv, StartInv, PollInv,
     InetInv, UpInv, Sj3Inv, DownInv, ConnectInv, ClientInv, ServerInv, StutterInv
  DEF Next, main, readwrite
<1> QED  BY InitInv, <1>1, PTL DEF Spec

-----------------------------------------------------------------------------
(* Each step is one of Duplex *)

\* What of c Duplex sees.
UpAt(c) == Stream(p2s[c], Buf(c, "up"), c2p[c])
DownAt(c) == Stream(p2c[c], Buf(c, "down"), s2p[c])
SrvAt(c) == IF Refused(c) THEN [srv[c] EXCEPT !.st = "refused"] ELSE srv[c]

LEMMA Views ==
    /\ Up = [c \in Conns |-> UpAt(c)]
    /\ Down = [c \in Conns |-> DownAt(c)]
    /\ Srv = [c \in Conns |-> SrvAt(c)]
BY DEF Up, Down, Srv, UpAt, DownAt, SrvAt, Stream

LEMMA ViewsEmpty ==
    ASSUME TypeOK, NEW c \in Conns
    PROVE  /\ Up[c] = <<>> <=> p2s[c] = <<>> /\ Buf(c, "up") = <<>> /\ c2p[c] = <<>>
           /\ Down[c] = <<>> <=> p2c[c] = <<>> /\ Buf(c, "down") = <<>> /\ s2p[c] = <<>>
<1>1. /\ c2p[c] \in Seq(Nat) /\ p2s[c] \in Seq(Nat) /\ p2c[c] \in Seq(Nat)
      /\ s2p[c] \in Seq(Nat) /\ buf[c] \in Seq(Nat) /\ <<>> \in Seq(Nat)
  BY DEF TypeOK
<1>2. Buf(c, "up") \in Seq(Nat) /\ Buf(c, "down") \in Seq(Nat)
  BY <1>1 DEF Buf
<1>3. /\ Up[c] = Stream(p2s[c], Buf(c, "up"), c2p[c])
      /\ Down[c] = Stream(p2c[c], Buf(c, "down"), s2p[c])
  BY Views DEF UpAt, DownAt
<1>4. \A p, b, r \in Seq(Nat) : Stream(p, b, r) = <<>> <=> p = <<>> /\ b = <<>> /\ r = <<>>
  BY StreamProperties
<1>5. Stream(p2s[c], Buf(c, "up"), c2p[c]) = <<>> <=>
          p2s[c] = <<>> /\ Buf(c, "up") = <<>> /\ c2p[c] = <<>>
  BY <1>1, <1>2, <1>4
<1>6. Stream(p2c[c], Buf(c, "down"), s2p[c]) = <<>> <=>
          p2c[c] = <<>> /\ Buf(c, "down") = <<>> /\ s2p[c] = <<>>
  BY <1>1, <1>2, <1>4
<1> QED  BY <1>3, <1>5, <1>6

LEMMA ViewsElsewhere ==
    ASSUME NEW c \in Conns, Elsewhere(c)
    PROVE  /\ Up' = [Up EXCEPT ![c] = UpAt(c)']
           /\ Down' = [Down EXCEPT ![c] = DownAt(c)']
           /\ Srv' = [Srv EXCEPT ![c] = SrvAt(c)']
<1>1. ASSUME NEW d \in Conns \ {c}
      PROVE  UpAt(d)' = UpAt(d) /\ DownAt(d)' = DownAt(d)
  BY DEF Elsewhere, UpAt, DownAt, Buf
<1>2. ASSUME NEW d \in Conns \ {c}
      PROVE  SrvAt(d)' = SrvAt(d)
  BY DEF Elsewhere, SrvAt, Refused, Dropped
<1>3. /\ Up' = [d \in Conns |-> UpAt(d)'] /\ Down' = [d \in Conns |-> DownAt(d)']
      /\ Srv' = [d \in Conns |-> SrvAt(d)']
  BY DEF Up, Down, Srv, UpAt, DownAt, SrvAt, Stream
<1> QED  BY <1>1, <1>2, <1>3, Views

\* A step that moves no unit, and by which some clients may turn out to have
\* no server.
LEMMA RefuseStep ==
    ASSUME UNCHANGED <<cli, srv>>, Up' = Up, Down' = Down,
           \A c \in Conns : Refused(c) => Refused(c)'
    PROVE  D!Refuse
<1> DEFINE S == {c \in Conns : Refused(c)' /\ ~Refused(c)}
<1>1. ASSUME NEW c \in Conns
      PROVE  /\ Srv[c] = SrvAt(c) /\ Srv'[c] = SrvAt(c)'
             /\ c \in S => cli[c].st # "none" /\ srv[c].st = "none" /\ ~Refused(c)
  BY DEF Srv, SrvAt, Refused, Dropped
<1>2. ASSUME NEW c \in Conns
      PROVE  SrvAt(c)' = IF c \in S THEN [Srv[c] EXCEPT !.st = "refused"] ELSE Srv[c]
  <2>1. CASE c \in S
    <3>1. Srv[c] = srv[c] /\ SrvAt(c)' = [srv[c] EXCEPT !.st = "refused"]
      BY <1>1, <2>1 DEF SrvAt
    <3> QED  BY <2>1, <3>1
  <2>2. CASE c \notin S
    <3>1. SrvAt(c)' = SrvAt(c)
      BY <2>2 DEF SrvAt
    <3> QED  BY <1>1, <2>2, <3>1
  <2> QED  BY <2>1, <2>2
<1>3. S \in SUBSET {c \in Conns : cli[c].st # "none" /\ Srv[c].st = "none"}
  BY <1>1 DEF SrvAt
<1>4. Srv' = [c \in Conns |-> SrvAt(c)']
  BY DEF Srv, SrvAt
<1>5. Srv' = [c \in Conns |-> IF c \in S THEN [Srv[c] EXCEPT !.st = "refused"]
                              ELSE Srv[c]]
  BY <1>2, <1>4
<1> HIDE DEF S
<1> QED  BY <1>3, <1>5 DEF D!Refuse

LEMMA ParentRefuses ==
    ASSUME Inv, main \/ main_sigchld_handler
    PROVE  D!Refuse
<1> USE DEF Inv
<1>1. UNCHANGED <<buf, sockets, cli, srv>>
  BY DEF main, setup_listeners, main_select, main_accept, main_fork, main_close,
         main_sigchld_handler, childVars
<1>2. ASSUME NEW c \in Conns
      PROVE  Refused(c) => Refused(c)'
  <2>1. CASE setup_listeners \/ main_select \/ main_sigchld_handler
    BY <2>1 DEF setup_listeners, main_select, main_sigchld_handler, Refused, Dropped,
                childVars, parentVars
  <2>2. CASE main_accept
    <3>1. parent = "accept" /\ UNCHANGED <<child, cli, srv>>
      BY <2>2 DEF main_accept, childVars
    <3>2. Refused(c) => child[c] = "exited" /\ held[c] = {} /\ srv[c].st = "none"
                        /\ cli[c].st # "none"
      BY <3>1 DEF Refused, Dropped
    <3>3. child[c] = "exited" => held'[c] = held[c]
      <4>1. PICK l \in ready :
                \/ held' = [held EXCEPT ![Head(backlog[l])] = {"parent"}]
                \/ UNCHANGED held
        BY <2>2 DEF main_accept
      <4>2. Queued(l, 1, Head(backlog[l])) /\ Head(backlog[l]) \in Conns /\ l \in Addrs
        <5>1. l \in Addrs /\ backlog[l] # <<>> /\ backlog[l] \in Seq(Conns)
          BY DEF Waits, TypeOK
        <5> QED  BY <5>1 DEF Queued
      <4>3. child[Head(backlog[l])] = "none"
        BY <4>2 DEF Waits, Idle
      <4> QED  BY <4>1, <4>2, <4>3 DEF TypeOK
    <3> QED  BY <3>1, <3>2, <3>3 DEF Refused, Dropped
  <2>3. CASE main_fork \/ main_close
    <3>1. acc \in Conns /\ "parent" \in held[acc] /\ parent # "exited"
      BY <2>3 DEF main_fork, main_close, Accepted
    <3>2. \A d \in Conns \ {acc} : held'[d] = held[d] /\ child'[d] = child[d]
      BY <2>3, <3>1 DEF main_fork, main_close, TypeOK, childVars
    <3>3. Refused(c) => c # acc /\ child[c] = "exited"
      BY <3>1 DEF Refused, Dropped
    <3> QED  BY <1>1, <3>2, <3>3 DEF Refused, Dropped
  <2> QED  BY <2>1, <2>2, <2>3 DEF main
<1>3. ASSUME NEW c \in Conns
      PROVE  Buf(c, "up")' = Buf(c, "up") /\ Buf(c, "down")' = Buf(c, "down")
  <2>1. CASE main_fork
    <3>1. acc \in Conns /\ child[acc] = "none"
      BY <2>1 DEF main_fork, Accepted
    <3>2. UNCHANGED child \/ child' = [child EXCEPT ![acc] = "start"]
      BY <2>1 DEF main_fork
    <3> QED  BY <1>1, <3>1, <3>2 DEF Buf, TypeOK
  <2>2. CASE ~main_fork
    <3>1. UNCHANGED child
      BY <2>2 DEF main, setup_listeners, main_select, main_accept, main_close,
                  main_sigchld_handler, childVars
    <3> QED  BY <1>1, <3>1 DEF Buf
  <2> QED  BY <2>1, <2>2
<1>4. Up' = Up /\ Down' = Down
  BY <1>1, <1>3 DEF Up, Down, sockets
<1> QED  BY <1>1, <1>2, <1>4, RefuseStep

LEMMA ChildRefusesOrLoses ==
    ASSUME Inv, NEW c \in Conns, readwrite(c)
    PROVE  D!Refuse \/ D!Open(c) \/ D!Lose(c)
<1> USE DEF Inv
<1>1. Inv' /\ Child(c)
  BY StartInv, PollInv, InetInv, UpInv, Sj3Inv, DownInv DEF readwrite
<1>2. /\ Up' = [Up EXCEPT ![c] = UpAt(c)'] /\ Down' = [Down EXCEPT ![c] = DownAt(c)']
      /\ Srv' = [Srv EXCEPT ![c] = SrvAt(c)']
  BY <1>1, ViewsElsewhere DEF Child
<1>3. Up[c] = UpAt(c) /\ Down[c] = DownAt(c) /\ Srv[c] = SrvAt(c)
  BY Views
<1>4. /\ c2p[c] \in Seq(Nat) /\ p2s[c] \in Seq(Nat) /\ p2c[c] \in Seq(Nat)
      /\ s2p[c] \in Seq(Nat) /\ buf[c] \in Seq(Nat) /\ <<>> \in Seq(Nat)
  BY DEF TypeOK
\* A step that moves no unit that Duplex sees, and leaves the server's end.
<1>5. ASSUME UpAt(c)' = UpAt(c), DownAt(c)' = DownAt(c), UNCHANGED srv
      PROVE  D!Refuse
  <2>1. Up' = Up /\ Down' = Down
    BY <1>2, <1>3, <1>5, Views
  <2>2. ~Refused(c)
    BY <1>1 DEF Child, Running, Refused, Dropped, Conn
  <2>3. \A d \in Conns : Refused(d) => Refused(d)'
    BY <1>1, <2>2 DEF Child, Elsewhere, Refused, Dropped
  <2>4. UNCHANGED cli
    BY <1>1 DEF Child
  <2> QED  BY <1>5, <2>1, <2>3, <2>4, RefuseStep
\* The child exits: what it and its sockets held is lost.
<1>6. ASSUME Exit(c), UNCHANGED srv, srv[c].st # "none",
             p2c'[c] = p2c[c] \/ p2c'[c] = <<>>, c2p'[c] = <<>>,
             UpAt(c)' = UpAt(c) \/ D!UpMayGo(c), DownAt(c)' = DownAt(c) \/ D!DownMayGo(c)
      PROVE  D!Lose(c)
  <2>1. UpAt(c)' = p2s[c] /\ DownAt(c)' = p2c'[c]
    <3>1. child'[c] = "exited" /\ p2s'[c] = p2s[c] /\ s2p'[c] = <<>>
      BY <1>6 DEF Exit, TypeOK
    <3>2. UpAt(c)' = Stream(p2s[c], <<>>, <<>>) /\ DownAt(c)' = Stream(p2c'[c], <<>>, <<>>)
      BY <1>6, <3>1 DEF UpAt, DownAt, Buf
    <3> QED  BY <1>4, <1>6, <3>2 DEF Stream
  <2>2. Buf(c, "up") \in Seq(Nat) /\ Buf(c, "down") \in Seq(Nat)
    BY <1>4 DEF Buf
  <2>3. UpAt(c)' \in D!Prefixes(Up[c])
    BY <1>3, <1>4, <2>1, <2>2, FirstPart DEF UpAt
  <2>4. DownAt(c)' \in D!Prefixes(Down[c])
    BY <1>3, <1>4, <1>6, <2>1, <2>2, FirstPart DEF DownAt
  <2>5. UNCHANGED <<cli, Srv>>
    <3>1. SrvAt(c)' = SrvAt(c)
      BY <1>6 DEF SrvAt, Refused
    <3> QED  BY <1>1, <1>2, <1>3, <3>1, Views DEF Child
  <2>6. /\ UpAt(c)' = Up[c] \/ D!UpMayGo(c)
        /\ DownAt(c)' = Down[c] \/ D!DownMayGo(c)
    BY <1>3, <1>6
  <2> QED  BY <1>2, <1>6, <2>3, <2>4, <2>5, <2>6 DEF D!Lose
<1>7. CASE child_connect(c) /\ srv' = [srv EXCEPT ![c].st = "open"]
  <2>1. /\ child[c] = "start" /\ srv[c].st = "none" /\ cli[c].st # "none"
        /\ Goto(c, "poll") /\ UNCHANGED <<sockets, buf>>
    BY <1>7 DEF child_connect, Conn, Exit, TypeOK, End
  <2>2. UpAt(c)' = UpAt(c) /\ DownAt(c)' = DownAt(c)
    BY <2>1 DEF UpAt, DownAt, Buf, Goto, TypeOK, sockets
  <2>3. ~Refused(c) /\ srv'[c] = [srv[c] EXCEPT !.st = "open"] /\ srv'[c].st = "open"
    BY <1>7, <2>1 DEF Refused, Dropped, Conn, Running, TypeOK, End
  <2>4. SrvAt(c) = srv[c] /\ SrvAt(c)' = [srv[c] EXCEPT !.st = "open"]
    BY <2>3 DEF SrvAt, Refused
  <2>5. UNCHANGED <<Up, Down, cli>>
    BY <1>1, <1>2, <1>3, <2>2, Views DEF Child
  <2> QED  BY <1>2, <1>3, <2>1, <2>4, <2>5 DEF D!Open
<1>8. CASE child_connect(c) /\ Exit(c) /\ UNCHANGED <<p2c, fin, srv>>
  <2>1. child[c] = "start" /\ s2p[c] = <<>>
    BY <1>8 DEF child_connect, Conn
  <2>2. UpAt(c)' = UpAt(c) /\ DownAt(c)' = DownAt(c)
    BY <1>8, <2>1 DEF UpAt, DownAt, Buf, Exit, TypeOK
  <2> QED  BY <1>5, <1>8, <2>2
<1>9. CASE child_poll(c)
  <2>1. UpAt(c)' = UpAt(c) /\ DownAt(c)' = DownAt(c)
    BY <1>9 DEF UpAt, DownAt, Buf, Goto, TypeOK, child_poll, sockets
  <2> QED  BY <1>5, <1>9, <2>1 DEF child_poll, Still
<1>10. CASE /\ child_inet(c) /\ UNCHANGED <<p2c, p2s, s2p>> /\ Still /\ Goto(c, "up")
            /\ buf' = [buf EXCEPT ![c] = Some(c2p[c])]
            /\ c2p' = [c2p EXCEPT ![c] = Behind(@)]
  <2>1. /\ child[c] = "inet" /\ child'[c] = "up"
        /\ buf'[c] = Some(c2p[c]) /\ c2p'[c] = Behind(c2p[c])
    BY <1>10 DEF child_inet, Goto, TypeOK
  <2>2. /\ UpAt(c) = Stream(p2s[c], <<>>, c2p[c])
        /\ UpAt(c)' = Stream(p2s[c], Some(c2p[c]), Behind(c2p[c]))
    BY <1>10, <2>1 DEF UpAt, Buf
  <2>3. UpAt(c)' = UpAt(c)
    BY <1>4, <2>2, TakeSome
  <2>4. DownAt(c)' = DownAt(c)
    BY <1>10, <2>1 DEF DownAt, Buf
  <2> QED  BY <1>5, <1>10, <2>3, <2>4 DEF Still
<1>11. CASE /\ child_inet(c) /\ cli[c].st = "closed"
            /\ c2p[c] = <<>> \/ p2c[c] # <<>>
            /\ Exit(c) /\ UNCHANGED <<p2c, fin, srv>>
  <2>1. child[c] = "inet" /\ srv[c].st # "none" /\ c2p'[c] = <<>>
    BY <1>11 DEF child_inet, Exit, Conn, TypeOK
  <2>2. D!DownMayGo(c)
    BY <1>11 DEF D!DownMayGo, D!Ended
  <2>3. CASE p2c[c] # <<>>
    <3>1. Down[c] # <<>>
      BY <2>3, ViewsEmpty
    <3>2. D!UpMayGo(c)
      BY <1>11, <3>1 DEF D!UpMayGo, D!Ended
    <3> QED  BY <1>6, <1>11, <2>1, <2>2, <3>2
  <2>4. CASE c2p[c] = <<>>
    <3>1. UpAt(c)' = UpAt(c)
      BY <1>11, <2>1, <2>4 DEF UpAt, Buf, Exit, TypeOK
    <3> QED  BY <1>6, <1>11, <2>1, <2>2, <3>1
  <2> QED  BY <1>11, <2>3, <2>4
<1>12. CASE /\ child_up(c) /\ Still /\ UNCHANGED <<c2p, p2c, s2p>>
            /\ p2s' = [p2s EXCEPT ![c] = Append(@, Head(buf[c]))]
            /\ buf' = [buf EXCEPT ![c] = Rest(@)]
            /\ IF buf'[c] # <<>> THEN UNCHANGED child
               ELSE Goto(c, IF "sj3" \in revents[c] THEN "sj3" ELSE "poll")
  <2>1. /\ child[c] = "up" /\ buf[c] # <<>>
        /\ p2s'[c] = Append(p2s[c], Head(buf[c])) /\ buf'[c] = Tail(buf[c])
    BY <1>12 DEF child_up, Conn, Rest, TypeOK
  <2>2. child'[c] # "down" /\ Buf(c, "up")' = Tail(buf[c])
    <3>1. /\ child'[c] # "down"
          /\ child'[c] = IF buf'[c] # <<>> THEN "up" ELSE child'[c]
      BY <1>12, <2>1 DEF Goto, TypeOK
    <3> QED  BY <2>1, <3>1 DEF Buf
  <2>3. UpAt(c)' = UpAt(c)
    <3>1. UpAt(c)' = Stream(Append(p2s[c], Head(buf[c])), Tail(buf[c]), c2p[c])
      BY <1>12, <2>1, <2>2 DEF UpAt
    <3>2. UpAt(c) = Stream(p2s[c], buf[c], c2p[c])
      BY <2>1 DEF UpAt, Buf
    <3> QED  BY <1>4, <2>1, <3>1, <3>2, MoveUnit
  <2>4. DownAt(c)' = DownAt(c)
    BY <1>12, <2>1, <2>2 DEF DownAt, Buf
  <2> QED  BY <1>5, <1>12, <2>3, <2>4 DEF Still
<1>13. CASE child_up(c) /\ srv[c].st = "closed" /\ Exit(c) /\ Reset(c) /\ UNCHANGED <<fin, srv>>
  <2>1. child[c] = "up" /\ buf[c] # <<>> /\ c2p'[c] = <<>>
    BY <1>13 DEF child_up, Exit, Conn, TypeOK
  <2>2. D!Ended(Srv[c])
    BY <1>3, <1>13 DEF SrvAt, Refused, D!Ended
  <2>3. Up[c] # <<>>
    BY <2>1, ViewsEmpty DEF Buf
  <2>4. D!UpMayGo(c) /\ D!DownMayGo(c)
    BY <2>2, <2>3 DEF D!UpMayGo, D!DownMayGo
  <2>5. p2c'[c] = p2c[c] \/ p2c'[c] = <<>>
    BY <1>13 DEF Reset, TypeOK
  <2> QED  BY <1>6, <1>13, <2>1, <2>4, <2>5
<1>14. CASE /\ child_sj3(c) /\ UNCHANGED <<c2p, p2c, p2s>> /\ Still /\ Goto(c, "down")
            /\ buf' = [buf EXCEPT ![c] = Some(s2p[c])]
            /\ s2p' = [s2p EXCEPT ![c] = Behind(@)]
  <2>1. /\ child[c] = "sj3" /\ child'[c] = "down"
        /\ buf'[c] = Some(s2p[c]) /\ s2p'[c] = Behind(s2p[c])
    BY <1>14 DEF child_sj3, Goto, TypeOK
  <2>2. /\ DownAt(c) = Stream(p2c[c], <<>>, s2p[c])
        /\ DownAt(c)' = Stream(p2c[c], Some(s2p[c]), Behind(s2p[c]))
    BY <1>14, <2>1 DEF DownAt, Buf
  <2>3. DownAt(c)' = DownAt(c)
    BY <1>4, <2>2, TakeSome
  <2>4. UpAt(c)' = UpAt(c)
    BY <1>14, <2>1 DEF UpAt, Buf
  <2> QED  BY <1>5, <1>14, <2>3, <2>4 DEF Still
<1>15. CASE child_sj3(c) /\ s2p[c] = <<>> /\ Exit(c) /\ Reset(c) /\ UNCHANGED srv
  <2>1. /\ child[c] = "sj3" /\ c2p'[c] = <<>> /\ srv[c].st = "closed"
        /\ s2p'[c] = <<>> /\ child'[c] = "exited"
    BY <1>15 DEF child_sj3, Exit, Conn, TypeOK
  <2>2. D!Ended(Srv[c]) /\ D!UpMayGo(c)
    BY <1>3, <2>1 DEF SrvAt, Refused, D!Ended, D!UpMayGo
  <2>3. CASE p2c'[c] = p2c[c]
    <3>1. DownAt(c)' = DownAt(c)
      BY <1>15, <2>1, <2>3 DEF DownAt, Buf
    <3> QED  BY <1>6, <1>15, <2>1, <2>2, <2>3, <3>1
  <2>4. CASE p2c'[c] = <<>> /\ c2p[c] # <<>>
    <3>1. Up[c] # <<>>
      BY <2>4, ViewsEmpty
    <3>2. D!DownMayGo(c)
      BY <2>2, <3>1 DEF D!DownMayGo
    <3> QED  BY <1>6, <1>15, <2>1, <2>2, <2>4, <3>2
  <2> QED  BY <1>15, <2>3, <2>4 DEF Reset, TypeOK
<1>16. CASE /\ child_down(c) /\ Still /\ UNCHANGED <<c2p, p2s, s2p>>
            /\ p2c' = [p2c EXCEPT ![c] = Append(@, Head(buf[c]))]
            /\ buf' = [buf EXCEPT ![c] = Rest(@)]
            /\ IF buf'[c] # <<>> THEN UNCHANGED child ELSE Goto(c, "poll")
  <2>1. /\ child[c] = "down" /\ buf[c] # <<>>
        /\ p2c'[c] = Append(p2c[c], Head(buf[c])) /\ buf'[c] = Tail(buf[c])
    BY <1>16 DEF child_down, Conn, Rest, TypeOK
  <2>2. child'[c] # "up" /\ Buf(c, "down")' = Tail(buf[c])
    <3>1. /\ child'[c] # "up"
          /\ child'[c] = IF buf'[c] # <<>> THEN "down" ELSE child'[c]
      BY <1>16, <2>1 DEF Goto, TypeOK
    <3> QED  BY <2>1, <3>1 DEF Buf
  <2>3. DownAt(c)' = DownAt(c)
    <3>1. DownAt(c)' = Stream(Append(p2c[c], Head(buf[c])), Tail(buf[c]), s2p[c])
      BY <1>16, <2>1, <2>2 DEF DownAt
    <3>2. DownAt(c) = Stream(p2c[c], buf[c], s2p[c])
      BY <2>1 DEF DownAt, Buf
    <3> QED  BY <1>4, <2>1, <3>1, <3>2, MoveUnit
  <2>4. UpAt(c)' = UpAt(c)
    BY <1>16, <2>1, <2>2 DEF UpAt, Buf
  <2> QED  BY <1>5, <1>16, <2>3, <2>4 DEF Still
<1>17. CASE child_down(c) /\ cli[c].st = "closed" /\ Exit(c) /\ UNCHANGED <<p2c, fin, srv>>
  <2>1. child[c] = "down" /\ buf[c] # <<>> /\ srv[c].st # "none" /\ c2p'[c] = <<>>
    BY <1>17 DEF child_down, Exit, Conn, TypeOK
  <2>2. Down[c] # <<>>
    BY <2>1, ViewsEmpty DEF Buf
  <2>3. D!UpMayGo(c) /\ D!DownMayGo(c)
    BY <1>17, <2>2 DEF D!UpMayGo, D!DownMayGo, D!Ended
  <2> QED  BY <1>6, <1>17, <2>1, <2>3
<1> QED  BY <1>7, <1>8, <1>9, <1>10, <1>11, <1>12, <1>13, <1>14, <1>15, <1>16, <1>17
         DEF readwrite, child_connect, child_inet, child_up, child_sj3, child_down

LEMMA ConnectOpens ==
    ASSUME Inv, NEW c \in Conns, NEW l \in Addrs, client_connect(c, l)
    PROVE  D!Open(c)
<1> USE DEF Inv
<1>1. /\ cli[c].st = "none" /\ child[c] = "none" /\ parent # "exited"
      /\ cli' = [cli EXCEPT ![c].st = "open"]
      /\ UNCHANGED <<parent, held, childVars, sockets, srv>>
  BY DEF client_connect, Quiet, Conn
<1>2. Elsewhere(c)
  BY <1>1 DEF Elsewhere, TypeOK, childVars, sockets
<1>3. UpAt(c)' = UpAt(c) /\ DownAt(c)' = DownAt(c)
  BY <1>1 DEF UpAt, DownAt, Buf, childVars, sockets
<1>4. SrvAt(c)' = SrvAt(c)
  BY <1>1 DEF SrvAt, Refused, Dropped, childVars
<1>5. UNCHANGED <<Up, Down, Srv>>
  BY <1>2, <1>3, <1>4, ViewsElsewhere, Views
<1> QED  BY <1>1, <1>5 DEF D!Open

\* An end sends, receives, is told or closes, and its stream with it.
LEMMA ClientMoves ==
    ASSUME Inv, NEW c \in Conns, client(c) \/ client_close(c)
    PROVE  D!Send(c) \/ D!Receive(c) \/ D!Eof(c) \/ D!Close(c)
<1> USE DEF Inv
<1>1. Ends(c)
  BY ClientInv
<1>2. /\ Up' = [Up EXCEPT ![c] = UpAt(c)'] /\ Down' = [Down EXCEPT ![c] = DownAt(c)']
      /\ Srv' = [Srv EXCEPT ![c] = SrvAt(c)']
  BY <1>1, ViewsElsewhere DEF Ends
<1>3. Up[c] = UpAt(c) /\ Down[c] = DownAt(c) /\ Srv[c] = SrvAt(c)
  BY Views
<1>4. /\ c2p[c] \in Seq(Nat) /\ p2s[c] \in Seq(Nat) /\ p2c[c] \in Seq(Nat)
      /\ s2p[c] \in Seq(Nat) /\ Buf(c, "up") \in Seq(Nat) /\ Buf(c, "down") \in Seq(Nat)
  BY DEF TypeOK, Buf
<1>5. cli[c].st = "open" /\ UNCHANGED <<srv, p2s, s2p>>
  BY DEF client, client_send, client_receive, client_eof, client_close, Quiet, sockets
<1>6. /\ Buf(c, "up")' = Buf(c, "up") /\ Buf(c, "down")' = Buf(c, "down")
      /\ UNCHANGED Srv
  <2>1. SrvAt(c)' = SrvAt(c)
    BY <1>1, <1>5 DEF Ends, SrvAt, Refused, Dropped, childVars
  <2> QED  BY <1>1, <1>2, <1>3, <2>1, Views DEF Ends, Buf, childVars
<1>7. UNCHANGED c2p => UNCHANGED Up
  <2> SUFFICES ASSUME UNCHANGED c2p PROVE UNCHANGED Up
    OBVIOUS
  <2>1. UpAt(c)' = UpAt(c)
    BY <1>5, <1>6 DEF UpAt
  <2> QED  BY <1>2, <1>3, <2>1, Views
<1>8. UNCHANGED p2c => UNCHANGED Down
  <2> SUFFICES ASSUME UNCHANGED p2c PROVE UNCHANGED Down
    OBVIOUS
  <2>1. DownAt(c)' = DownAt(c)
    BY <1>5, <1>6 DEF DownAt
  <2> QED  BY <1>2, <1>3, <2>1, Views
<1>9. CASE client_send(c)
  <2>1. /\ cli' = [cli EXCEPT ![c].sent = @ + 1] /\ UNCHANGED p2c
        /\ c2p'[c] = Append(c2p[c], cli'[c].sent)
    BY <1>9 DEF client_send, TypeOK
  <2>2. cli'[c].sent \in Nat
    BY <1>1, <2>1 DEF Ends, TypeOK, End
  <2>3. UpAt(c)' = Stream(p2s[c], Buf(c, "up"), Append(c2p[c], cli'[c].sent))
    BY <1>5, <1>6, <2>1 DEF UpAt
  <2>4. UpAt(c)' = Append(UpAt(c), cli'[c].sent)
    <3>1. PICK p \in Seq(Nat), b \in Seq(Nat), r \in Seq(Nat), x \in Nat :
              p = p2s[c] /\ b = Buf(c, "up") /\ r = c2p[c] /\ x = cli'[c].sent
      BY <1>4, <2>2
    <3>2. Stream(p, b, Append(r, x)) = Append(Stream(p, b, r), x)
      BY StreamAppend, Zenon
    <3> QED  BY <2>3, <3>1, <3>2, Zenon DEF UpAt
  <2> QED  BY <1>2, <1>3, <1>5, <1>6, <1>8, <2>1, <2>4 DEF D!Send
<1>10. CASE client_receive(c)
  <2>1. /\ cli' = [cli EXCEPT ![c].got = Head(p2c[c])] /\ UNCHANGED c2p
        /\ p2c'[c] = Tail(p2c[c]) /\ p2c[c] # <<>>
    BY <1>10 DEF client_receive, TypeOK
  <2>2. DownAt(c)' = Stream(Tail(p2c[c]), Buf(c, "down"), s2p[c])
    BY <1>5, <1>6, <2>1 DEF DownAt
  <2>3. /\ DownAt(c)' = Tail(DownAt(c)) /\ Head(DownAt(c)) = Head(p2c[c])
        /\ Down[c] # <<>>
    <3>1. Down[c] # <<>>
      BY <2>1, ViewsEmpty
    <3>2. p2c[c] # <<>>
      BY <2>1
    <3>3. /\ Head(Stream(p2c[c], Buf(c, "down"), s2p[c])) = Head(p2c[c])
          /\ Tail(Stream(p2c[c], Buf(c, "down"), s2p[c]))
                = Stream(Tail(p2c[c]), Buf(c, "down"), s2p[c])
      BY <1>4, <3>2, StreamHead
    <3> QED  BY <2>2, <3>1, <3>3, Zenon DEF DownAt
  <2> QED  BY <1>2, <1>3, <1>5, <1>6, <1>7, <2>1, <2>3 DEF D!Receive
<1>11. CASE client_eof(c)
  <2>1. /\ cli' = [cli EXCEPT ![c].eof = TRUE] /\ UNCHANGED sockets
        /\ p2c[c] = <<>> /\ (fin[c] \/ Dropped(c))
    BY <1>11 DEF client_eof
  <2>2. child[c] \in {"none", "exited"} /\ s2p[c] = <<>>
    BY <1>5, <2>1 DEF Conn, Dropped, Running, TypeOK
  <2>3. Down[c] = <<>>
    BY <2>1, <2>2, ViewsEmpty DEF Buf
  <2>4. D!Ended(Srv[c])
    <3>1. Refused(c) \/ srv[c].st = "closed"
      BY <1>5, <2>1, <2>2 DEF Conn, Refused, Dropped
    <3>2. CASE Refused(c)
      BY <1>3, <3>2 DEF SrvAt, D!Ended, TypeOK, End
    <3>3. CASE srv[c].st = "closed"
      BY <1>3, <3>3 DEF SrvAt, Refused, D!Ended
    <3> QED  BY <3>1, <3>2, <3>3
  <2> QED  BY <1>5, <1>6, <1>7, <1>8, <2>1, <2>3, <2>4 DEF D!Eof, sockets
<1>12. CASE client_close(c)
  <2>1. cli' = [cli EXCEPT ![c].st = "closed"] /\ UNCHANGED sockets
    BY <1>12 DEF client_close
  <2> QED  BY <1>5, <1>6, <1>7, <1>8, <2>1 DEF D!Close, sockets
<1> QED  BY <1>9, <1>10, <1>11, <1>12 DEF client

LEMMA ServerMoves ==
    ASSUME Inv, NEW c \in Conns, server(c) \/ server_close(c)
    PROVE  D!Send(c) \/ D!Receive(c) \/ D!Eof(c) \/ D!Close(c)
<1> USE DEF Inv
<1>1. Ends(c)
  BY ServerInv
<1>2. /\ Up' = [Up EXCEPT ![c] = UpAt(c)'] /\ Down' = [Down EXCEPT ![c] = DownAt(c)']
      /\ Srv' = [Srv EXCEPT ![c] = SrvAt(c)']
  BY <1>1, ViewsElsewhere DEF Ends
<1>3. Up[c] = UpAt(c) /\ Down[c] = DownAt(c)
  BY Views
<1>4. /\ c2p[c] \in Seq(Nat) /\ p2s[c] \in Seq(Nat) /\ p2c[c] \in Seq(Nat)
      /\ s2p[c] \in Seq(Nat) /\ Buf(c, "up") \in Seq(Nat) /\ Buf(c, "down") \in Seq(Nat)
  BY DEF TypeOK, Buf
<1>5. srv[c].st = "open" /\ UNCHANGED <<cli, c2p, p2c>>
  BY DEF server, server_receive, server_send, server_eof, server_close, Quiet, sockets
<1>6. Buf(c, "up")' = Buf(c, "up") /\ Buf(c, "down")' = Buf(c, "down")
  BY <1>1 DEF Ends, Buf, childVars
<1>7. UNCHANGED p2s => UNCHANGED Up
  <2> SUFFICES ASSUME UNCHANGED p2s PROVE UNCHANGED Up
    OBVIOUS
  <2>1. UpAt(c)' = UpAt(c)
    BY <1>5, <1>6 DEF UpAt
  <2> QED  BY <1>2, <1>3, <2>1, Views
<1>8. UNCHANGED s2p => UNCHANGED Down
  <2> SUFFICES ASSUME UNCHANGED s2p PROVE UNCHANGED Down
    OBVIOUS
  <2>1. DownAt(c)' = DownAt(c)
    BY <1>5, <1>6 DEF DownAt
  <2> QED  BY <1>2, <1>3, <2>1, Views
\* The server is there before and after.
<1>9. Srv[c] = srv[c] /\ (srv'[c].st \in {"open", "closed"} => Srv' = [Srv EXCEPT ![c] = srv'[c]])
  <2>1. SrvAt(c) = srv[c] /\ (srv'[c].st \in {"open", "closed"} => SrvAt(c)' = srv'[c])
    BY <1>5 DEF SrvAt, Refused
  <2> QED  BY <1>2, <2>1, Views
<1>10. CASE server_send(c)
  <2>1. /\ srv'[c] = [srv[c] EXCEPT !.sent = @ + 1] /\ UNCHANGED p2s
        /\ s2p'[c] = Append(s2p[c], srv'[c].sent)
    BY <1>10 DEF server_send, TypeOK
  <2>2. srv'[c].sent = srv[c].sent + 1 /\ srv'[c].sent \in Nat /\ srv'[c].st = "open"
    BY <1>1, <1>5, <2>1 DEF Ends, TypeOK, End
  <2>3. DownAt(c)' = Stream(p2c[c], Buf(c, "down"), Append(s2p[c], srv'[c].sent))
    BY <1>5, <1>6, <2>1 DEF DownAt
  <2>4. DownAt(c)' = Append(DownAt(c), srv'[c].sent)
    <3>1. PICK p \in Seq(Nat), b \in Seq(Nat), r \in Seq(Nat), x \in Nat :
              p = p2c[c] /\ b = Buf(c, "down") /\ r = s2p[c] /\ x = srv'[c].sent
      BY <1>4, <2>2
    <3>2. Stream(p, b, Append(r, x)) = Append(Stream(p, b, r), x)
      BY StreamAppend, Zenon
    <3> QED  BY <2>3, <3>1, <3>2, Zenon DEF DownAt
  <2>5. Srv' = [Srv EXCEPT ![c].sent = @ + 1] /\ Srv'[c].sent = srv'[c].sent
    BY <1>9, <2>1, <2>2, Views
  <2> QED  BY <1>2, <1>3, <1>5, <1>7, <1>9, <2>1, <2>4, <2>5 DEF D!Send
<1>11. CASE server_receive(c)
  <2>1. /\ srv'[c] = [srv[c] EXCEPT !.got = Head(p2s[c])] /\ UNCHANGED s2p
        /\ p2s'[c] = Tail(p2s[c]) /\ p2s[c] # <<>>
    BY <1>11 DEF server_receive, TypeOK
  <2>2. UpAt(c)' = Stream(Tail(p2s[c]), Buf(c, "up"), c2p[c])
    BY <1>5, <1>6, <2>1 DEF UpAt
  <2>3. /\ UpAt(c)' = Tail(UpAt(c)) /\ Head(UpAt(c)) = Head(p2s[c])
        /\ Up[c] # <<>>
    <3>1. Up[c] # <<>>
      BY <2>1, ViewsEmpty
    <3>2. p2s[c] # <<>>
      BY <2>1
    <3>3. /\ Head(Stream(p2s[c], Buf(c, "up"), c2p[c])) = Head(p2s[c])
          /\ Tail(Stream(p2s[c], Buf(c, "up"), c2p[c])) = Stream(Tail(p2s[c]), Buf(c, "up"), c2p[c])
      BY <1>4, <3>2, StreamHead
    <3> QED  BY <2>2, <3>1, <3>3, Zenon DEF UpAt
  <2>4. Srv' = [Srv EXCEPT ![c].got = Head(Up[c])]
    <3>1. srv'[c].st = "open"
      BY <1>5, <2>1 DEF TypeOK, End
    <3> QED  BY <1>3, <1>9, <2>1, <2>3, <3>1
  <2> QED  BY <1>2, <1>3, <1>5, <1>8, <1>9, <2>1, <2>3, <2>4 DEF D!Receive
<1>12. CASE server_eof(c)
  <2>1. /\ srv'[c] = Told(srv[c]) /\ UNCHANGED sockets
        /\ p2s[c] = <<>> /\ child[c] = "exited"
    BY <1>12 DEF server_eof, TypeOK, Told
  <2>2. c2p[c] = <<>> /\ cli[c].st = "closed"
    BY <1>5, <2>1 DEF Conn
  <2>3. Up[c] = <<>> /\ D!Ended(cli[c])
    BY <2>1, <2>2, ViewsEmpty DEF Buf, D!Ended
  <2>4. Srv' = [Srv EXCEPT ![c].eof = TRUE]
    <3>1. srv'[c].st = "open"
      BY <1>5, <2>1, EndTypes DEF TypeOK
    <3> QED  BY <1>9, <2>1, <3>1 DEF Told
  <2> QED  BY <1>5, <1>7, <1>8, <1>9, <2>1, <2>3, <2>4 DEF D!Eof, sockets
<1>13. CASE server_close(c)
  <2>1. srv'[c] = Left(srv[c]) /\ UNCHANGED sockets
    BY <1>13 DEF server_close, TypeOK, Left
  <2>2. Srv' = [Srv EXCEPT ![c].st = "closed"]
    <3>1. srv'[c].st = "closed"
      BY <2>1, EndTypes DEF TypeOK
    <3> QED  BY <1>9, <2>1, <3>1 DEF Left
  <2> QED  BY <1>5, <1>7, <1>8, <1>9, <2>1, <2>2 DEF D!Close, sockets
<1> QED  BY <1>10, <1>11, <1>12, <1>13 DEF server

LEMMA StutterStreams == UNCHANGED vars => UNCHANGED <<Up, Down, cli, Srv>>
BY DEF vars, parentVars, childVars, sockets, Up, Down, Srv, Buf, Refused, Dropped

LEMMA InitStreams == Init => D!Init
<1> SUFFICES ASSUME Init PROVE D!Init
  OBVIOUS
<1>1. \A c \in Conns : ~Refused(c)
  BY DEF Init, Refused, Dropped, End0
<1>2. Srv = cli
  BY <1>1 DEF Init, Srv
<1>3. /\ Up = [c \in Conns |-> <<>>] /\ Down = [c \in Conns |-> <<>>]
  BY DEF Init, Up, Down, Buf
<1> QED  BY <1>2, <1>3 DEF Init, D!Init, End0

\* The proxy is a pair of streams for each of its connections: nothing is lost,
\* doubled or reordered on the way between two open ends, and an end is told of
\* the other's end when it has got all that is not dropped (readwrite, atomicio).
THEOREM ProxyImplementsDuplex == Spec => Streams
<1>1. Inv /\ [Next]_vars => [D!Next]_<<Up, Down, cli, Srv>>
  <2> SUFFICES ASSUME Inv, [Next]_vars PROVE [D!Next]_<<Up, Down, cli, Srv>>
    OBVIOUS
  <2>1. CASE main \/ main_sigchld_handler
    BY <2>1, ParentRefuses DEF D!Next
  <2>2. ASSUME NEW c \in Conns, NEW l \in Addrs, client_connect(c, l)
        PROVE  D!Next
    BY <2>2, ConnectOpens DEF D!Next
  <2>3. ASSUME NEW c \in Conns, readwrite(c) PROVE D!Next
    BY <2>3, ChildRefusesOrLoses DEF D!Next
  <2>4. ASSUME NEW c \in Conns, client(c) \/ client_close(c) PROVE D!Next
    BY <2>4, ClientMoves DEF D!Next
  <2>5. ASSUME NEW c \in Conns, server(c) \/ server_close(c) PROVE D!Next
    BY <2>5, ServerMoves DEF D!Next
  <2>6. CASE UNCHANGED vars
    BY <2>6, StutterStreams
  <2> QED  BY <2>1, <2>2, <2>3, <2>4, <2>5, <2>6 DEF Next
<1> QED  BY <1>1, InitStreams, Invariance, PTL DEF Spec, Streams, D!Spec, D!dvars
=============================================================================
