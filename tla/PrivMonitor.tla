---------------------------- MODULE PrivMonitor ----------------------------
(***************************************************************************)
(* priv.c of sj3serv: the privileged monitor process that looks up user    *)
(* names, the server process it forks, the socket pair between them, and   *)
(* what becomes of the monitor when the server dies.                       *)
(*                                                                         *)
(* A user name is abstracted to its size with the terminating NUL, the     *)
(* only thing about it that both ends check; the numeric user and group    *)
(* IDs that answer it are the same number.  exec_connect asks for no empty *)
(* name.                                                                   *)
(***************************************************************************)
EXTENDS Naturals, Sequences

CONSTANTS
    BUFSIZ,       \* size of the monitor's name buffer
    Known         \* the sizes of the names in the password database

ASSUME BufsizAssumption == BUFSIZ \in Nat \ {0}
ASSUME KnownAssumption == Known \subseteq 2 .. BUFSIZ + 1

VARIABLES
    srv,          \* where priv_getugid is in the server process
    name,         \* its argument
    answer,       \* what it returned last: the uid, or 0 for a failure
    mon,          \* where the monitor's loop is
    username,     \* the monitor's username_len and username
    cur_state,    \* the monitor's cur_state
    chld,         \* SIGCHLD is on its way to the monitor
    toMon, toSrv  \* the two directions of the socket pair

vars == <<srv, name, answer, mon, username, cur_state, chld, toMon, toSrv>>

PRIV_GETUGID == 0
User == 2 .. BUFSIZ + 1

TypeOK ==
    /\ srv \in {"idle", "len", "name", "ret", "uid", "gid", "dead"}
    /\ name \in {0} \cup User
    /\ answer \in {0} \cup User
    /\ mon \in {"check", "cmd", "len", "name", "reply", "exited"}
    /\ username \in {0} \cup User
    /\ cur_state \in {"INIT", "QUIT"}
    /\ chld \in BOOLEAN
    /\ toMon \in Seq({PRIV_GETUGID} \cup User)
    /\ toSrv \in Seq({0, 1} \cup User)

Init ==
    /\ srv = "idle" /\ name = 0 /\ answer = 0
    /\ mon = "check" /\ username = 0 /\ cur_state = "INIT" /\ chld = FALSE
    /\ toMon = <<>> /\ toSrv = <<>>

----------------------------------------------------------------------------
(* The server process: priv_getugid *)

monitor == <<mon, username, cur_state, chld>>

TooLong(u) == BUFSIZ < u

\* A size the monitor would not accept is refused before anything is sent.
priv_getugid(u) ==
    /\ srv = "idle"
    /\ name' = u
    /\ IF TooLong(u)
       THEN answer' = 0 /\ UNCHANGED <<srv, toMon>>
       ELSE /\ srv' = "len"
            /\ toMon' = Append(toMon, PRIV_GETUGID)
            /\ UNCHANGED answer
    /\ UNCHANGED <<monitor, toSrv>>

SendLen ==
    /\ srv = "len" /\ srv' = "name"
    /\ toMon' = Append(toMon, name)
    /\ UNCHANGED <<name, answer, monitor, toSrv>>

SendName ==
    /\ srv = "name" /\ srv' = "ret"
    /\ toMon' = Append(toMon, name)
    /\ UNCHANGED <<name, answer, monitor, toSrv>>

\* must_read of the result.  A read blocks until there is something to read:
\* each process also holds the other end of the socket pair, so neither ever
\* sees an end of file.
ReadRet ==
    /\ srv = "ret" /\ toSrv # <<>>
    /\ toSrv' = Tail(toSrv)
    /\ IF Head(toSrv) = 0 THEN srv' = "idle" /\ answer' = 0
                          ELSE srv' = "uid" /\ UNCHANGED answer
    /\ UNCHANGED <<name, monitor, toMon>>

ReadUid ==
    /\ srv = "uid" /\ toSrv # <<>>
    /\ toSrv' = Tail(toSrv)
    /\ answer' = Head(toSrv)
    /\ srv' = "gid"
    /\ UNCHANGED <<name, monitor, toMon>>

ReadGid ==
    /\ srv = "gid" /\ toSrv # <<>>
    /\ toSrv' = Tail(toSrv)
    /\ srv' = "idle"
    /\ UNCHANGED <<name, answer, monitor, toMon>>

\* The server exits, is killed, or gets a signal the monitor passes on
\* (sig_pass_to_chld).
Die ==
    /\ srv # "dead"
    /\ srv' = "dead" /\ chld' = TRUE
    /\ UNCHANGED <<name, answer, mon, username, cur_state, toMon, toSrv>>

----------------------------------------------------------------------------
(* The monitor process: the loop of priv_init *)

server == <<srv, name, answer>>

CheckState ==
    /\ mon = "check"
    /\ mon' = IF cur_state = "QUIT" THEN "exited" ELSE "cmd"
    /\ UNCHANGED <<server, username, cur_state, chld, toMon, toSrv>>

\* may_read of the command, must_read of the length and of the name.  A read
\* that a signal interrupts is started again.
may_read ==
    /\ mon = "cmd" /\ toMon # <<>>
    /\ toMon' = Tail(toMon)
    /\ mon' = IF Head(toMon) = PRIV_GETUGID THEN "len" ELSE "exited"
    /\ UNCHANGED <<server, username, cur_state, chld, toSrv>>

\* Mutant: a name that just fits the buffer is refused.
ReadLen_strict ==
    /\ mon = "len" /\ toMon # <<>>
    /\ toMon' = Tail(toMon)
    /\ mon' = IF Head(toMon) >= BUFSIZ THEN "exited" ELSE "name"
    /\ UNCHANGED <<server, username, cur_state, chld, toSrv>>

ReadLen ==
    /\ mon = "len" /\ toMon # <<>>
    /\ toMon' = Tail(toMon)
    /\ mon' = IF Head(toMon) > BUFSIZ THEN "exited" ELSE "name"
    /\ UNCHANGED <<server, username, cur_state, chld, toSrv>>

ReadName ==
    /\ mon = "name" /\ toMon # <<>>
    /\ toMon' = Tail(toMon)
    /\ username' = Head(toMon)
    /\ mon' = "reply"
    /\ UNCHANGED <<server, cur_state, chld, toSrv>>

\* Mutant: the IDs are sent for an unknown user, too.
must_write_always ==
    /\ mon = "reply" /\ mon' = "check"
    /\ toSrv' = toSrv \o (IF username \in Known THEN <<1, username, username>>
                                                ELSE <<0, username, username>>)
    /\ UNCHANGED <<server, username, cur_state, chld, toMon>>

\* The result, with the two IDs when the user is known.  The server reads
\* them in this order and nobody can tell the writes apart.
must_write ==
    /\ mon = "reply" /\ mon' = "check"
    /\ toSrv' = toSrv \o (IF username \in Known THEN <<1, username, username>> ELSE <<0>>)
    /\ UNCHANGED <<server, username, cur_state, chld, toMon>>

\* The SIGCHLD handler runs at any point of the loop, a blocked read included.
sig_got_chld ==
    /\ chld /\ mon # "exited"
    /\ chld' = FALSE
    /\ cur_state' = "QUIT"
    /\ UNCHANGED <<server, mon, username, toMon, toSrv>>

----------------------------------------------------------------------------

ServerStep == SendLen \/ SendName \/ ReadRet \/ ReadUid \/ ReadGid
MonitorStep == CheckState \/ may_read \/ ReadLen \/ ReadName \/ must_write \/ sig_got_chld

\* Without a server nothing is left to happen.
Halted == srv = "dead" /\ UNCHANGED vars

Next ==
    \/ \E u \in User : priv_getugid(u)
    \/ ServerStep
    \/ MonitorStep
    \/ Die
    \/ Halted

Spec == Init /\ [][Next]_vars

\* The kernel keeps scheduling both processes and delivers the signal.
FairSpec == Spec /\ WF_vars(ServerStep) /\ WF_vars(MonitorStep) /\ WF_vars(sig_got_chld)

----------------------------------------------------------------------------
(* Properties *)

\* The two ends stay in step from one lookup to the next: between lookups
\* nothing is left over in either direction, the answer is the one for the
\* name that was asked, an unknown or overlong name failing, and no name has
\* made the monitor take the "internal protocol error" way out.
InStep ==
    /\ srv = "idle" =>
          /\ toMon = <<>> /\ toSrv = <<>>
          /\ answer # 0 => answer = name /\ name \in Known
          /\ answer = 0 => name \notin Known \/ TooLong(name)
    /\ mon = "exited" => srv = "dead"

\* A lookup ends, unless the server is killed during it.
LookupAnswered == srv \in {"len", "name", "ret", "uid", "gid"} ~> srv \in {"idle", "dead"}
=============================================================================
