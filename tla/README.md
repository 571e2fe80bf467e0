# A verification project for sj3

sj3 converts Japanese kana to kanji. Clients link `sj3lib` and talk over a
stream socket to `sj3serv`, which holds the dictionaries and the study (learning)
files and runs the conversion engine `sj3core`; `sj3rkcv` turns romaji into kana in
the client, `sj3proxy` carries connections from TCP to the server's socket, and
`sj3mkdic` compiles the system dictionary. This directory holds TLA+ models of
these parts, TLC configurations that check them on small instances, and proofs
checked by TLAPS.

Paths below are relative to `src/`; `PROJECT.json` maps every definition to the
lines it models, lists the hazards the properties are for, and gives for every
property a change of the model, as a plausible bug would make it, that breaks it.

## Inventory

| Component | State | Operations | What makes it hard | What makes it correct |
|---|---|---|---|---|
| Event loop (`sj3serv/comuni.c`, `main.c`) | client list, `client_num`, `fds_org`, `maxfds`, the `readfds` of the last select, the client being served | select, walk over clients, accept, refuse, disconnect, read a request, flush a reply, SIGTERM | clients die inside a request (longjmp into the walk), descriptors are reused, one slow client blocks all | list, counter and descriptor set agree; no read blocks the loop; requests are answered, dead clients released, connections taken |
| Sessions (`execute.c`) | dictionary list, lock and study file of each client; the pre-opened dictionaries | connect, disconnect, open and close of dictionaries and the study file, lock, unlock, edit, convert, kill | any order of requests, failures in the middle, re-open, lock before open | everything a session holds is released with it; a lock protects the dictionaries it covers |
| File pool (`sj3core/sdepend.c`) | open files with reference counts and lock lists | opendict, closedict, openstdy, closestdy, lock_dict, unlock_dict | files shared between sessions | a file is closed exactly when nobody points to it |
| Privileged monitor (`priv.c`) | two processes, a socket pair, `cur_state` | name lookup, signal handlers | signals against blocked reads, unframed messages | both ends stay in step; lookups end |
| User dictionary (`adddic.c`, `deldic.c`, `addelcmn.c`, `srchidx.c`) | segments of blocks with compressed readings, index | register (with splits), delete | segments and index at their limits, readings that depend on the block before | registered words are found, whatever is edited |
| Study table (`study.c`) | sorted entries with ranks | study, search, evict, move with edits | entries name words by segment and offset | entries keep naming their word; the search finds them; ranks stay bounded |
| Browsing (`peepdic.c`) | segment, block, group, spelling, reading so far | first, next, previous | readings rebuilt across blocks and segments, both ways | every word listed once, with its reading |
| Clause study (`clstudy.c`) | packed area, ages, index, the study file | learn, evict, forget, look up | area at its limit, a stop between two writes | what was learned is found; the oldest go first |
| Conversion engine (`ph2knj.c` and the `mk*`, `set*`, `srch*` files) | lists of stems and clauses | analyse a phrase, choose clauses | two-clause trial that shares its lists with the next round | the phrase is covered by clauses of the grammar |
| Candidates (`cl2knj.c`, `getrank.c`, `setkouho.c`, `mkkouho.c`) | candidates of a clause, ranks, cursor | first, next, previous, count, choose | blocks built again on the way, clients that cannot be shown a spelling | next and previous are inverse; the chosen come first |
| Memory pools (`memory.c`, `alloc.c`) | batches of records | allocate, free a list | several pointers to one list | a list is freed once and only when nobody uses it |
| Grammar tables (`connect.c`, `conjunc.c`, `fzkyomi.c`, `setubi.c`) | | scans with early exit | order of thousands of entries | a scan finds what the text starts with; arrays are large enough |
| Client library (`sj3lib/level1.c`, `sj.c`) | connection, error number, ids, list | one function per request, open and close sequences | a loss at any point of any exchange | error status and connection state agree |
| Romaji (`sj3rkcv/rk_conv.c`) | rule table, pending romaji, undo buffer, cached position | key, erase, whole string | the cache and the undo buffer over erases | the screen is what the converter believes |
| Code conversion (`sj_string.c`, `wc16_str.c`, `sj3_rkcv.c`) | | Shift-JIS, EUC, wide characters, half and full width | ends of buffers, characters one code lacks | nothing is lost silently |
| Proxy (`sj3proxy`) | sockets, one buffer per child, child processes | accept, fork, relay, reap | both directions through one blocking loop | two ordered streams; ends are told; children reaped |
| Dictionary compiler (`sj3mkdic`) | words of one reading, segment under construction, counts of strings | read a line, gather, estimate, compress, write | estimates before the compression is known | what was compiled is found by the engine's search |
| Tools (`sj3dic`, `sj3stat`, `sj3demo`), Lua, portability and message code | | | batch programs, vendored code | not modelled |

Requests are served one at a time: `sj3serv` is a single process and a handler
runs to its end before the next request is looked at. What interleaves is the
order of requests of different clients, their deaths, the kernel's view of the
sockets, the two processes of the monitor, and the processes of the proxy.
Components share state: sessions point into the file pool, study entries point
into dictionaries, and the engine works through global pointers that `cur_client`
and `execute_cmd` set to those of the client being served.

## Modules

An `MC` module names the constants of the instance TLC checks.

### `Sj3Server`: event loop, sessions, file pool

State: `client` (the list), `client_num`, `fds_org` and `maxfds`, the walk's snapshot
`readfds`, per descriptor the session with its dictionary list and lock, the
pool's reference counts and lock lists, and the peer's end of each connection (an
external part: what a client may do to its socket). Actions follow `communicate`:
`select`, then per client `SkipClient`, the read of its request, one `exec_*`
action with the whole effect of the handler, and the flush of the reply (or its
failure, which disconnects), then `EndWalk` and an accept or a refusal. A request
is atomic except where the process really waits or where a peer can intervene: the
read and the flush.

### `PrivMonitor`: `priv.c`

The server's `priv_getugid` and the monitor's loop as two processes with a channel
in each direction. A name is abstracted to its length, the only thing about it both
ends test.

### `UserDict`: registration, deletion, study, listing

Words are triples of reading, part of speech and spelling. A segment is a sequence
of blocks, each with the number of codes of its reading that it shares with the block
before, the rest, and its spellings, as in the file: `NewBlock` and `Regain` keep
these counts right on registration and deletion, `SplitSegs` restores a whole
reading, and `yomicmp`/`srchkana` search with them. Bytes are abstracted to units: one
for the head of a block, one for each code of its tail, one for a group, one for a
spelling, so that segments fill up, split and overflow at the code's conditions.
`adddic`'s search loop is one action per pass; `Store` is everything after the loop
(the move, the index, the study entries, the word's own study). An uninitialised
variable of `del_segment` is a choice over its possible values. The listing of
`peepdic.c` is a set of operators on a cursor; `Listing` walks it over whatever
dictionary the edits lead to. A deletion reply is taken to be about every spelling
that starts with the one asked for (see below). When stray bytes end up in the file
the model stops (`broken`).

### `ClStudy`: learned clause boundaries

The area of blocks, its table of first characters, and both as the study file has
them. `clstudy` with eviction (`delclold`), the lookup `dic_cl` makes through the
table, the pruning by registrations and forget requests, and the two writes of
`putcldic` as steps between which the server may stop and start again.

### `Bunsetu`, `Kouho`, `Henkan`: the conversion engine

`Bunsetu` is the analysis of the front of a text: stems from dictionary words,
prefixes, suffixes, numbers and learned clauses, with endings, functional words
and marks behind them. The tables and the words are constants. `Kouho` adds the
candidates of a clause, their ranks (`getrank`) and what choosing one teaches
(`setstyrec`, `study`). `Henkan` is the state machine of the requests: the phrase loop
of `ph2knj` step by step with the two-clause trial of `mk2claus`, the candidates of a
clause and the cursor over them, and the handlers' detour for clients that speak
Shift-JIS. Lists of records are batches that are allocated and freed as a whole, so a
double free or a use after free is a step the model can see. `priority()`, a
linguistic score, is any choice.

### `Grammar` over `Codes`, `Connect`, `ConnectYougen`, `Endings`, `FuzokuWords`

The engine's real tables, row for row: the connection rows, the endings of every
conjugation, the functional words and the suffixes. `Grammar` types a text behind a
stem character by character and holds the code's one-pass scans against what the
text really starts with; then it follows the classes the words lead to. `Bunsetu`
takes for granted what `Grammar` checks: that a scan finds every entry.

### `DictSearch`, `MkDic`: the compiled dictionary

`DictSearch` is the format of a segment with its compressed readings, spellings with
references and common strings, and the engine's search. `MkDic` is the compiler: it
reads lines, gathers homophones, counts the strings worth sharing, estimates, writes
segments and the index; then searches run on what it wrote. Its composition with the
search is the point: compiler and reader are different programs.

### `Rkcv`: romaji

The table built from the lines of a rule file, `sj3_rkconvc` with its pending romaji,
undo buffer and cached table position, and the whole-string `sj3_rkconv`. The
application is the text it shows by applying the returned codes.

### `KanaCode`: character codes

The converters as operators over byte sequences, with the room of the destination,
the substitute character and the count of substitutes. The state is one text that
grows; every converter is checked on it.

### `ClientLib`: `sj3lib`

One process with its one connection. `fd`, `errno`, `svr`, `mdicid`, `udicid` and `list`
are the library's `client.fd`, `sj3_error_number`, `client.svr_version`, the two ids and
`dicid_list`; `pc`, `arg`, `err` and `k` are the call in progress and its local
variables. The operators of the first section are the functions of `level1.c`: each
is the set of outcomes of one exchange, with the loss of the connection while
writing (`put_flush`) and while reading (`get_buffer`) among them, and with the value
`sj3_error_number` is left at in each case. The actions are the steps of `sj3_open`,
`sj3_open_with_list` and `sj3_close`, one exchange each, and one action for every
request. The server is external: it keeps what a session has open, and may be an old
one (protocol version 1). Another client of the same user may make that user's files
at any time; `AppExit` ends the process at any time, by SIGPIPE too.

Abstractions: the first integer of a reply arrives whole or not at all; the loop of
exchanges in `sj3_getkan` is one exchange; a descriptor of the application that the
library takes for its socket yields no valid reply; memory that was freed reads as
some id, and freeing it again may end the process (`pc = "aborted"`).

### `Duplex`, `Proxy`: the proxy and what it promises

`Duplex` is the abstract specification: per connection two streams in which nothing is
lost, doubled or moved while both ends are open. `Proxy` is `sj3proxy`: the parent with
its listeners, `fork` and SIGCHLD, a child per connection with its one buffer and its
blocking reads and writes, and sockets and a buffer that hold neither a request nor an
answer whole, so that the child also blocks in the middle of a write, in either
direction. The listeners are a set:
they serve disjoint queues, so their order in the list is immaterial, and the parent
takes the ready ones in any order. `Proxy` implements
`Duplex` under the mapping of each stream to what socket, buffer and socket hold in
order (`Streams`); the client and the server behind it are external, as `sj3lib` and
`sj3serv` use a connection.

### `Sj3ServerProofs`, `PrivMonitorProofs`, `ClientLibProofs`, `ProxyProofs`, `KouhoProofs`, `HenkanProofs`, `ClStudyProofs`, `RkcvProofs`

The theorems below. Each extends the module it is about. `KouhoProofs` is about the operators of
`Bunsetu` and `Kouho`, what an analysis finds and how candidates are ranked; `HenkanProofs` also
extends it.

## Runs

All runs pass. Every property has a mutant in `PROJECT.json` that breaks it.

| Run | Properties | What it shows |
|---|---|---|
| `server_files` | `TypeOK`, `RefcntCoversHolders`, `NoStaleLock`, `LockedDictionaryUnchanged` | with two clients, a pre-opened read-only dictionary and a writable one, deaths at any point: reference counts cover all holders, no lock outlives its session, nothing edits a dictionary under the lock of a client that has it open |
| `server_loop` | `ClientTable`, `NoBlockingRead`, `ClientServed`, `ConnectionTaken` | with three descriptors that are reused and two clients allowed: list, counter, descriptor set, `maxfds` and the count of a shared study file agree, nothing blocks the loop, requests are answered, dead clients released and connections taken |
| `priv_monitor` | `InStep`, `LookupAnswered` | question and answer never get out of step, whatever the length of a name; every lookup ends |
| `user_dict` | `RegisteredFound`, `StudyTable`, `ListingExact` | no edit, split or failed registration loses a word; study entries follow their words, and the search of the study table is exact until an edit moves entries past a word of another dictionary; the listing rebuilds every reading in both directions |
| `cl_study` | `LookupExact`, `FileFollows`, `OldestGo` | what was learned is found through the table and decides the next conversion; the oldest go first; the file follows, stops between writes included |
| `engine` | `Covered`, `PoolExact`, `CursorExact`, `RepliesConvert`, `ChosenFirst`, `StepsLeadOn` | phrases are covered by clauses of the grammar, shared lists are freed once, the cursor reaches each candidate and goes back the way it came, chosen candidates come first, a conversion ends |
| `grammar` | `ScanExact`, `TablesFit` | over the real tables every scan finds exactly what the text starts with (one ending excepted), and arrays and rows suffice |
| `mkdic` | `SearchExact`, `EstimateHolds`, `SearchEnds` | what was compiled is found, and nothing else; the size estimate holds but for overlapping repeats; every search ends |
| `romaji` | `KeysAgreeWithString`, `LookupExact`, `UndoExact` | keys, erases and undo leave the screen as the converter believes; the cached position changes nothing unless an erase kept it behind an entry it hides; keys and string give the same |
| `kana_code` | `CodesAgree`, `RoomRespected`, `WidthExact` | the codes convert into each other and back, nothing is written past its room, but the 0 behind a text that fills it, or lost silently, half width survives full width |
| `client_lib` | `OpenReady`, `CloseDisconnects`, `RequestsReportDown`, `LiveDescriptor` | an open that reports success has a usable session, a close leaves no connection and, without an error, nothing open, a request returns -1 exactly when the connection is gone, between calls the descriptor is live or forgotten |
| `proxy` | `Streams`, `Answered`, `Reaped` | the proxy implements two ordered streams, answers arrive, ends are told, children are reaped |

### Bounds

Server: two clients are enough for every conflict over a file, a lock or a list
position; three descriptors let one be reused while another stays. Two dictionaries
let one be locked and another not. Nothing in the code relates a study file to a
dictionary, so the dictionaries are in `server_files` and a study file that all clients
share in `server_loop`. TLC follows two references per dictionary
(`MaxRefcnt`); the proof covers any number. Requests are not counted.

`UserDict`: three segments give a first, a middle and a last one; a segment of eight
units holds two blocks or the largest block of three homophones in two groups, so
full segments, splits in front of and behind a block, new segments and both kinds of
overflow occur, and an index of eight units overflows both where the code looks for
room and where it does not. Three study entries are fewer than the words. The word of
the read-only dictionary is at offset 6, with user words at lower and higher offsets, so
that edits carry study entries past it. With
`SegLen = 7`, one unit less than the largest block, `RegisteredFound` does not hold:
registration splits off empty segments until none is left and earlier words are no
longer found (hazard at `adddic.c:196`).

`ClStudy`: an area of three blocks, seven clauses, some of which start others, and
three characters, of which two share an entry of the table and one is alone in the other
(`Step = 128`; the code's tables are finer). `Henkan`: one word or more for every kind of
stem, up to two functional words in a row, six texts, buffers of two clauses and of
enough, one remembered choice (`CHOICES`) on top of the pair each state tries. `Grammar` has
no bound but the code's `MAXFLVL`: a text ends when nothing of the table may match. `MkDic`:
any five of twelve lines, segments of 28 bytes, so one to several segments are written
and references and common strings are used. `Rkcv`: files of up to three lines, texts of
four characters on the screen; with the keys TYA and TNA the cached position is the
second entry of a list. `MinCflag` is a bound of the model, the code lets `rk_cflag`
fall with every erase. `KanaCode`: every character of JIS X 0208, ASCII and
half-width kana alone, and texts of three from the characters at the borders of the
codes. `ClientLib`: one user, a list that can open in part, and one descriptor besides
the process's own three: the socket that `open_unix` leaks uses it up, and both numbers
`open_inet` can return by mistake are among the descriptors. `Proxy`: TCP
sockets and the buffer hold two units, UNIX sockets one, a request and an answer are
three; one request, one failing call, one client that asks and one that comes and goes.

Deadlock is checked except where the system may stop: the proxy's clients are
finite, a romaji screen, a text or an input may be full, and a conversion may hit a
freed list (`pc = "corrupt"`, only after a phrase that did not fit).

### Fairness

`server_loop` assumes weak fairness of the server's own steps (the process is
scheduled and the kernel completes its system calls) and that a peer in the middle
of sending a request finishes or closes: the code itself has no timeout, so
without this one client can hold up the rest (hazard at `comuni.c:371`). For the same
reason the flush of a reply is a step that ends: a peer that neither reads its reply nor
closes would block `put_flush` (`comuni.c:314`). Peers are otherwise free. `PrivMonitor` assumes that both processes are scheduled and that
a pending signal is delivered. `Proxy` assumes the same of parent and children, and of
the two ends, which read and answer what has arrived unless they close. `MkDic`
assumes that a search that began goes on. The engine's end of a conversion is stated as
an action property, `StepsLeadOn`: a measure that every step lowers.

## Proofs

Eight modules hold theorems, each `Spec => []P` or `Spec => P` for every value of the
constants the named assumptions admit. All follow one pattern: an inductive
invariant in named parts, one lemma per action or handler, a lemma that combines
them into `Next`, and the temporal step.

### The server (`Sj3ServerProofs`)

For any sets of descriptors, dictionaries and study files and any client limit:

- `TypeCorrect`: `TypeOK`. Inductive on its own (`TypeInv`) once cells of the list and
  the cursor are known to be in range.
- `PoolSafe`: `RefcntCoversHolders` and `StdyRefcntExact`; `LocksEnd`: `NoStaleLock`. The
  inductive invariant `PoolInv` relates every reference count to the number of lists a
  dictionary is in (those of sessions and the global one), says that a session's lock
  entries are exactly on dictionaries it has open, and that descriptors without a
  client hold nothing. `NoStaleLock` alone is not inductive: closing a dictionary
  removes lock entries only if the closing session is the one listed. `server_files`
  checks counts up to `MaxRefcnt` references, the theorem any number.
- `LockProtects`: from the same invariant, no edit changes a dictionary that a lock
  holder has open, provided that no writable dictionary is pre-opened (the first
  disagreement below is why; `PreOpened \subseteq ReadOnly` is the theorem's hypothesis).
- `TablesAgree`: `ClientTable`. Invariant `LoopInv`: the list has each connection once
  and the counter counts it (`ListOK`), a descriptor without a connection owns nothing
  (`OwnerOK`), `fds_org` and `maxfds` are those of the connections (`WatchOK`).
- `NeverBlocksOnSilentClient`: `NoBlockingRead`. It needs `WalkOK`, which also covers the
  flush: the clients *ahead* of the one being served that `readfds` names have sent
  something or are gone. The case that matters is a disconnect in the middle of the
  walk, which shifts the rest of the list (`UnlinkCells`).

### The monitor (`PrivMonitorProofs`)

`MonitorInStep`: `InStep`, for any `BUFSIZ`, any lengths of names and any set of known
ones. `InStep` speaks of the moments between two lookups; the invariant `Protocol` says
for every pair of places of the two processes what is in the two channels (`Resting`,
`Asking`, `Answering`), so that no message is ever read in the wrong place.

### The client library (`ClientLibProofs`)

For any users, ids, dictionary lists and descriptors: `OpenIsReady`, `CloseIsComplete`,
`RequestsTellDown`, `DescriptorIsLive`, the four properties of `client_lib`. `Inv` has two
layers:

- `LinkInv`, about the connection: a session at the server means that the library's
  descriptor is its own and open; the converse fails only at `connect`, after `open_inet`
  has returned an error code. It is inductive by itself, with what each place of a
  call says about its arguments (`Calls`).
- `SessInv`, about what the server has open for the session at each place of an opening
  or closing call. Two things make it subtle. `sj3_open` leaves the list of an earlier
  `sj3_open_with_list` in place, so `sj3_close` may go through a list that is not the
  session's; it then reports no error only if every entry was open, and `LeftToClose`
  follows which of the session's two dictionaries such a pass can have closed. And a
  loss goes unnoticed when a dictionary is opened, so `OpenedWell` holds only while
  there is a session; the exchanges after it end the call with an error otherwise.

`level1.c`'s functions have one lemma each: the connection is lost on both ends, or the
server has answered with the effect on its session.

### The proxy implements its specification (`ProxyProofs`)

`ProxyImplementsDuplex`: `Spec => Streams`, the refinement of `Duplex` under the mapping

| `Duplex` | `Proxy` |
|---|---|
| `up` | the socket to the server, then the child's buffer if it is writing there, then the socket from the client |
| `down` | likewise the other way |
| `cli` | `cli` |
| `srv` | `srv`, or "refused" for a client whose connection was dropped before there was a server |

for any clients, addresses, sizes of sockets, buffer, requests and answers, and any number
of failing calls. Step by step: `client_connect` and a successful `child_connect` are
`Open`; the ends' sends, receives, closes and ends of stream are those of `Duplex`; a unit
that the child moves is a stutter, because it only moves from one part of a stream to the
next (`MoveUnit`, `TakeSome`); an exit of the child is `Lose`, or `Refuse` if there is no
server yet; the parent's steps are `Refuse` or stutter (a failed `fork` and the last close of
a connection whose child is dead can refuse several clients at once).

The invariant `Inv` is what the exits need: a child that gives up has found one end closed,
so that `Duplex` allows what is then lost (`Conn`); a connection waits at one place of one
listener and is forked for once (`Waits`, `Accepted`), so that no step of the parent touches
a connection in use. TLC checked `Inv` on all states of the run's instance before it
was proved.

### The lists of a conversion (`HenkanProofs`)

`ListsFreedOnce`: `PoolExact`; `ConversionLeadsOn`: `StepsLeadOn`, for any texts, buffers,
dictionaries, grammar and outcomes of `priority()`. The invariant `Inv` says for each
place of `ph2knj` which pointers own which lists:

- `Between` two clauses only `clt1st` owns a list, if there is one, and it is for the place
  where the text stands; when the text is done, `maxclptr` is the same pointer, so that the
  next `freework` frees that list or nothing.
- `Trying`: in `mk2claus`' loop up to three lists are alive, and the one made last may
  be the selected one's or a loser's; what it was made for is `try.len`.
- `Selected`: `maxclptr` is reset or is the list of the selected clause. After a learned
  clause it may point to a list that was freed. It is not read again: the rest of
  the text is not empty then (a learned clause has a clause behind its boundary), so another
  round sets it before the request ends, unless the buffer is full. Without that fact the invariant is not inductive.
- `Resting`: between requests one list is left, `maxclptr`'s; after a phrase that did not fit
  there may be none, and only then can `freework` meet a freed list.

That at most three lists are alive at once is also why four batches model any number (`FreshBatch`).
That the loop of `mk2claus` leaves off where it must rests on what an analysis returns
(`AnalysesSound`): a list has clauses, none is empty or longer than the text or than
`MAXCLINPUTLEN`, the first is the longest (`mk2claus` compares only that one with the rest of
the text), and the boundary of a learned clause lies inside it. That is the next section.

### What an analysis finds (`KouhoProofs`)

`AnalysisFound`, a lemma, and with it `AnalysesSound` (`AnalysesAreSound`) and, for the
candidates, `AnalysesListed` (`AnalysesAreListed`: what is listed has a spelling in the
dictionaries), for any text that is not empty and any tables as in `GrammarAssumption`.

- `StemsFound`: every stem `mkjiritu` lists is a word of the dictionaries, a number or, only where learned
  clauses are asked for, one of those with the boundary inside it; none is longer than the text; its
  prefix and its suffix are in the tables.
- `FzkCalls`: `srchfzk` calls itself for what is behind a functional word. It is modelled as a function of
  where it stands, and such a function exists because every word has a reading (`RoundsExist`, from
  `FixedPoint`). Each clause it ends is as long as the stem or longer, within the text.
- `ConjEndings`, `StemCalls`: likewise for the endings of an inflected stem and what may follow them.
- `Argclrec`, `ClausesSet`, `MadeClauses`: however the calls come, the clauses stay listed by falling
  length, each on a stem of the list it was made from; `setclrec` refuses an empty one
  and one longer than `MAXCLINPUTLEN`.
- `GrownWord`, `UnknownFound`: when no stem leads to a clause, `wakachi` makes an unknown word longer until
  something may follow it or it reaches its limit, and then takes the word alone, so something is found.

### The candidates and the cursor (`KouhoProofs`, `HenkanProofs`)

`RepliesCanBeShown`: `RepliesConvert`; `CursorStaysExact`: `CursorExact`; `PhraseCovered`:
`Covers`, the second part of `Covered`, for any grammar, dictionary, table of choices and texts.

- `RankedBlock` is the lemma they rest on: whatever the table of choices holds, `getrank` numbers the
  candidates of a block from 1 to their count. `setstynum` gives each candidate the place of its
  word in the table or none, `setnspr` gives those without one a number behind the others, and
  `regetrank` moves the numbers' writings; after each the ranks still number the list.
  `mkkouho` gathers a block of clauses of one length: it is not empty, because a word is spelled somehow
  and every class of numbers has a way of writing, and not longer than `MAXKOUHONUMBER`.
- `CursorInv`: the cursor stands on a candidate of a block that was ranked when it was entered, and
  the block starts with the first clause of its length. `nextrecblk` and `prevrecblk` go from
  one such clause to the next and back (`NextBlock`, `PrevBlock`), so `prevcl` meets the block
  `nextcl` left; both rank it again, by a table that has not changed in between (`ThereAndBack`).
- `PutOut`: the clauses that are out end where the phrase stands (`pos`), unless the buffer is full.

The loops over candidates are folds and recursive functions. `SetInduction` makes a set stand for the
predicate of an induction, and `Iterated`, `FoldExists` and `FixedPoint` say that the function a
definition chooses exists.

### Clause study (`ClStudyProofs`)

`LearnedIsFound`: `LookupExact`; `FileIsCurrent`: `FileFollows`; `OldestMakeRoom`: `OldestGo`,
for any readings, any size of the area and any `CLSTUDYSTEP`. The invariant `Inv`:

- `Sane`, for the area in memory and the one in the file: the numbers of the blocks are those from 1
  to their count, each once (`Numbered`), and the readings are in order, none the start of another
  (`Sorted`). `LookupExact` needs the order, `delclold` the numbers.
- `Tables`: an area leaves room for the end mark, and its table is the one `mkclidx` makes of it,
  unless the file was left between the two writes. `makestdy` writes a table of zeros beside
  an empty area; that does no harm only because nothing is looked up in an empty area.
- `Written`: the file lags behind by what `putcldic` still has to write. `Reported`: what
  `clstudy` returned success for is in the area.

The order of readings comes first (`Trichotomy`, `OverTransitive`, `NotPassed`): blocks neither of
which starts the other are ordered by their first difference, so deleting the related ones makes the
place `srchclpos` finds the only one, and the scan of `dic_cl` meets every block a text starts
with before one that is behind the text. `TagsGrow` and `OneMore` are about the bytes of the
area, `Reached` about the table. The loops (`delcldata`, the evictions, `ClNextTag`) are recursive
functions. The induction theorems of the library cannot be instantiated here, but a set can
stand for the predicate: `SetInduction` follows from the least element of a set of naturals,
and each function is shown to exist by extending it from `0..m` to `0..m + 1`
(`WithoutDefined`, `RoomDefined`, `TagDefined`).

### Romaji conversion (`RkcvProofs`)

`ConversionUndone`: `UndoExact`; `CachedPositionExact`: `HintExact`; `LookupIsExact`: `LookupExact`;
`KeysAndStringAgree`: `KeysAgreeWithString`, for any rule files with their lines in any order, any
letters and any bound on the screen.

- `Undoable` gives `UndoExact`: the screen is converted text, then exactly the pending romaji, and
  while `rk_cflag` is not negative the last `rk_klen` characters of the converted text stand where
  `lstr` stood, and no more keys are counted than romaji are pending. The shape of the screen
  alone is not inductive: the key that takes a conversion back restores `lstr`, so `lstr` has to
  be described for as long as it may come back, however many keys were typed and erased in between.
- `Hinted` gives `HintExact`. The cached position is always one of the list of the first pending
  romaji (`Headed`), after an erase too: the search that starts there can miss entries of that list
  in front of it, but never looks into another list. Unless an erase kept the position, no entry
  before it fits the pending romaji, nor any string they are the start of (`CachedGrows`), so the
  search finds what the one from the start finds (`SameConversion`). With a kept position it does
  so too if no entry before it takes the romaji and the new key or waits for more of
  them; if one does, it is hidden, and that is the exception `HintExact` states (`Overlooked`).
- `Loaded` says that the table is the one `sj3_rkinit_sub` makes of the lines. That table has each
  key once, from its first line, and no key after one it should precede (`Built`, `Sorted`). The
  order of `mktable` (`After`) puts a key before its own starts; it is shown asymmetric and
  transitive, so the entry that the scan meets first is the longest that fits. TLC checks
  `TableExact` for three romaji of the keys; the theorem is for the same strings but any lines.
- `Agreed` gives `KeysAgreeWithString`: while no key was erased, the romaji and the kana on the screen
  are those of `rkconvs(typed)`. The loop of `sj3_rkconv2` and the calls `rkconvs` makes for one
  more character are bounded alike, by the length of the string, and they go in step
  (`Alike`): the same string and the same kana after each, until the key is refused or a call
  returns the variable that was never set. It needs `Hinted`, because `rkconvs` always searches
  from the start of a list, and the shape of the screen.

The loops over the lines, the list and the string are recursive functions over `0..m`,
shown to exist as in `ClStudyProofs`.

### Assumptions

`FdAssumption`, `FileAssumption` and `BoundAssumption` of `Sj3Server`; `BufsizAssumption` and
`KnownAssumption` of `PrivMonitor` (a name has a terminator and fits, as in a password
file); `IdAssumption` (ids are inode numbers, never 0), `SessAssumption` and `FdAssumption`
(stderr is open) of `ClientLib`; `ProxyAssumption` of `Proxy` (sizes are positive);
`GrammarAssumption` of `Bunsetu`: entries have readings and parts of speech, a functional word's reading is
not empty, a learned clause has a clause behind its boundary (`clstudy.c:63`), 0, the end of a text, is of
no class of marks (`chrtbl.c:49`), and at most four endings of a stem fit one text (`crec[4]`,
which `setconj` fills without counting; the model has no bound there, so no proof uses it);
`KouhoAssumption` of `Kouho` (a word has a spelling, every class of numbers a way of writing);
`RequestAssumption` of `Henkan` (readings are sequences of characters);
`ConstantsAssumption` of `ClStudy` (codes are bytes but 0, the sizes are positive, readings are not empty);
`RkcvAssumption` of `Rkcv` (the keys typed are characters, a file is a sequence of lines, and a line
has a key and a kana that are not empty: `getkey` and `rkgetyomi` refuse others).
TLC evaluates all of them on the instances of the runs.

### Left to TLC

- Liveness: `ClientServed`, `ConnectionTaken`, `LookupAnswered`, `Answered`, `Reaped`,
  `SearchEnds`. The prover has neither fairness nor ENABLED.
- What recursive functions and folds over dictionaries, segments and texts compute:
  `UserDict`, `MkDic` with `DictSearch`, `KanaCode`. Their properties need induction over the data.
  `ClStudyProofs` and `RkcvProofs` show a way to do it with sets; it is long, and it
  has not been gone for these.
- `Grammar`: its properties are about the literal rows of the tables, so there is no
  constant to generalise over but the text.
- `Henkan`'s `ChosenFirst`, and the first part of `Covered`: the clauses a phrase starts from are
  clauses of the grammar.

## Known disagreements

Where the code does not do what its documentation, its comments or its own checks
suggest, the models follow the code and the properties are stated around it.
`doc/doc/sj3lib.ms` is the library's manual.

Server and files
- `execute.c:270-309`: the first dictionary a session opens gives it the pre-opened ones
  too, but a lock taken before goes only on the one named; others may edit the rest.
  `sj3lib.ms:610` says that nothing can be registered or deleted during a lock.
- `priv.c:187-190`: the read that SIGCHLD interrupts is started again, and the monitor
  holds the other end of its socket itself, so it outlives the server;
  `priv.c:259` says "When child dies, move into the shutdown state".
- `execute.c:491, 510`: the study data of a reply to a Shift-JIS client are copied one
  byte off; `RepliesConvert` leaves the clauses replaced there out.
- `execute.c:137`: a session's work area is freed without its engine lists.

User dictionary
- `adddic.c:274`, `483`, `deldic.c:217`: an edit moves the study entries of one dictionary in place, in a
  table sorted by offset over all of them. An entry that is moved past one of another dictionary is out of
  order: the search misses it, so a studied word is not preferred, though `sj3lib.ms:334`
  promises so, and studying it again makes a second entry and ranks above the number of
  entries. `StudyTable` says that no other step spoils the table; the instance has such a
  word, and without the exception the property does not hold there.
- `deldic.c:141`, `114-115`: in a segment that is exactly full a deleted last block stays,
  and a moved tail is not terminated; `sj3lib.ms:547` says 0 is returned when the word was
  deleted.
- `addelcmn.c:349`: a spelling that starts another matches it, so deletion may remove the
  longer one and registration is refused; `sj3lib.ms:490` speaks of the word given.
- `addelcmn.c:381`, called at `adddic.c:230`: the index gets a longer first reading without
  a look whether it has room.
- `peepdic.c:51`: `getusr` takes no reading from the index as `next_douon` does; a compiled
  dictionary, whose first reading is only there, would be listed with an empty one.
- `sdepend.c:191-245`: `putdic` and `rszdic` move the dictionary's memory, to which listing
  cursors of sessions point.

Clause study
- `clstudy.c:211`: counts the end mark's length for a block and evicts more than needed.
- `sdepend.c:558`: the table is written before the area it points into.

Conversion engine
- `ph2knj.c:103-106`: when the answer outgrows the buffer the lists are freed while
  `maxclptr` may name one; the next request frees it again (`PoolExact` excepts this).
- `cl2knj.c:111`: after `ph2knj` the cursor reads `clt1st`, which was freed.
- `mkbunset.c:48`: the ending array has exactly as many places as the tables need, unchecked;
  `fuzoku.c:256`: likewise the 32 functional-word records of one stem.
- `conjunc.c:60`: せよ of the suru verbs is out of order and never found.
- `ph_khtbl.c:70`: a style number of -1 is stored in an unsigned field.

Client library
- `sj.c:133`: a connection lost while the main dictionary is opened is returned as
  `SJ3_CANNOT_MAKE_UDIR`; `sj3lib.ms:119-120` says that unless `SJ3_SERVER_DEAD` or
  `SJ3_CONNECT_ERROR` is returned the connection is established.
- `sj.c:293`: on a dead server the list is freed but still pointed to.
- `level1.c:360`: `open_inet` returns the error codes 2 and 3, which the caller takes for
  descriptors; `sj3lib.ms:99-100` promises `SJ3_CONNECT_ERROR`.

Romaji and codes
- `rk_conv.c:894-905`: the cached position is kept over an erase that leaves any romaji. With the keys
  TYA and TNA, typing T N, erasing N and typing Y A does not give what T Y A gives: the search starts
  at TNA and never sees TYA. `LookupExact` holds with exactly this exception; `rk_conv.c:1194` returns a length that is not set when
  nothing converts; a wide character is taken by its low byte (line 1000).
- `sj3_rkcv.c`: `sj3_hantozen` in an EUC locale cuts a text whose EUC form is longer than
  its Shift-JIS form; `sj3_zentohan_euc` is wrong in both locales and `sj3_zentohan` in an EUC
  one (line 671 on); `sj_zentohan` looks at the high byte only (line 781).
- `sj_string.c:100`, `150`: a text that fills its room exactly gets its terminator one place behind it
  (`out[outlen]`), and callers pass the whole size of a buffer (`execute.c:485`, `sj.c:493`,
  `sj3_rkcv.c:309`); `RoomRespected` allows this one byte and no other. `wc16_str.c` does the same when the last
  character is of one byte and writes no terminator when it is of more.
- `sj_string.c`: text cut exactly at the end of the buffer is not reported.

Proxy
- The example configuration's keys (`listen`, `port`, "inet4") are not those the code reads
  (`host_name`, `service_name`, "inet", `sj3proxy.c:236-241, 334`).
- `sj3proxy.c:194`: when a client closes its half, replies under way are dropped;
  `445`: without a listener the parent waits for ever; `454`: it accepts blocking after
  select; `480`: a fork that fails ends it.

Dictionary compiler
- `makelist.c:388` with `hindo.c:93`: overlapping occurrences of a string are counted as
  savings each; only one can be replaced, and the segment overflows (`EstimateHolds`).
- `getkanji.c:61`: kana that are only the start of their reading come back as its end
  (`AsRead`); `makeseg.c:260-264`: a reading of 32 characters does not fit its five bits;
  `string.c:182` reads in front of a reading.
- `setjrec.c:291`, `mkjiritu.c:106-162`: a full pool takes the last record again.

## Not modelled

- The scores of `priority.c` and its tables: linguistic, `priority()` is any choice.
- The reading of numbers (`srchnum.c`, `mknumber.c`) but for the stems it yields, the
  number writing of candidates (`selsuuji.c`, `suujitbl.c`), and the remaining character
  class tables: data.
- The compression of spellings in user dictionaries (attributes, kana references; the
  compiled form is in `DictSearch`), the bytes of headers, and the file layout.
- The disk image of user dictionaries and a stop between the writes of one edit: the
  code makes no attempt to recover (hazard at `adddic.c:443`). Edits between two steps of a
  listing: the code does not adjust the cursor (hazard at `peepdic.c:198`).
- Limits and replies left out of handlers that are modelled: `mkdic` stops when a segment has more
  than `MAXHINDONUMBER` strings (`hindo.c:285`) or `MAXOFFSETNUMBER` offsets (`offset.c:95`); the number read
  behind 第 (`mkjiritu.c:76-78`); the `NoMoreDouonWord` reply and the length in Shift-JIS of each
  candidate (`execute.c:754-762`, `831`). A reply that the client library reads from a
  descriptor of the application (`level1.c:189`) is never a valid one.
- Failures of memory allocation, of reads and of writes of dictionary files.
- Parsing of the run-command and proxy configuration; `priv_set`, a fixed sequence of
  system calls; messages.
- `sj3dic`, `sj3stat`, `sj3demo`: batch clients, straight sequences of library calls.
- The Lua interpreter and the portability functions: vendored. Lua is about a quarter of
  all lines.

## Plan

1. `ChosenFirst`, and that the clauses of a phrase are clauses of the grammar.
2. `KanaCode`: what the converters do with one character, which needs no induction; then
   texts, in the way of `RkcvProofs`.
