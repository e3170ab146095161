# NPACN-LAB in TLA+

The repository is the work of a course on network programming: small C
programs, most of them a server and a client that talk over TCP, UDP or UNIX
sockets, built on `fork`, threads, `select`, shared memory, semaphores and
stdio. There is no common library; every program stands alone. This directory
holds TLA+ models of them, the TLC runs that check the models on small
instances, and proofs checked by TLAPS.

## Inventory

| Part | State it keeps | Operations | What is hard | What makes it correct |
|---|---|---|---|---|
| `midsem` server children | employee array, count and semaphore in shared memory; `dup.txt`; a stdio buffer per child | add, remove duplicates by id, sorted display | children interleave; the removal shifts the array under its index; SIGKILL at any point | mutual exclusion; operations look atomic; no record lost; the display is sorted |
| `midsem` parent and clients | sockets and pids of accepted clients, descriptors inherited by children, the client's reader and writer | accept, fork, broadcast, kill; read, write, leave | third client races departures; resets and SIGPIPE; recv splits and merges messages | the broadcast ends every client, and only when more than two are connected |
| `Lab05/quo1` append server | `result.txt`, a client counter | accept, fork, append a word, show the file; refuse the third client | two children append and read back concurrently; the parent exits while they run | no word lost; the third client, and only it, is told to terminate |
| `Lab05/quo2` anagram servers and client | two strings per round | read, read, compare, answer; iterative or one child per client | two writes may arrive as one read; one client holds the iterative server | every round is answered; the answer is right |
| `Lab06` parity, CRC, Hamming (local and TCP) | a frame and its check bits | encode, corrupt, verify, correct | boundary lengths, flips outside the frame, partial reads of an array of ints | what the code word promises: errors detected or corrected |
| `Lab04` book server | records with a deleted flag | insert, delete, display, search | inner reads unchecked; menu choice the server does not answer | delete then search finds nothing; both sides stay in step |
| `Lab04` DNS server, student TCP and UDP servers | lookup tables, per-datagram children | look up, "exit"; query by option | parent reads before forking: a silent client blocks all; lost datagrams | each query gets its own answer |
| `Lab03` chat, permutations, sort by fork, calculator | one connection each; the packet of the calculator | full-duplex chat; parent waits for child before it sends; four operations | half-closed connections; the order of two writers on one socket; unchecked reads | digits before letters; no last word lost; one client cannot end the server of all |
| `Lab02` file servers, statistics, remote sort, text servers | a current file name, the file and the second file of a replacement | open, search, replace, reorder, count, sort | a stop or a departure in the middle of a replacement; matches that overlap; the UDP server keeps one file name for all | a reply is about the asker's request; the file is what complete requests made of it |
| `Lab01` arrays, palindromes, addresses, conversations, echo | the array of the last request | one request, one reply; "stop" or "Halt" ends | both ends waiting for the other; words longer than the buffer; a count read from memory nobody wrote | turns alternate; "stop" ends both; a choice is not taken for a size |
| `Lab07` leaky and token bucket | bucket level, queue | arrival, tick | boundary of the bucket | bounded output, nothing lost but what overflows |
| Unit 5 and 6: half and full duplex, concurrent and threaded servers, blocking and non-blocking exchanges, Windows variants | a connection per child or thread | accept, fork or start a thread, read, write | who notices the end; threads share descriptors and die together | no client holds up another; an end is noticed |
| Unit 7: DNS hierarchy, resolver, website server, readiness | the resolver chain's one buffer | query upstream, answer; child per connection | answers received over one another; descriptors in parent and child | the answer is to the question; descriptors are given up |
| Unit 8: super-server, daemons, log servers, multicast | ports and their services; what stdio holds back; group membership | select, accept, run a service; print, log; join, leave, receive | `select` interrupted by a service's end; standard output closed and its descriptor reused; lectures that queue | no service keeps the server; no lecture twice or out of order |

Client and server share nothing but their connection; children of one server
share inherited descriptors, files and, in `midsem`, memory.

## Modules

| Module | Models | State and actions, and the code they stand for |
|---|---|---|
| `EmployeeRecords` | nothing of the code: what *deduplicated* and *sorted* mean | `Dedup`, `Duplicates`, `IsSortedReport` |
| `EmployeeDB` | the promise of `midsem/server.c`: a database whose requests each take effect in one step | `records`, `op`, `dup`, `reply` |
| `EmployeeStore` | `handle_client` with the shared memory it works on | `db`, `count`, `lock` are the `SharedDB` and its semaphore; `buf` is the child's stdio buffer on `dup.txt`, `dupFile` the file. One action per access that another process can see: `Recv`, `Wait`, `ReadCount`, `Store`, one iteration of each loop (`ScanOther`, `ScanFirst`, `ScanDuplicate`, `CopyNext`), `Post`, `CloseFile`, `Send`; `ThirdClient` and `Kill` are the parent |
| `EmployeeStoreProofs` | | theorems about `EmployeeStore`, its refinement of `EmployeeDB` among them |
| `EmployeeSession` | `main` of `midsem/server.c` and both processes of each client | `Accept`, `Fork`, the broadcast loop, the kill loop, `Exit`; `holds` counts descriptors, because children inherit those of earlier clients; `down` is what the client's reader has still to `recv`, in pieces that split and merge messages; `reset` is a TCP reset, after which a send fails or raises SIGPIPE |
| `EmployeeSessionProofs` | | theorems about `EmployeeSession` |
| `AppendServer` | `Lab05/quo1`: parent, children, file, client | `AcceptAndFork`, `ForkFails`, `RefuseAndStop`; the child's `ReadString`, `AppendString`, `ShowFile`, `Close` |
| `AppendServerProofs` | | theorems about `AppendServer` |
| `AnagramConversation`, `AnagramServers` | `Lab05/quo2`: the conversation, and the concurrent and the iterative server that hold it | a `read` returns any run of sends that has arrived; `longPause` says whether the client's `usleep(1000)` outlasts what the server can do meanwhile, `PauseOver` when it is over |
| `AnagramCheck` | `check_anagram` and `sort_string`, one comparison per step | `InnerLoop`, `OuterLoop`, `SortDone`, `Compare` |
| `ErrorCodes` | the codes of `Lab06` as functions of bit sequences | parity, the sliding-window CRC division, Hamming placement and correction, named as in the code |
| `ErrorControl` | a sender, a channel that flips bits, a receiver | which of the three programs runs is chosen at the start |
| `TrafficShaping` | `Lab07`: leaky bucket and token bucket | `Conforming`, `Nonconforming`; `SendPacket`, `Queue` |
| `AlgorithmsProofs` | | theorems about `AnagramServers`, the comparison of `AnagramCheck`, the parity and Hamming programs of `ErrorControl`, and both buckets |
| `Sockets` | the kernel's calls that the other programs are made of | stream and datagram sockets, `fork`, threads, keyboard and screen. A program is a disjunction of calls, each between two places of its control; its state is `pc`, the descriptor in use, `buf` (what the last receive left) and `var`; `conn`, `backlog`, `mail` and `disk` are the kernel's; `said` and `shown` are what users typed and read |
| `Chat` | full-duplex chats of Lab03 and Unit 6 (processes, threads, Winsock) and Unit 6's half-duplex pair | `ChatLoops`, `ForkChatLoops`, `ThreadLoops`, `WinLoops`, `HalfDuplexLoops`: a writer and a reader per side |
| `TurnTaking` | Lab01's conversations over TCP and UDP, first servers and echo; Winsock and portable turn takers | one operator per program: `TalkServer`, `TalkClientUDP`, `EchoServer` … |
| `Exchanges` | Unit 6's blocking and non-blocking pair, Unit 7's `select` and SO_ERROR pair, Unit 5's Winsock pair | `BlockingServer`, `PollingClient`, `SelectClient`, `WinsockServer` … A poll that finds nothing is a wait |
| `MCConversations` | composes these three | |
| `ConversationsProofs` | | theorems about the chat of Lab03 and the programs that take turns |
| `LabAlgorithms` | sorts, search and replacement, word replacement, statistics, palindromes, permutations | functions on sequences of characters; `MCAlgorithms` checks them against reference definitions |
| `FieldServers` | Lab01 array server, Lab02 remote sort, Lab03 calculator | fields of known size, read in the order of the code; reads that fail leave what the variable held (`stale`) |
| `FileServers` | Lab02's file server (`files`) and text server (`quo1`) | `disk` holds the file and the second file; `ReplaceFile` is the open, the copy, the removal and the renaming, one step each |
| `TextServers` | Lab02 statistics, Lab04 DNS lookup, Lab01 addresses; the clients that end a session | |
| `ForkServers` | Lab04 student server over TCP, Lab03 sort with a child | the parent's reads, `fork`, the child's answer, `wait` |
| `FrameServers` | the TCP programs of Lab06 | parity, CRC (generator, pause, frame) and Hamming exchanges; the verdicts are those of `ErrorCodes` |
| `StreamServers` | composes the last five | one of thirteen systems in each behaviour |
| `StreamServersProofs` | | a theorem about `StreamServers` |
| `DatagramServers` | the UDP servers of Lab01, 02, 03 and 04 | `sendto` may lose the datagram (`Lossy`); no client has a timeout |
| `NameServers` | Unit 7: local, root, TLD, authoritative server; resolver and the server behind it; website server | `Overlay` is a receive into a buffer that nobody terminates |
| `UnitServers` | Unit 6 concurrent and threaded servers, socket names; Unit 8 super-server, the two echo daemons, the two log servers | `Select`, `Interrupted` and `AcceptService`; `PrintOrFlush` is stdio on a descriptor that has become a client's connection |
| `Multicast` | Unit 8 lectures: sender, basic receiver, receiver that joins and leaves | `Member`, `Held` |
| `Services` | composes the last four | one of eighteen systems in each behaviour, those over UDP with and without loss |
| `ServicesProofs` | | theorems about `Services` |
| `BookServer` | `Lab04/additional`: client and server | the client's `Choose`, `WriteField`, `ReadReply`; the server's `ReadChoice`, `ReadField`, one action per operation and outcome; `FieldUnread` is an unchecked read at end of file |
| `BookServerProofs` | | theorems about `BookServer` |

`EmployeeStore` and `EmployeeSession` meet in two places: `ThirdClient`/`Kill`
of the one are `StartKill`/`KillChild` of the other, and a request in the one is
`ChildServe` in the other. Each looks at what it shares with the other as
something that can happen at any time, so each is checked against every
behaviour of the other.

Definitions that no next-state relation uses (`WaitForgotten`, `NoDelay`,
`CompareFolded` and so on, each with a comment naming the mistake) are faults a
programmer could have made. Putting one in place of the action or operator it
varies must make the property named in `PROJECT.json` fail.

## Runs

| Run | Instance | What it shows |
|---|---|---|
| `employee_store` | 2 children, 3 requests of any kind, one more employee, 6 slots; 257,000 states | mutual exclusion also when a holder is killed; nothing lost or made up while serving; every request answered; and, by refinement, the store looks to its clients like `EmployeeDB`, where each request takes effect in one step, displays are sorted and a removal is reported only once its records are in `dup.txt` (`ImplementsEmployeeDB`) |
| `employee_killed` | 2 requests | *violation*: the third client's arrival loses removed records (see Findings) |
| `employee_session` | 3 clients, 2 requests; 154,000 states | the broadcast ends every client however `recv` splits it, and `main` leaves no inherited descriptor open, so that the message is not the only way to see the end |
| `employee_session_pipe` | 3 clients, 1 request | *violation*: SIGPIPE ends the broadcast early (see Findings) |
| `append_server` | 4 clients, 2 of them careless; 209,000 states | the two children's appends and displays fit together; the parent's exit harms neither; clients come to an end |
| `anagram_servers` | 2 clients, 2 rounds, both servers, both pauses; 451,000 states | whatever the timing an answer is about the strings of its own round; with the pause the concurrent server always answers |
| `anagram_queued` | 2 clients, 1 round | *violation*: no pause helps a client in the iterative server's backlog (see Findings) |
| `algorithms` | strings to length 3 over `a`, `A`, `b`; data of 6, 2 and 6 bits; the arrival times of `Lab07`; 58,700 states | sort and comparison (`ComparisonRight`); the three codes; both buckets; and on every text of up to four characters over `a`, `b`, `1` and the newline that the sorts agree with each other, the fixed memory `replace_string` asks for is enough, whatever matches, while the new word is at most twice as long as the old one (longer ones overrun it, see Findings), and what it replaced can be told from the result, lines are counted as the copy loop sees them and every arrangement is printed once (`ComputationsRight`). Each behaviour runs one of them |
| `book_server` | 5 requests, 3 slots; 25,000 states | client and server stay in step, every reply agrees with what the client knows, each request on the menu is answered |
| `conversations` | 16 pairs of programs, a user on each side, up to three inputs each; 33,000 states | turns stay in step except after a word longer than the buffer, and over UDP even when a datagram is lost (`TurnsKept`); the end of one side is noticed (`EndSeen`), except by the readers of Lab03's chat (`ExitLeavesReaders`); with processes no last word is lost (`LastWordsShown`); "stop" ends both (`StopEndsBoth`) |
| `streams` | 13 request servers over TCP, 2 clients, one of which types anything and leaves anywhere; 198,000 states | each answer is to the client's own request (`AnswersOwn`), fields in step, files kept, no client ends a server of several, requests answered (`RequestsAnswered`; but not those of a student for whom no child could be made, `Unserved`), sessions end |
| `services` | 18 systems, 2 clients, 3 workers; datagrams lost or not; 226,000 states | answers to those who asked, lectures in order, and all heard up to the last given by whoever waits for it (`LecturesHeard`), descriptors given up (`ConnectionsReleased`), everyone served whom `InVain` does not name (`EveryoneServed`). A server ends in the four cases of `EndsFor` only (`ServerOutlivesClients`, about steps): Halt; a reset while stdio of the syslog daemon is full; marks that overrun the printf daemon's buffer; a line that leaves no room for the acknowledgement in the buffer of a thread |

**Bounds.** Two children are enough for the semaphore, whose code treats all
children alike, and the theorems carry mutual exclusion and removal to any
number. Three requests let two children work while a third request is in the
inbox, and an add followed by a removal gives two adjacent duplicates, the last
of them in the last place of the array in use; the added record has the
experience of another and a name that must be moved. Three clients are the
number at which `midsem` turns; four at `Lab05/quo1` leave one behind in the
backlog and one refused. Two rounds let a string of one round meet the next.
Six data bits give Hamming words on both sides of the length 8 at which a
fourth redundancy bit appears. Two data bits of CRC are the smallest that are
not one, with the full 12- and 16-bit polynomials; the flips are every pair and
every burst. Three slots with two taken reach the full array. In the
composed runs one user types anything and leaves anywhere and the other does
the same once each time, so that a well-behaved client sits beside every
misbehaving one; two inputs let a second request meet what the first left
behind, and with two connections at a time one client waits in the backlog
while the other is served. Three workers are enough for a child per client and
one more after the first has ended. `StdioCap` is the number of messages stdio
holds back, `FileCap` the length at which a file's growth is cut off, `MAXSIZE` the pieces of
text a buffer holds: a greeting is one, a mark two. Eight of them fill 90 bytes, which the fourth
connection of the printf daemon overruns if the buffer was empty at first; with six the third
does, so that three runs reach it. `Spare` is what
`replace_string` asks for beyond twice the file: 1000 in the code, here 1, which is the NUL.
`MaxRuns` bounds the requests to the website and the runs of the daemons' clients. `MaxRequests`,
`MaxSends`, `MaxTyped` and `MaxRounds` bound how much users type and nothing else.

**Fairness.** Every process that can take a step is scheduled in the end (weak
fairness of each process' steps); the programs run on an ordinary kernel and
none of them waits in a loop that another must break. The composed runs assume
less: as long as some process can go on without its user, some process does
(`WF_vars(Programs /\ said' = said)`); as these programs block for ever once
nothing more arrives, that suffices. No user has to type, leave or start
anything. `EveryRequestAnswered` needs only the weak form: with two
children the one that waits for the semaphore finds it free once the other has
run out of requests. With endlessly many requests it would need the queue of
the kernel's semaphore, about which the code says nothing.

`CHECK_DEADLOCK FALSE` is set because all programs stop: users leave, loops end,
bounds are reached.

## Proofs

`EmployeeStoreProofs`, for any set of children, any capacity of at least three,
any set of requests:

- `TypeCorrect`: `TypeOK` is not inductive: `Store` writes slot `n`, and the
  scan reads slot `i`, and only the child's place says that these are inside the
  array. `RequestFits` says, place by place, which request is served and how
  far `i` has come; the two together are inductive with mutual exclusion.
- `MutuallyExclusive`: that the semaphore is 0 exactly when some child is between
  `sem_wait` and `sem_post` and that there is at most one is inductive as it
  stands. A killed child stays there: the statement says that it keeps the
  semaphore, not that others get it.
- `RemovalCorrect`: the loop invariant `ScannedPrefix`: the records before `i`
  hold the id at most once, and `first_seen` says whether they hold it. It holds
  because only the child in the loop writes the array, which is mutual
  exclusion; a step by any other child is dealt with by `RemovalFrame`.
- `NothingEverLost`: while the server accepts clients, each record is in the
  database, in `dup.txt` and in live children's buffers together as often as it
  was stored. `NothingLost` says so of the records that occur; the invariant
  `RecordsKept` says it of every record, that no child has been killed, and that
  the places in the buffers are a finite set, so that they can be counted. An add
  writes behind the last record only because the count it has read is still the
  count (`CountRead`, which is mutual exclusion again). The steps that move
  records rest on lemmas about occurrences in a sequence to which a record is
  appended, or from which one is removed, and about the buffers' places when one
  buffer grows or is flushed. They count by bijections, not by induction.
- `Refines`: the store implements `EmployeeDB`. Each child's step maps to the abstract
  step or to none: `Recv` is `Call`; `Store` is `Add`; getting the semaphore is
  `RemoveDuplicates` or `TakeSnapshot`; `CloseFile` is `SaveDuplicates`; `Send` is
  `Return`; all others are hidden (`StepMaps` puts the cases together). The mapping
  counts a removal as done when it gets the semaphore, so each iteration of its loop must
  leave "what is removed so far, followed by what `Duplicates` still finds"
  alone: `DuplicateOut` shows that the record shifted out is the first of the remaining
  duplicates, and that the rest is deduplicated as before. It needs `ScannedPrefix`
  and, from `ProgressOf`, that `first_seen` means an earlier record with the id. A
  display is answered from a copy that `ProgressOf` relates to the array while it
  is made. That the answer is sorted is `BubbleSortSorts`: a pass carries a last
  record behind all others of its range (`PassSettles`), what lies behind that range stays
  (`Settled`), and each swap permutes (`SameSize`, `SwapKeeps`). `EmployeeDB` says what
  deduplicating and sorting are by the positions kept and by counting (`Kept`,
  `Pick`, `IsSortedReport`); the lemmas about `Nth` and `Pick` relate that to
  the loops. The sort's loops are recursive functions over their pass number, for
  which the induction of `NaturalsInduction` is not usable; the proof takes a
  run of either loop as a function from numbers to sequences (`IsRun`). That there is one
  (`RunExists`), that the recursive function is it (`RunIsRecursion`) and what it does
  (`PassCarries`, `BubbleSortSorts`) follow from a least counterexample (`Least`).

`EmployeeSessionProofs`, for any clients and any bound on the requests:

- `AlwaysSafe`: that no descriptor is open after `main` has returned rests on what the
  loops have done. `ParentOK`: how `client_sockets[]`, `active_clients` and the loop
  index fit together at each place of `main`. `HoldersOK`: descriptors are held by
  the parent and by running children only, and the client of a running child is
  among the first `active_clients` of the array. `KilledOK`: behind the index of
  the kill loop nobody runs. When the loop is over nobody does.

`AlgorithmsProofs`, for any clients, words and number of rounds of Lab05/quo2:

- `ConversationAlwaysSafe`: that an answer is about its round speaks of the moment it
  is shown. `RoundOK` says, for each place of a client, what is under way in both
  directions and what the server has read of the round: nothing, the first
  string, both strings run together, or both apart. `QueueOK`: a client is in the
  backlog once and only before it is served. `SeparateOK`: with the long pause
  the concurrent server finds one string at a time.

for strings of any length over any characters:

- `ComparisonAlwaysRight`: the selection sort of `sort_string` is followed through its
  two indices: the places passed are final (`SortedPrefix`), the place being
  filled holds the least so far (`LeastSoFar`), each swap is a permutation
  (`SwapPermutes`). That a verdict "different" is right needs the converse:
  two sorted strings with the same characters are equal (`NoneSmaller`, by matching their
  places one to one), up to letters that occur in both cases, which is the
  code's flaw and a premise of the statement.

for data of any length:

- `ParityAlwaysNoticesOdd`: flipping the bits in a set changes the number of ones by
  that of the set, up to an even number (`FlippedParity`, by matching flipped ones and
  zeros one to one), and a frame is even, or odd, as chosen (`ParityFrame`).
- `HammingAlwaysCorrectsOne`: client and server arrive at the same number of
  redundancy bits although one looks for it among the data's length and the other
  among the word's (`BitsAgree`). In a word as sent every parity is even
  (`FrameIsEven`: the parity bit of one group is in no other group); a flipped bit `k`
  makes odd exactly the parities of the groups that cover `k` (`FlippedParityOver`), and
  the powers of two added up for them are `k` again (`Positions`), because the binary
  digits of a number determine it (`SameDigits`). Two flipped bits differ in a digit.
  `TwoTo` is a recursive function; what is needed of it follows from its equation
  (`TwoToIs`), established by a least counterexample (`Lowest`), as are sums and positions.

and for all arrival times in order and all sizes and rates:

- `BucketCorrect`, `OutputIsBounded`: the bound on what the bucket lets through
  is not inductive, since it forgets what is still in the bucket. `Retained` keeps it:
  what was accepted since packet `j`, less what has leaked since, is in the
  bucket. A leak lowers the content by at most what it adds to the allowance
  (`AllowanceGrows`); acceptance adds the same to both.
- `TokensCorrect`: inductive as it stands.

`AppendServerProofs`, for any finite set of clients (`ClientAssumption`) other
than the file's first string and the empty buffer (`NamesAssumption`):

- `Invariant`: five facts and the types are inductive together. `QueueOK`: a client is in the backlog once,
  and only before it is served, so no client gets two children. `ChildOK`: what
  a child has read and shown at each of its places. `CountOK`: served children
  are no more than the connections the parent has counted, and nobody is told to
  terminate while it accepts. `FileOK`: the strings in the file are, one each,
  those of the children that have appended. `ShownOK`: what a child has shown is
  a beginning of the file that holds its own string.
- `FileStaysIntact`, `ServedStay`, `TypesKept` follow: each speaks of several children
  or of the whole file, which no step mentions, so neither is inductive alone.

`BookServerProofs`, for every capacity, all books and any number of requests:

- `AlwaysInStep`: `FieldsInStep` looks at the first field on the connection only.
  `Protocol` says, for each place of the server, what all of the connection
  holds: the number of an operation and the fields sent of it so far
  (`ChoiceOK`), the fields from the one awaited on (`ReadingOK`), nothing
  (`ServeOK`). It covers the client that leaves in the middle of a request, after
  which the server reads whatever the fields still held, and finishes.
- `RepliesAlwaysAgree`: `RepliesAgree` compares a reply under way with what the client
  remembers, so the invariant (`RInv`) says what the client remembers: the books the
  server lists, in their order, as soon as it has read the reply under way (`ShelfOK`),
  and that the values the server has read are the ones the client sent
  (`ValuesOK`, which `Protocol` does not need). Both sides pick from a sequence, the
  server from its array with deleted slots, the client from its list: the lemmas
  about `Picked` say that picking twice is picking once (`PickedTwice`), that deleting the
  first match in the array deletes the first match in the list
  (`PickedWithout`), and that there is a match in one if and only if there is one in the
  other (`PickedHas`). They are about a recursive function over the length, whose
  value is taken as that of any function with its equation (`PickedIs`).

`ServicesProofs`, for any numbers of clients, workers, connections and runs, whichever of
the modelled inputs users type, all eighteen systems together:

- `AlwaysReleased`: that nobody waits with a connection open is not inductive, because
  another task may hold a copy of the descriptor. `HeldServed`: every task that
  holds the server's end of a connection has a process or a thread that works on it
  and is at a place where it still will close it. It needs that a process is its
  own task in all systems but the one with threads (`OwnTask`). Each kernel call
  has a lemma about the ends it opens and closes; each program is a list of calls.
- `LecturesAlwaysInOrder`: to the order of what is shown the invariant adds that of what
  waits at the socket, that all of it is later than what is shown, and that
  nothing is later than what the lecturer has sent.
- `ServerAlwaysOutlivesClients`: every step that ends a server is one of the four cases of
  `EndsFor`. A server ends when a client has it told
  to (`Halt`), when it sends on a connection that is reset, which raises SIGPIPE, or when a
  buffer of 90 bytes is overrun. `LivesOutlive` says so of a step from a state of the
  invariant (`LivesInv`). A reset needs a client that is gone and a send that it has not
  read, so the invariant is about how much a server may still send. The eighteen systems
  fall into four kinds. `SteadyInv`: no call of the server can end it, because it only
  receives and sends datagrams or leaves connections to its children, and a client's
  call never touches the server's task. `PalindromesInv`: until somebody types Halt, no
  datagram that waits and no request that the server holds says it. `DaemonInv`: an end on which the
  server has sent nothing is not reset, and a daemon sends once on a connection;
  the syslog daemon sends twice only when what stdio held back goes out first, which
  is no more than what it has logged: so the second send, on a reset
  connection, is possible only when `StdioCap` connections have been logged
  (`StdioFull`); and the printf daemon is at its overrun only with a text longer than the
  buffer (`Marked`). `ThreadsInv`: a client and its thread take turns; while a request waits
  or is being answered, the client has read all that it was sent, so a thread never
  answers on a connection that is reset. Until somebody types `Long`, every line that is
  typed, under way or held by a thread leaves room in the buffer (`SaidFrom`, `Asked`,
  `Short`), so no thread comes to the overrun, and the process that all threads share lives
  on; afterwards nothing is claimed (`Typed` never turns false again).
  The proof takes each kernel call once (`Gentle`: what a client's call can do to the
  connections), then lists each program's calls. It assumes that those who may leave are
  clients (`VariedAssumption`) and that the resolver's own socket is not one (`ServerAssumption`).
  `accept` and `pthread_create` succeed in the model, no input is longer than those it lists, and
  memory is there: of a server for which one of these fails the theorem says nothing.

`StreamServersProofs`, for any numbers of clients, workers and connections, whichever of the
modelled inputs users type:

- `ServerAlwaysStaysUp`: the servers that serve several clients end only when they
  send on a connection that is reset, so the invariant (`LivesInv`) says why they never do, in
  three ways. `StudentsInv`: the student server leaves every answer to a child, and none of its own
  calls can end it. `JudgesInv`: an end on which the server has sent nothing is not reset
  (`Fresh`); the servers of Lab06 send once on a connection, and nothing has been sent on those in
  the backlog. `CalcInv`: the calculator sends again and again on one connection, but in turn with
  its client (`Link`): while a request waits or is answered (`Answering`) the client has read all
  it was sent. That a client that is about to send finds its connection so (`Calm`) holds
  at each of its places, also when it reads nothing because the server has closed
  (`ClientTalks`). Ctrl-C at its own terminal is the premise (`Stopped`): there the
  invariant ends. What a client's call can do to the connections is said once
  (`Gentle`) and used for both kinds. As in `Services`, those who may leave are
  clients (`VariedAssumption`).

`ConversationsProofs`, for any number of inputs and connections, of the chat of Lab03:

- `ReadersStay`: a reader ends when the other end is closed or reset, so the
  invariant (`ChatInv`) is about the connection: both ends are held by somebody,
  and nothing resets it. At the server's end it is the kernel until `accept`, then the
  parent, and after `fork` the child too, which keeps it when the parent exits;
  the listening socket is inherited in the same way, or its closing would end
  the connection in the backlog. Ctrl-C is the premise: the invariant stops there.

and of the programs that take turns:

- `TurnsAlwaysKept`: three statements. That an answer belongs to the words before it,
  and that the two sides never both read with nothing on its way, follow from `TurnInv`,
  which is about all five systems, over a connection or over datagrams: at most one message is under way, and the places of the two
  programs tell which. `Asks`: the client has the answer to its last words and nothing
  is under way; `IsAsked`: its words are; `Answers`: the server has them; `HasAnswered`:
  the answer is under way; `Lost`: a datagram was dropped, and the two wait for
  ever; `Learnt`: the client has read the answer. The proof takes each of these
  turns once (`ServerHears`, `ClientSends` ...), then says what the calls do to a
  connection or to the mail, then lists each program's calls. Over TCP the
  invariant adds that both ends of the one connection are held by their programs
  alone and nothing resets it (`Wired`). A word longer than the buffer breaks the turns, not
  the connection; of such a conversation `TurnInv` keeps only that one of two readers has
  something to read (`Moving`). After Ctrl-C it says nothing, as does the property.
- For the echo, `EchoInv`: the datagrams the server has read or has yet to read are
  no more than the client has sent, and those the client has read or has yet to
  read, with the echo the server still owes, no more than the server has read and
  its user has typed. The client sends, and awaits, one more than its line has characters;
  so at the end the server has read one of two numbers.

Assumptions are the named ASSUMEs of the modules, which TLC evaluates in the runs. The
names of processes are assumed to be different and to be among `Procs`
(`ClientsAssumption`, `WorkersAssumption`, `ServerAssumption`, `ChatAssumption`).

Model-checked only:

- everything under fairness (`EveryRequestAnswered`, `BroadcastEndsAll`,
  `EveryClientEnds`, `RoundsAnswered` and so on), which is beyond the prover;
- `CrcNoticesErrors`: that two flipped bits are noticed is true only of frames shorter
  than the order of the polynomial, so there is no theorem for every length, and the
  division is a recursion over two arguments;
- `ComputationsRight`: each part compares two recursive computations of the same thing;
- three invariants of `StreamServers` (`AnswersOwn`, `FieldsInStep`, `FilesKept`)
  and one of `Services` (`AnswersOwn`). They are
  within the prover's reach in the manner of `TurnInv`: what is under way, place by
  place, for each of the thirteen and eighteen systems. They are not written.

## Findings

1. `midsem/server.c:170`: removed records are in the child's stdio buffer until
   `fclose` (85), after `sem_post`. When a third client connects in between, the
   parent kills the child and they are in neither the database nor `dup.txt`,
   where `midsem/quo.md:5` says they are stored. Run `employee_killed`.
2. `midsem/server.c:165`: the broadcast also goes to clients that have left. If
   the connection was reset, `send` raises SIGPIPE and the parent dies before it
   has reached the others, whom `midsem/quo.md:9` promises the message. Run
   `employee_session_pipe`.
3. `Lab05/quo2/client.c:50`: the "small delay to ensure separate packets/reads"
   does not separate the reads of a client that waits in the iterative server's
   backlog: the server reads both strings at once and then waits for a second
   one, the client for its answer. Run `anagram_queued`.

Also seen, and part of the models, but stated by no property:

- `active_clients` is never lowered, so the third connection ever made ends the
  `midsem` server, although it prints "More than 2 clients connected"
  (`midsem/server.c:163`).
- A second request that arrives with the first in one `recv` is dropped unanswered
  (`midsem/server.c:36`). The abstract database takes no step for it, so its refinement does not
  object; `EveryRequestAnswered` is about the requests that are handled.
- The child of `Lab05/quo1` never sends the file back (`server.c:108-115`), which
  its client waits for (`client.c:61`) and `guide.md:50` announces: a served
  client always reads "closed by server".
- An empty line leaves that client and its child both reading
  (`Lab05/quo1/client.c:49-54`).
- `aA` and `Aa` are not anagrams: the sort ignores case and keeps them as they
  are, the comparison does not (`concurrent_server.c:24,41`).
- The readers of Lab03's chat outlive `exit`: the writer's process ends, the
  child still holds the socket, and the two children read from each other for
  ever (`Lab03/quo1/server.c:95`; `ExitLeavesReaders` says that only Ctrl-C ends one).
- A word of the TCP conversation that is longer than the other side's buffer is
  read over several turns; every answer after it belongs to an earlier turn
  (`TurnsKept` names it as the only way out of step).
- The echo server of Lab01 takes the number of echoes from a buffer nobody wrote
  (`Lab01/udp_server.c:43`).
- A client of `Lab02/files` that leaves before it has sent the words of a
  replacement has the server replace all the same (`FilesKept`, `BrokenOff`).
- A CRC client of Lab06 that waits in the backlog sends generator and frame before
  either is read; one `recv` returns both, and the server waits for a frame and the
  client for a verdict, whatever "Sleep briefly to ensure separation"
  (`Lab06/quo2/client.c:126`) waits (`Merged` in `RequestsAnswered`).
- When a service of the super-server ends, `select` returns -1 with the descriptor
  set as it was, and `accept` waits at a port nobody called
  (`super_server.c:52-56`; `InVain`).
- The syslog daemon closes its standard output, so that a connection is given that
  descriptor: what `printf` held back is sent to a client in front of its answer, and,
  if that client has left, SIGPIPE ends the daemon. The printf daemon never clears its
  buffer, so that each answer ends in those before it, and the fourth mark at the latest is
  written past its 90 bytes (`server_daemon.c:35,59`).
- A line of up to 89 characters gets `" (Server Ack)"` appended in a buffer of 90, on the stack of
  a process that all clients' threads share (`con_server_thread.c:33`): one client's line can
  end the server for all. In `concurrent_server.c:71` the same ends the child only
  (`Overrun`; two of the four cases of `EndsFor`).
- `replace_string` of `Lab02/quo1/tcp_server.c:60-62` asks for `fsize * 2 + 1000` characters,
  "allocating enough space safely", without counting the matches. That is enough for every file
  only while the new word is at most twice as long as the old one (`ComputationsRight`);
  a hundred characters in place of each of a hundred letters overrun it.
- When `fork` fails, the student server over TCP keeps the connection open and serves nobody on it
  (`Lab04/quo1/tcp/server.c:81-83`): that client waits for ever (`Unserved` in
  `RequestsAnswered`). Its twin over UDP forgets the request (`udp/server.c:56`).
- The local DNS server receives three answers over one another into a buffer that
  nothing terminates (`local_dns.c:18`): the client may be shown the end of an older one.
- `Full-duplex_with_linux_thread_server.c:34` has a quotation mark inside a string
  and does not compile; it is modelled as its client, with the comparison it means.
- For a number that is not on the menu the book server answers nothing, and the
  client reads for ever (`Lab04/additional/client.c:116`); the slots of deleted books are
  never used again, so that after `MAX_BOOKS` insertions the server is full however few it lists
  (`server.c:99`). No property is about either.

## Abstractions

Strings are model values, ranks or short sequences of characters, where only
their identity, order or characters matter. In `AppendServer`, `EmployeeSession` and
`AnagramConversation` TCP is a sequence per direction from which a read takes
any prefix. In `Sockets` it carries segments: a message the programs may read in
parts is several, a value of fixed size that crosses the loopback interface
whole is one (the fields of `BookServer` likewise), and a read returns any run
of segments that has arrived and fits the buffer. To send to an end that is
closed brings a reset back, to send after that raises SIGPIPE; unread data turn
an end of stream into a reset. Datagrams keep their boundaries and their order
at one socket, and may be lost where a system is lossy.

Failing system calls are modelled where the code goes on after them (`fork` in
Lab03's pair, Lab04's student servers, Lab05, the website server, the concurrent servers and the super-server; a
missing `database.txt`, `send` and `recv` on a reset connection, an unchecked read at end of
file, an interrupted `select`), not where it exits at once (`socket`, `bind`,
`listen`). The forks of `midsem`, of the chats and of a website client's browser succeed
(`midsem/server.c:179-180` would keep -1 as a child's pid, which the kill loop then passes to
`kill`). That `accept`, `malloc` and `pthread_create` fail is not modelled, nor is that children
which nobody waits for stay in the process table until `fork` fails for their number: the model
uses the name of an ended process again, and lets any `fork` fail instead. Undefined behaviour is a choice where its outcomes are confined
(uninitialised fields and buffers; a text a few bytes longer than its buffer of 90, after which
the program goes on, ends, or has lost its descriptors) and cut off where they are not: a write past
`MAX_EMP`, a midsem report longer than its buffer, a replaced text longer than its memory. Users end programs with Ctrl-C; the end of the keyboard's
input (`fgets` returning NULL) is not modelled. A connect's five-second timeout
never passes on one machine. Multicast receivers run on hosts of their own.
The lines mapped for a program begin at its first socket call whose effect is
not settled before others can see it: creating and binding sockets is in `Init`.

## Not modelled

- The raw-socket programs, socket options, dual stack and lingering of Units 7 and 8:
  they lay out packets or set and print what the kernel keeps; there is no
  state of the program to be wrong about.
- The demonstrations of Unit 5, `Lab03/process` and the `exec` programs: one
  process that prints what a call returns.
- `unp.h` (third party), documents and copies of system files.
- The start-up of the daemons, `Daemon_TCP-server_Linux.c` and its Windows twin: the
  same loop as the printf daemon's, with no more state. The `poll` pair of Unit 7
  does what the `select` pair does. The daemon of `super-script` is a copy of the
  first syslog daemon.
- The browser that the client of the website server starts.

## Plan

Done: 1. `EmployeeStore` with its refinement of `EmployeeDB` and proofs, `EmployeeSession`;
2. the Lab05 programs; 3. Lab06 as algorithms, Lab07; 4. the book server;
5. `Sockets` and the conversations; 6. the request servers over TCP, with the transport
of Lab06; 7. datagrams, name servers, concurrent servers, daemons, multicast.

8. theorems about the replies of the book server, the codes of Lab06, the turn taking and the servers
that outlive their clients.

Left: theorems about the requests over TCP (`FieldsInStep`, `AnswersOwn`), place by place
as for the conversations.
