# A TLA+ model of the networking labs

The repository holds the seven labs of a second-year networking course: small
WinSock programs in C++, each lab a client and a server.  This project models
what those programs do to each other over the network.  It starts with lab 7, the
only lab with several concurrent clients, buffers on both sides and an
event-driven server, and goes on to the smaller labs.

## 1. Inventory

| Part | Source | State | Operations | Talks to |
|---|---|---|---|---|
| lab 7 client | `7/client/client/client.cpp` | `connected`, `send_buf`/`send_count`, `recv_buf`/`recv_count`, one non-blocking socket | keys (`C`, letters, Esc), `WM_DESTROY`, `WM_SOCKET`, `sendMessage`, `tryToWrite`, `tryToRead`, `processMessage` | WinSock by calls; WinSock calls back by posting `WM_SOCKET` to its window |
| lab 7 server | `7/server/server/server.cpp` | list `clients` of `Client` objects, each with a socket and two buffers | `addClientToList`, `doRead`, `doWrite`, `setClose`, `getClose`, `removeClient`, Esc, `WM_DESTROY` | the same |
| lab 7 protocol | `7/*/protocol.h` | `NetMessage`: 1 type byte and 4 more | – | both programs |
| lab 7 utilities | `7/*/utils.{h,cpp}` | – | `die`, `startWinSock`, window registration, console placement, drawing | both programs |
| lab 2 | `2/{client,server}` | one connection, one 40-byte buffer each | blocking greeting and echo, one client at a time | TCP |
| lab 3, size first | `3/SendSizeOfFileFirst` | one connection | the length, as text, then the line; the length is acknowledged | TCP |
| lab 3, delimiter | `3/SendDeliminatingCharacter` | one connection | a line in 40-byte chunks, the last holds `\|` | TCP |
| lab 4 | `4/{client,server}` | one 40-byte buffer each | echo over datagrams; the client drops one in ten | UDP |
| lab 5 | `5/{client,server}` | list of at most five clients, two flags each | `select()` loop: accept, welcome or deny, read and echo | TCP |
| lab 6 | `6/{client,server,SharedFiles}` | a player's position | a position every second, echoed | UDP |
| project files | `*.sln`, `*.vcxproj*`, `.gitignore`, `*.txt`, `3/Questions` | – | – | – |

What is hard about them, and what makes them correct:

* **Byte streams are cut anywhere.**  A `NetMessage` of lab 7 may leave by two
  calls of `send()` and arrive by three of `recv()`.  Correct: the server
  processes the messages that the keys made, whole, once and in order, and no
  byte is dropped or left waiting for an event that never comes.
* **Events are posted, and handled later.**  By the time `FD_ACCEPT`, `FD_READ`,
  `FD_WRITE` or `FD_CLOSE` is dispatched, the socket may have been closed or
  reset, or its client may have been removed from the list.  Correct: no handler
  works for a client that is not listed, an orderly close loses nothing, and the
  server aborts only for a client that vanished or that left before it had its
  welcome.
* **Either process may stop at any point**, in an orderly way or not: Esc, the
  window's close box, `die()`.  Correct: the other side gets to know, and a client
  that is gone leaves the list.
* **Buffers are bounded.**  A hundred messages in each `send_buf`, whatever TCP
  holds in between, a backlog of one connection.
* **One process, no threads.**  Within a program handlers never overlap; the
  interleavings are between programs, users and the network.
* **Labs 2 to 6 block.**  Their clients and servers wait in `recv`, `recvfrom` or
  `select` for the other side; what can go wrong is everybody waiting
  (a lost datagram, a message the server never answers), a message that comes in
  pieces, and a peer that goes away.

`PROJECT.json` lists the hazards, each at its line, with the properties that are
aimed at it.

## 2. Plan

| Step | Modules | State |
|---|---|---|
| 1. lab 7, the only lab with several clients, events and buffers | `AsyncNet`, `AsyncClient`, `AsyncServer`, composed by `AsyncLab`; abstract specification `KeyStream` | modelled, checked, proved |
| 2. lab 4, echo over datagrams | `DatagramNet`, `UdpEcho`; abstract specification `EchoService` | modelled, checked, proved |
| 3. lab 2, echo over blocking TCP | `TcpNet`, `TcpEcho`; again `EchoService` | modelled, checked, proved |
| 4. lab 3, size first | `SizeFirst` over `TcpNet` | modelled, checked, proved |
| 5. lab 5, `select()` | `SelectLab` over `TcpNet` | modelled, checked, two theorems |
| 6. lab 3, delimiter | `Delimiter` over `TcpNet`; again `EchoService` | modelled, checked, proved |
| 7. lab 6, positions | `Positions` over `DatagramNet` | modelled, checked, proved |
| 8. proofs for both halves of lab 3 | `TcpNet_proofs`, what the network keeps whatever the programs do; on it `SizeFirst_proofs` and `Delimiter_proofs` | done |
| 9. more proofs for lab 7 | the rest of its safety properties, from invariants about the order of the messages in `srvQ` and about the downward stream | done |

Labs 2, 3 and 5 use the same blocking calls, so one module, `TcpNet`, is their
network; labs 4 and 6 share `DatagramNet` in the same way.  `KeyStream` and
`EchoService` are the two abstract specifications: what a lab promises when
sockets, buffers and queues are forgotten.

## 3. The modules and the code

Common conventions.  A client program opens one socket and ends when it is done
with it, so one name `c` in `Clients` stands for a run of the client program, for
its socket, and for the server's socket of the same connection.  Bytes are not
characters: a byte is named by its place in the stream that it belongs to, so that
a byte that is lost, repeated or out of order can be seen.  The *history*
variables (marked in the modules) are read by properties, and by guards only to
bound a run.  Definitions whose comment says *mutant* are what a plausible mistake
in the code would make of the definition below; no specification uses them.

### Lab 7: `AsyncNet`, `AsyncClient`, `AsyncServer`, `AsyncLab`

| Model | Code |
|---|---|
| `send_buf`, `recv_buf` (client), `send_buf_`, `recv_buf_` (server) | the filled part of the buffers with the same names; `Len` is the count next to each |
| `connected`, `pc` | `connected`; whether the client is in `GetMessage()`, in `tryToRead()`'s loop or in `tryToWrite()`'s |
| `clients` | the list of `Client *`, by their sockets |
| `sockets` | the sockets that the server process holds open, listed or not |
| `srvQ`, `cliQ` | the `WM_SOCKET` messages posted and not dispatched |
| `tcp`, `rst`, `up`, `down`, `backlog`, `fdClose` | TCP: state of the connection, whether it was reset and why (`ResetCause`), the bytes under way, pending connections, sockets whose `FD_CLOSE` was posted |
| `PressC`, `PressLetter`, `PressEscape`, `CloseWindow` | `WM_KEYDOWN` and `WM_DESTROY` of the client's `windowProc` |
| `SocketMessage`, `TryToRead`, `TryToWrite`, `Quit` | `WM_SOCKET`; one `recv()` or `send()` of each loop; the end of `WinMain` |
| `OnError`, `OnAccept`, `OnRead`, `OnWrite`, `OnClose`, `OnStray`, `ServerUser`, `ServerQuit` | the branches of the server's `windowProc` for `WM_SOCKET`, its keys, the end of `WinMain` |
| `Establish`, `Refuse`, `ResetArrives` | WinSock, from how the programs use it |

A server handler makes at most one socket call, so it is one step.  The loops of
the client make several, with the network and the server running between them, so
each call is a step.  `WSAAsyncSelect` posts an event once and posts it again only
after the call that re-enables it (`Post`).  The documentation of `FD_CLOSE` does
not say that it waits for the data before it, so the constant `EagerClose` chooses
between both.  After Esc the messages that are already posted are still
dispatched (`quitting`); after the window is destroyed they are not
(`destroyed`).  A process that ends without `closesocket()` resets its
connection (`"client"`, `"server"`).  So does a client that closes its socket in order
with the welcome unread, or before the welcome reaches it (`"unread"`): the server is
told of it by an `FD_CLOSE` with an error, and aborts at `server.cpp:346-350`.  The client's mask at `client.cpp:92` leaves out `FD_WRITE`, so no such
message is ever posted to it.

`KeyStream` keeps `sent`, `got` and the list: members join once, leave, send, and
are delivered their messages in order.  `AsyncLab!ImplementsKeyStream` maps them to
`sent`, `got` and `clients`.

### Lab 4: `DatagramNet`, `UdpEcho`

`net` is the set of datagrams on their way, `bound` the sockets that have a port,
`unreachable` those whose next `recvfrom()` may fail because a datagram of theirs
bounced.  Constants choose whether the network loses (`Lossy`) or duplicates
(`Duplicating`), and whether users close consoles (`Kills`); any order of delivery
is always possible.  `TypeLine` is the client up to `sendto()`, its own loss of
one line in ten included; `ShowAnswer` and `ClientDies` are its `recvfrom()`.
`Echo` and `EchoAfterError` are the server's loop: after an error `count` is -1, and
`fwrite()` of that many bytes either crashes the process or returns, whereupon
`last`, the old buffer and the old address, is sent.  The `memcpy()` of a line
longer than the buffer is not modelled: lines are taken to fit.

`EchoService`: a client asks, and is answered, one line at a time, and not after
the answer that was `quit`.

### Lab 2: `TcpNet`, `TcpEcho`

`TcpNet` has the ends of each connection (`cli`, `srv`), the bytes in both
directions and the connections that have been reset; its calls are those of the
programs: `Listen`, `Connect`, `AcceptAndSend`, `RecvCount`, `CloseClient`, and the
end of either process.  TCP may hand over the bytes of the clients in `Cut` in
pieces of any size; those of the others come as they were sent.
`ReadHello` is the client's first `recv()`: its result is not looked at, so with
less than `HelloSize` bytes the rest of an uninitialised buffer decides whether the
comparison with `hello` succeeds, and both outcomes are possible.  `socket()` is
given -1 for a protocol, so `StartClient` may also die.  `ReadAnswer` prints
whatever comes, `Serve` is one iteration of the server's inner loop, and ends the
server if a message comes in pieces.

### Lab 3, size first: `SizeFirst`

`2n` names a byte of the header of the n-th line, `2n+1` a byte of its text.
`SendHeader` sends `sizeof(int)` bytes, the number as text; `FreeHeader` is what
`free()` may notice of the buffer of `line.size()` bytes that the digits and the
`\0` were written to.  A number of `sizeof(int)` digits or more leaves no room for
the `\0`, so `atoi()` goes on behind the buffer: `Number` gives all that it may
return.  `ReadText` does not look at the result of `recv()`, and -1 makes
`fwrite()` crash or print rubbish, which `printed` records (`Rubbish`).  The server
looks for `quit` where the client writes a number: what it would find there are the
bytes of a text, if it ever took one for a header, and `quits` holds the lines for
which it would certainly do so (`MustBeQuit`, `MayBeQuit`).  The word has the size of a
header.

### Lab 3, with a delimiter: `Delimiter`

`4n + kind` names a byte of the n-th line of a client, where the kind tells text,
the `q` of a text that starts with `quit`, a bar and a `\0` apart; 0 to 3 are bytes
that nobody wrote.  `Chunk` is the arithmetic of the client's loop: each chunk takes
one byte less than `MESSAGESIZE` of the line and ends in a `\0`.  `SendChunk` is one
round of that loop, which ends with the first chunk that holds a bar, be it one that
the user typed.  The server's `buffer` has one cell more than the code's array, for
the memory that is read when it holds no `\0`; `Filled` overwrites as much of it as
`recv()` brings, and `Accept` leaves it uninitialised (`Junk`).  `Serve` is one
`recv()` with all that follows it.  When the connection has ended, `recv()` returns 0
and leaves the buffer alone: with a bar in it the loop ends, and otherwise the server
goes round it for ever, which is a step that changes nothing and so no step at all.

The server sends back what the buffer holds when the bar has come.  Of a long line
that is the last chunk, although `server.cpp:4` speaks of "anything it receives".  The
run `delim_long` shows that disagreement; what the lab does implement
(`ImplementsTailEcho`) is `EchoService` for the last chunks of the lines.

### Lab 6: `Positions`

`x` is `player.x` of each client, `seen` that of `recievedMsg`; `y` is always twice
`x` and is left out.  `Move` is the client up to `sendto()`, `Receive` and
`ReceiveFails` its `recvfrom()`, whose result it does not look at, with the end of
the round: the loop looks for `quit` in a buffer that is never written, so it ends
after the first round or never (`EndOfRound`).  `ServerReceive`,
`ServerReceiveFails` and `Answer` are the server's loop; it may be closed between
two of them, and started again.  A program that is closed takes with it what
its socket holds (`gone`), of which no ICMP message tells; `dropped` remembers the
clients that this happened to.  `last` stands for `player` and `fromAddr`, which is
declared in the loop but keeps its place in memory from round to round.

When an answered client is gone, the next `recvfrom()` of the server fails and an old
position goes to an old address.  If that is a client that is still there, it takes
it for the answer to its next position, and shows every later one a move late.  If it
is the one that is gone, the answer bounces again, and so on until another position
comes in.

### Lab 5: `SelectLab`

The server's loop is `Select` (the set it builds, and what `select()` leaves in
it), `Accept`, one `ReadClient` per ready client, `ReadAgain` (the second call of
`doRead()` when the first returned true, be it because `send()` failed) and `NextSelect`.  `reading` holds the clients
whose flag `read` is set.  `ReadClient` and `ReadAgain` never happen, for the reason
that the finding gives, and they are modelled nevertheless, since they are in the
code.  A client that is denied keeps its socket, as in the code.

## 4. What the runs check

Passing runs:

| Run | Instance | What it shows |
|---|---|---|
| `async_pair` | lab 7, two clients, messages of one byte, one slot in each send buffer, a backlog of one, one key each, fair | when the server aborts, the client whose error or connection it is handling vanished, or closed its socket before it had its welcome (`ServerDiesOfReset`); its handlers are only called for clients in the list (`NoStrayMessages`); who leaves in order has been read to the end (`LeavesDrained`); `WelcomeArrives`, `ServerDrains`, `ClosedClientsLeave`; a client that quits comes to an end (`QuittersEnd`) |
| `async_stream` | lab 7, one client, four keys, buffers of two messages, three bytes inside TCP, `FD_CLOSE` may overtake data | no buffer overrun and no `recv()` of zero bytes (`BuffersBounded`), a client shows nothing but the one welcome, whole (`OnlyWelcome`), `KeypressesInOrder`, `NothingLost`, a readable byte always has an `FD_READ` coming (`ReadsAnnounced`), `ImplementsKeyStream` |
| `udp_steady` | lab 4, two clients, three lines each, nothing lost or duplicated, no console closed, fair | the k-th answer is to the k-th line (`InStep`), every echo finds its client waiting (`EchoesAwaited`), `ImplementsEcho`, `SentIsAnswered` |
| `udp_storm` | lab 4, two clients, two lines each, everything lost, duplicated, killed | a client prints only its own lines and exits only after `quit` (`OwnAnswers`) |
| `tcp_lines` | lab 2, two clients, one of which is cut, three-byte messages, two lines each, fair | what comes back is what was sent (`EchoKept`), no mutual wait, `ExitsAfterQuit`, `AnswerComes`, and for the client that is not cut `ImplementsEcho` |
| `size_lines` | lab 3, two clients, two lines each, of 0 to 3 bytes for one client, of 0 or 2 and then 9 for the other, headers of two bytes with ternary digits, fair | short lines are printed whole, in order and once, and all else is the rubbish of one failed `recv()` after a reset (`LinesPrinted`); a text is never taken for a header, nor the other way round (`HeadersInStep`); `NoMutualWait` and `HeaderComesBack` |
| `delim_lines` | lab 3, two clients, one of which is cut, chunks of three bytes, two lines each of one or two chunks, with `quit` at the start of a line and of a second chunk, fair | for the client that is not cut `NoMutualWait`, `AnswerComes` and `ImplementsTailEcho`; the server notices when it goes between two lines (`GoneNoticed`) |
| `positions` | lab 6, two clients, three moves each, a server that is started twice, everything closed at any moment, fair | a client is sent only its own positions (`OwnPositions`), and as long as no client is closed only the current one (`InStep`); it waits for ever only for a position that a server took with it (`GoesOn`) |

Runs that end in a counterexample; each is a place where the code does something
else than a text of the repository says:

| Run | The text | The code |
|---|---|---|
| `async_fdwrite` | `7/client/client/client.cpp:373-374`, the rest is sent on "another FD_WRITE message" | line 92 does not ask for `FD_WRITE`: the rest of a key stays in the buffer until another key is pressed |
| `udp_stale` | `4/server/server.cpp:95`, "Send the same data back to the address it came from" | line 86 does not look at the result of `recvfrom()`: after an error an old answer goes out again |
| `select_unread` | `5/server/server.cpp:236`, "Add all of the connected clients' sockets" | line 241 adds only those that `wantRead()`, which only a socket that was added can come to do: no client is ever read |
| `delim_long` | `3/SendDeliminatingCharacter/server/server.cpp:4`, "The server repeats back anything it receives from the client" | lines 105 to 119 receive each chunk of a line over the one before: only the last goes back |

Three more places where the model, like the code, does not do what a text says are
visible in one definition each, and have no run of their own:

* `7/server/server/server.cpp:494` takes the `Client` out of the list and nobody deletes
  it, so its socket stays open, although `TutorialTCPandUDP.txt:24` says "Upon close call
  closesocket(the client socket)": `RemoveClient` changes `clients`, and nothing but the
  server's end takes a socket out of `sockets`.
* `3/SendSizeOfFileFirst/client/client.cpp:65` prompts 'Type some text ("quit" to exit)',
  and `server.cpp:112` prints "Client asked to quit"; but `server.cpp:111` compares the
  header, which is a number.  A user who types `quit` has it printed by the server and
  is asked for the next line: `SendHeader` and `ReadAck` treat the lines in `quits` like
  all others, and by `HeadersInStep` the server never sees the word in a header's place
  while lines are short.
* `3/SendSizeOfFileFirst/server/server.cpp:4` says "The server repeats back anything it
  receives from the client"; the header goes back, but the `send()` of the text, at line
  143, is commented out: `ReadText` adds nothing to `down`.

### Bounds, and why they are enough

* **Clients**: two where they interact, which they do in pairs: for the backlog, the
  list, the one buffer of the servers of labs 4 and 6, the one connection of labs 2
  and 3.  One
  where the question is about one stream.  Symmetry is used only without liveness
  properties and only where no constant distinguishes clients.
* **Bytes**: messages of two or three bytes instead of 5 or 40, so that a message can
  be cut and put together again, with capacities that are no multiples of it
  (`Cap = 3`, `MsgSize = 2`), so that both `send()` and `recv()` cut at every place.
  One byte where only the events matter (`async_pair`): what two clients do to each
  other does not depend on where a message is cut.
* **Buffers**: one or two slots instead of a hundred, so that they do fill; a third
  and fourth key then meet a full buffer, and `die()`.
* **Backlog**: 1, as in the code; in `async_pair` it is full when both connect.
* **Lines and keys** (`MaxLines`, `MaxKeys`): the bound on what users type.  Two lines
  are one whose late or missing answer can be mistaken for that of the other.
* **Lab 3**: with a header of two bytes and ternary digits, sizes 0 to 2 have a header
  with a `\0`, size 2 is that of a header, as that of `quit` is in the code, size 3
  has no `\0`, so that `atoi()` may read 3 or, with a digit from behind the buffer, 9
  (`MaxRead`), and size 9 loses a digit, so that the end of the text is read as
  headers.  `Sizes` gives each line of each user its sizes: one line of nine bytes,
  the last of its client, is what the number of states allows.
* **Lab 3, delimiter** (`SomeLines`, `SomeJunk`): with chunks of three bytes, two of
  them from the line, a line that has two bytes leaves its bar alone in the second
  chunk.  One uninitialised buffer is all text up to a bar behind it, the other an
  empty string: with the first the server sees a bar where none was sent, with the
  second it sees none.
* **Lab 6**: a client that is put a move behind shows it with its third move
  (`MaxMoves`); two starts (`MaxStarts`) give clients that were there before.
* **Lab 5**: one place, so that the second client is denied.

Deadlock is not checked (`CHECK_DEADLOCK FALSE`) because the programs do end: users
close them, they abort, and after the last line nobody types.  That nobody waits
for ever is stated by properties of its own (`NoMutualWait`, and the liveness
properties).

### Fairness

Weak fairness of what needs no human: the message loops of lab 7, the blocking
calls of the other labs when something has come, the network's own steps (a
handshake ends, a reset or an ICMP message arrives), and, in labs 4 and 7, the start
of the server.  Windows schedules runnable processes and TCP delivers; one
thing more is used: the server of lab 6 is strongly fair to each client's positions
(`SF_vars(ServerReceive(c))`), because what waits in its socket comes out in turn, even
if `recvfrom()` goes on failing in between.  Users owe nothing: no fairness for keys, lines, closing a console
or starting a program again.  Losses and duplicates of UDP are not fair either.

## 5. What is proved

The proofs hold for every number of clients and every value of the other
constants, under the named assumptions of the modules: `NetAssumption` and
`MaxKeysAssumption` (sizes are positive, TCP has room for at least one message),
`DatagramAssumption`, `EchoAssumption` and `PositionsAssumption`, `TcpAssumption` and
that of `TcpEcho` (the greeting is not empty and fits), `SizeAssumption` (digits of
any base above one, headers of any width, lines of sizes that `atoi()` may return) and `DelimiterAssumption` (a chunk has room for a byte and the `\0`).
`SelectAssumption` is a hypothesis of the two theorems about lab 5.  Every invariant
and every action property of section 4 is stated by a theorem.

* **`AsyncLab_proofs`** (`TypeCorrect`, `InOrder`, `NoneLost`, `Implements`,
  `ServerDeathExplained`, `ReadsTold`, `NoStrays`, `Drained`, `OneWelcome`, `NoOverrun`).
  The inductive invariant `LabInv` is `TypeInv /\ StreamInv /\ AcceptInv`.
  `TypeInv` adds to `TypeOK` that a living server holds the socket of each client
  in its list (`ListedOpen`), without which `OnRead` could record an `FD_CLOSE` for
  a socket it does not hold.  `StreamInv` says of each client that the messages got,
  the partial one, the bytes in TCP and those in the send buffer continue each other
  without a gap up to what was sent: the two properties about the stream follow, and
  neither is inductive alone, since a step moves bytes from one part to the next.
  `AcceptInv` says that a client still in the backlog is there once and that nothing
  has been got from it: the step that puts it in the list is then a `Join`.

  Five more invariants rest on `LabInv`, each kept by every step of the server and by
  what any other step can do to it (`OutsideEffect`).  Those about events need to know
  what stands in the server's queue and in which order (`Pending`, `Before`):

  * `KillInv`: an error is only ever queued as an `FD_CLOSE`, for a client whose
    connection it reset, and a reset for unread data leaves that data where it is
    (`UnreadInv`); the queue has at most one `FD_ACCEPT`, and only while somebody is in
    the backlog.  A second one would make `accept()` fail, and with it the server
    (`ServerDeathExplained`).
  * `ReadsInv`: `ReadsAnnounced`, and nobody is listed before the server starts
    (`ReadsTold`).
  * `CloseInv`: an `FD_CLOSE` in the queue means that nothing is left to be read, and
    stands behind all other messages of its socket; what is open and not listed was
    closed by its client.  Hence nothing comes for a socket after it left the list
    (`NoStrays`) and nothing is lost when it leaves (`Drained`).  Both are false if
    `FD_CLOSE` overtakes data, so `~EagerClose` is their hypothesis.
  * `WelcomeInv`: the lemmas about streams, used in the other direction.  A client is
    accepted once, so its downward stream is empty or the one welcome (`OneWelcome`).
  * `SizesInv`: the client's send buffer and TCP keep to their sizes; what is in the
    receive buffers is less than a message by the two stream invariants (`NoOverrun`).
* **`UdpEcho_proofs`** (`EchoTypeCorrect`, `EchoesOwn`, `AnswersInStep`, `AllAwaited`,
  `EchoImplements`).  `OwnInv` says that only typed lines go round, including the
  one in `last`, and holds in any network.  Without duplicates and closed consoles,
  `StepInv` adds that a client that waits has at most one datagram on its way, for
  its last line, and nobody else has any.  Losses are allowed.
* **`Positions_proofs`** (`PositionsTypeCorrect`, `PositionsOwn`, `PositionsInStep`).
  `OwnInv` adds to `TypeOK` and `OwnPositions` that `last`, which the server may send
  again at any time, holds a position of the client it came from; it is kept since
  players only move forwards.  `PositionsInStep` assumes that nothing is duplicated.
  `Steady`, which holds until a client is closed, says that what a client waits for is
  in one place only, on the net, with the server that answers, or lost; and that the
  server's `recvfrom()` has no error to report, so that it never sends again what it
  has sent.  Losses, with or without an ICMP message, and restarts of the server are
  allowed.
* **`TcpEcho_proofs`** (`TcpTypeCorrect`, `TcpEchoKept`, `TcpNoMutualWait`,
  `TcpExitsAfterQuit`, `TcpImplementsEcho`).  `EchoInv` is `TypeOK`, `QueueOK`
  (pending connections wait once and have not been accepted) and, for each client,
  `Good`: how the two ends and the program's place go together (`Linked`), that what
  was heard, what is coming and what is left of the stream make up the greeting and
  the echo, and that a waiting client has not had all of it (`Flows`), and why a
  connection was closed (`Reasons`).  The waiting client that has not had all of it
  is what `NoMutualWait` comes from.  For the refinement, `WholeInv` follows each
  client outside `Cut` from prompt to answer; the clients in `Cut` may do anything.
* **`TcpNet_proofs`**.  What the network of labs 2, 3 and 5 keeps whatever the programs
  over it do (`NetInv`: the queue of pending connections, and how the two ends of a
  connection go together), one lemma per call, and where the pieces of a stream lie.
  The next two modules rest on it.
* **`SizeFirst_proofs`** (`SizeTypeCorrect`, `SizeLinesPrinted`, `SizeNoMutualWait`,
  `SizeHeadersInStep`).  `SizeInv` says of each client that what was printed is right
  up to the first line whose header lacks its `\0`, but for the rubbish at the end of
  one that was reset, and, while it is in use and its lines are short (`OnTrack`), that it is in one
  of six situations (`InStep`), from `Idle` to `NextHeaderSent`, where a text and the
  header of the line after it lie behind each other in the stream: there the server's
  `recv()` must stop after the text.  None of the properties says enough to be
  inductive: they follow from what each situation has in the stream and in whose hands
  the next step is.
* **`Delimiter_proofs`** (`DelimiterTypeCorrect`, `DelimiterNoMutualWait`,
  `DelimiterImplementsTailEcho`).  `LineInv` follows each client outside `Cut` through its
  line: how many chunks it has sent and the server has read, and that the stream holds
  just those between (`Holds`).  Each chunk ends in a `\0`, so what the buffer held
  before it does not matter, not even when nobody wrote it; and the chunk that ends the
  client's loop is the first that the server sees a bar in, so that both count the same
  chunks.  The clients in `Cut` may do anything.
* **`SelectLab_proofs`** (`SelectNeverReads`, `SelectListBounded`).  Nobody is
  watched, so nobody is ready, so no flag is set: `Idle` is inductive, and what users
  send is never taken.  The counterexample of `select_unread` is therefore not one
  unlucky schedule but every one.

Only model-checked: the liveness properties, since the prover has no rules for
fairness and `ENABLED`.  They are `WelcomeArrives`, `ServerDrains`,
`ClosedClientsLeave` and `QuittersEnd` of lab 7, `SentIsAnswered` of lab 4,
`AnswerComes` of labs 2 and 3, `HeaderComesBack` and `GoneNoticed` of lab 3, and
`GoesOn` of lab 6.

## 6. What is not modelled

* Everything before a socket is shared: `WSAStartup`, errors of `bind()` and
  `listen()`, the creation of windows.
* Drawing, the text of messages, and `utils.cpp` of lab 7 but for `die()`: the console
  is opened, moved to the middle of the screen or next to the debugger, and measured
  for the window, once, before a socket exists; the five bytes of a `NetMessage` beyond
  their number and order.
* Lines longer than the 40-byte buffer of lab 4, where `memcpy()` writes behind the
  buffer.  `fgets()` cuts the lines of lab 2, lab 3 has no such limit, and lab 5 copies
  only as much as fits.
* `wantWrite()`, `doWrite()`, `setWriteReady()` of lab 5, which nobody calls.
* Project files and notes.
