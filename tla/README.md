# Verification of the Kerberos demonstration programs

The repository deploys a KDC, a server and a client in containers and runs two
client/server pairs in them: one written with the krb5 API, one with the
GSS-API. The pair with a protocol of its own is `src/application/gssapi`: the
client establishes a security context with the server, sends it one wrapped
message and verifies the signature (MIC) the server sends back. This directory
models that pair, the krb5-API pair with the reference programs it is taken
from, the recording and decoding of tokens, and the scripts that set the
containers up and test the programs in them.

Commands, from this directory: `tlc -config SessionFaults.cfg MCGssSession`
checks a run, `tlapm GssSessionProofs.tla` checks a proof module.

## 1. Inventory

| Part | State | Operations | Interacts with | What makes it correct |
|---|---|---|---|---|
| Framing: `utils.c` `read_all`, `write_all`, `send_token`, `recv_token` | offset and remaining length of one buffer, on each side | one `write(2)` / `read(2)` per loop round; length, then value | both programs call it; the kernel cuts the stream | tokens arrive whole and in order; no call leaves its buffer; the stream stays aligned |
| GSS-API client: `client.c` | context, tokens, library resources, mechanism, addresses left, token counter | arguments, connect, establishment loop, inspection of the context, message, MIC, exit | server over TCP; library; recorded tokens | success means the server has the message; everything acquired is released; it ends |
| GSS-API server: `server.c` | context handle, its by-value copy, tokens, message, resources, token counter | credentials, bind/listen/accept, establishment loop, unwrap, MIC, exit | client over TCP; library; recorded tokens | no dangling handle is used; success means signed |
| TCP connection | bytes on the way, how each end has ended | connect, read, write, close, reset | both programs | (environment) |
| GSS-API library, mechanisms | context state, number of context tokens | init/accept, wrap/unwrap, get/verify MIC | both programs | (environment) |
| Mechanism table (`utils.h`, `test_mech_*`) | none | lookup | client | an unsupported mechanism is refused |
| Recording: `record_token`, `copy-tokens.sh` | numbered files in each container and on the host | open and write a file per token; list and copy file by file | decoder | equal numbers are the same token; the newest come first; a copying in order brings all |
| krb5-API pair: `krb5-api/client.c`, `server.c` | auth context, socket, keytab | sendauth, recvauth, one `read` | KDC, each other | failures are noticed; the connected socket is the one that is used |
| Reference samples: `sclient.c`, `sserver.c` | as above, with `net_read` | sendauth, recvauth, length and text | each other | the text is read whole; a rejection is told |
| Decoder: `gssapi-parser/decoder.c` | a 2048-byte buffer | read a file, choose a parser, print | recorded tokens | a whole token is decoded with the right parser |
| `test.sh` | running servers, port 8081 | start a server detached, run a client | both pairs, KDC | "TESTS SUCCEED" only if they did |
| KDC: `init-kdc.sh`, `start.sh` | database, key versions, keytab copies | add principals, ktadd, copy | server's keytab, client's cache | the server's keytab has the current key |
| Deployment: Makefile, `create-deployment.sh`, `docker-network.sh`, `copy-binaries.sh` | containers, network, bin directories | make targets | all of the above | targets can be repeated and undone |
| `test.c`, images, codec build | none | print a table; static files | - | not modelled |

The behaviours that are hard here:

* *Two processes and a kernel between them.* Either may be ahead of the other by
  several tokens, or be gone. With a mechanism of one context token the client
  sends the message before the server has accepted anything.
* *Partial reads and writes.* Both loops add the size of the last piece, not the
  sum of the pieces, to the buffer's address.
* *Error paths.* Every library and socket call has one, each with its own list
  of releases. Some continue: the server goes on after a failed `send_token`
  and after a failed `gss_unwrap`.
* *End of stream.* `read_all` takes the result 0 for progress.
* *A handle by value.* `sign_message` gets a copy of the context handle, deletes
  through it, and `talk_to_client` deletes through the original.

* *Results that are overwritten or not looked at.* `krb5-api/client.c` goes on
  without a service name and without a connection, `server.c` without a context;
  `record_token`'s result is ignored.
* *Scripts.* `init-kdc.sh` runs without `set -e`; `test.sh` with it, but starts its
  servers detached and both on one port. What one run leaves behind (a server,
  a keytab on the host, token files) the next one meets.

PROJECT.json lists these as hazards at their lines, with the properties that
would catch them going wrong.

## 2. Modules

    TokenChannel     what send_token and recv_token promise          (abstract)
    TokenFraming     how they do it, one action per system call      -> TokenChannel
    TokenFramingProofs   buffers and types
    FramingAlignProofs   two pieces                              (-> TokenChannel)
    MsgDelivery      what the two programs do for their user         (abstract)
    TcpLink          the connection                                  (environment)
    GssApi           the library                                     (environment)
    GssClient        client.c        extends GssApi, TcpLink
    GssServer        server.c        extends GssApi, TcpLink
    GssSession       both together                                   -> MsgDelivery
    GssSessionProofs     delivery                                 (-> MsgDelivery)
    GssCleanProofs       what is released, the dangling handle
    GssOrderProofs       tokens in order and counted
    MutualAuth       what sendauth and recvauth do for two users     (abstract)
    Krb5Lib          the krb5 library   extends TcpLink              (environment)
    Krb5Client       krb5-api/client.c
    Krb5Server       krb5-api/server.c
    SampleClient     reference-code/sclient.c
    SampleServer     reference-code/sserver.c
    Krb5Session      one client with one server, of either kind      -> MutualAuth
    Krb5SessionProofs                                             (-> MutualAuth)
    TokenFiles       record_token, copy-tokens.sh
    Decoder          gssapi-parser/decoder.c
    TokenInspection  both: record, copy, decode
    TokenInspectionProofs
    KeyTable         make init: init-kdc.sh, copy-binaries.sh
    TestServers      the servers test.sh starts
    TestScript       make test, make init and make restart together
    TestScriptProofs
    MCTokenFraming, MCGssSession, MCKrb5Session, MCTokenInspection, MCTestScript
                     small instances

### TokenFraming

One action is one `write(2)` or `read(2)` and the code up to the next one.
`woff` and `roff` are `bytes_written` and `bytes_read`, the size of the last
piece, and `wleft` and `rleft` are `len`. `Write(k)` and `Read(k)` serve `k`
bytes; `HeaderPieces` and `ValuePieces` bound how many pieces the kernel may cut
a buffer into (the last one then takes all that is left). A byte has `Base`
values, and a length is four bytes, as `htonl` lays them out. Memory from
`malloc` and on the stack holds `Indeterminate` until it is written;
decoding a length with such a cell takes any value for it (`Completions`).
`ReadEof` is the loop's round with result 0, which changes nothing but the
offset. The refinement maps the model to `TokenChannel` by the number of tokens
completely written and the tokens returned.

`malloc` succeeds in the model.

### GssClient, GssServer, GssSession

`cpc` and `spc` name the next library or socket call; an action is that call,
its check and the code up to the next call, with the error path down to `main`.
`cheld` and `sheld` are the names, buffers, credentials and contexts that the
program has to release. `crec` and `srec` are the token files that `-r` writes.
A buffer that `recv_token` allocated is held from then on.

`shandle` is `talk_to_client`'s handle and `slocal` the copy of `sign_message`.
`DeleteLocal` leaves `shandle` dangling; `SDeleteContext` may then end the
process or return, since deleting a dangling handle is undefined. A failed
`gss_unwrap` is followed by printing a null message, likewise. `HandleGiven` is
`*context = GSS_C_NO_CONTEXT`, which stands inside the loop.

At this level a token is one element of the link. Whether it came through whole
is a field of it, decided on arrival when the fault "pieces" is on:
`TokenFraming` shows that a token of at most two pieces is never garbled, and
that a garbled value keeps its length, so that the next token is read
from the right place. Garbled *lengths* are studied in `TokenFraming` only.

`GssApi` gives a mechanism by its number of context tokens, `legs`: the client
sends the odd ones, and a side completes when it has nothing left to receive.
One is Kerberos without mutual authentication, two with it, four a SPNEGO
negotiation that needs a second round.

`TcpLink` lets a connection wait in the backlog, a closed end be seen as end of
stream or as a reset, and a reset destroy what is on the way. That a peer's
write may raise SIGPIPE as soon as this end is closed, and that a reset is
possible whenever tokens were unread, are over-approximations of the kernel.

Faults (`Faults`): "lib", any library call fails; "sys", a set-up call on
sockets fails (`getaddrinfo`, `socket`, `connect`, `bind`, `listen`, `accept`);
"kill", either process is killed at any point; "pieces", see above. A read or
write on a link whose other end is up does not fail.

### Krb5Lib, Krb5Client, Krb5Server, SampleClient, SampleServer, Krb5Session

The reference programs use the same two library calls as the krb5-API pair, so
that one composition runs any client with any server; the versions they
announce differ, and a mixed pair is refused. `kpc` and `vpc` name the next call,
as in the GSS-API pair. Inside `krb5_sendauth` and `krb5_recvauth` an action is one
message: two version strings and a response, the AP_REQ and a verdict, the
AP_REP. A program gets the control back at `returned`, with the result in `kres`
or `vres`. A key stands for a version of the service's key; the client's ticket
is under any of them, and the server's keytab is any set of them.

| Code | Model |
|---|---|
| `krb5-api/client.c:159` server stays unset | `DResolve`: `kserver` may be FALSE; `KSendRequest` then fails or crashes |
| `client.c:165` loop ends unconnected | `DUnconnected`; the first write then raises SIGPIPE (`KWrite`) |
| `krb5-api/server.c:180` status overwritten | `VInitContext`: `sname_unset`; `VServiceName` then fails or crashes |
| `sclient.c:62` `net_read` | `SReadText`: one `recv` per part; 0 ends it with what it has |
| `sclient.c:119` SIGPIPE ignored | `KWrite` returns an error instead of ending the process |
| `sserver.c:191` inetd | `sprog = "inetd"`: `RInetd`, `RPeername` |

An unset `context` or `server` is an uninitialised pointer: the call with it may
fail or end the process. The text of `sserver.c` is written in `TextParts` parts;
its length of two bytes is not cut. `malloc` and the unparsing of names succeed.

### TokenFiles, Decoder, TokenInspection

The two sides alternate, so that the number of a token file determines its
direction. A container has the files up to some number, since a session numbers them
from 1 on: `dir` has a sequence for each side. The host may lack any of them:
`host[s][i]` may be `NoFile`. `GssSession` shows which token a side records when
(`RecordsAgree`); `Due` is that order.

| Code | Model |
|---|---|
| `utils.c:344` `fopen` with "wb" | `OpenFile`: file *i* is there and empty; or the program crashes ("open") |
| `utils.c:345-349` `fwrite`, `fclose`, result ignored | `WriteFile`: all of the token, or any number of its bytes ("disk") |
| either program ends | `EndProgram`, also between `fopen` and `fwrite` |
| `copy-tokens.sh:12`, `:17` `docker exec ls \| grep` | `MakeList`: the numbers there are, or none ("docker") |
| `:13-15`, `:18-20` the loops | `CopyFile(i)`: one `docker cp`, which may fail ("docker") and leave the host's file or a part of the new one (`CutShort`) |
| no `set -e` | after a failed command `CopyFile` and `CopyNextSide` go on |
| stopped by the user | `CopyInterrupted` ("interrupt") |
| `make restart` | `RestartContainers`: the containers lose their files, the host does not |

All of these interleave: a session may record while the script copies, and a file be copied
after `fopen` and before `fwrite`. `clean` tells whether the last copying was in
order: no command failed and no file changed since it began. The order in which
`ls` has the names is left open. The user decodes when nothing is recorded or
copied, which loses nothing: `fread` reads a file in one call.

`Decoder` keeps `print_bytes` line by line: `dbytes` is what it was called with,
`di` and `dleft` its `i` and `size`, and `dout` the indexes it has printed.
`DecodesInitial` and `DecodesNegotiation` stand for the generated BER decoder.
`InnerIsOneValue` is the grammar, `gssapi.asn1:6-9`: the inner token is one value and
nothing follows it. The first token of SPNEGO has such an inner token. That of
Kerberos is a token id followed by a message (RFC 4121, 4.1), so that `parse_gssapi`
fails for it, whole or not. `DecodesNegotiation` fails for later SPNEGO tokens, as the
known issue in `gssapi-parser/README.md` says.

### KeyTable, TestServers, TestScript

`ipc` is the next command of `make init`, `tpc` the next of `test.sh`; an action
is a command. Keys are numbered in the order `ktadd` makes them; `kdcTab`,
`hostTab` and `srvTab` are the three copies of the keytab, `ticket` the key of the
service ticket in the client's cache. In `init-kdc.sh` a command that fails is
followed by the next (`Slips`); only the first check and the last command decide
what `make` sees. `copy-binaries.sh` has two commands, `InitServerBinaries` and
`InitClientBinaries`, of which the first may fail unnoticed, so that only one of the
containers has its programs. In `test.sh` a command that fails ends the round
(`Abort`).

`RunServer` returns with the server still `starting`; `Settle` is its way to
`listen`, or to its end if the port is held. What a client meets depends on the
servers at that moment: nobody (`Refused`), a server of its kind (`Served`), or
one of the other kind. A krb5 client at a gss-server fails
(`Krb5ClientAtGssServer`). A GSS client at a krb5-server waits for ever
(`GssClientAtKrb5Server`): the server waits for a second message and the
client for a token. `Interrupt` ends the script; the programs in the
containers go on, as `docker exec` leaves them.

A conversation is one step here, since `GssSession` and `Krb5Session` are about it. With
"session" in `Failures` it has the outcomes that those two show under faults:

* a call of the client or the server fails and the client returns an error
  (`FailedSession`); the server exits, or, for the GSS one, turns in `read_all` because
  its client is gone, or was never reached and listens on;
* the gss-server fails after `accept` and exits, and the GSS client turns in `read_all`
  for ever (`GssClientSpins`): `session_lib_error` seen from the script, which then never
  returns from `test.sh:37`, in a first round in new containers too;
* a server fails before it listens (`ServerFails`).

`tpc = "hung"` is a script whose client waits because of a server that an earlier round has
left; `tpc = "spinning"` is the second case above.

## 3. What the runs check

| Run | Instance | Shows |
|---|---|---|
| `framing_two_pieces` | lengths and values in at most two pieces, no failures, `FairSpec` | the framing implements the FIFO channel and delivers every token (`FairChannelSpec`) |
| `framing_many_pieces` | values in up to three pieces, failures, sender stops anywhere | no call leaves its buffer (`WithinBuffer`); garbled values keep their length (`LengthPreserved`) |
| `framing_third_piece` | as above, no failures; a violation | `DeliveredIsPrefix` fails: the third piece is read to the wrong place |
| `session_fault_free` | one or two legs, no faults | a client that finds the server listening succeeds, and so does the server (`BothSucceed`) |
| `session_faults` | one, two or four legs, all faults | the safety properties below, `DeliverySpec`, `ClientSettles` |
| `session_four_legs` | four legs, no faults; a violation | `BothSucceed` fails: the server forgets its context between two tokens |
| `session_lib_error` | two legs, "lib"; a violation | `ErrorIsReturned` fails: the server gives up, and the client turns in `read_all` for ever |
| `session_pieces` | two legs, "pieces"; a violation | `SuccessMeansSigned` fails: the message could not be unwrapped, and the server returns 0 |
| `krb5_session` | any client with any server, two keys, any keytab, all faults | the properties below |
| `token_inspection` | two sessions of two tokens, sizes around the buffer's, one fault of any kind | the properties below |
| `make_test` | two `make init`, three rounds, one `make restart`, failing docker commands, failing programs, interruption | the properties below |
| `make_test_race` | one `make init`, one round, no failures; a violation | `RoundSucceeds` fails: the client is run before the server listens |

Properties of `session_faults`:

* `ConfirmedDelivery`, `DeliverySpec`: the client's success means that the
  server unwrapped this message; the server gets at most one message, and only
  the one that was sent. `DeliverySpec` is `MsgDelivery` with `message <- cmsg`,
  `delivered <- smsg`, `confirmed <- (cret = "ok")`.
* `MutualEstablishment`: if the server sends the last context token, a client
  opens its context only after the server's `gss_accept_sec_context` has returned
  complete, though the server never reports a failure to the client. The server may
  have failed or died since.
* `ConfirmedServerClean`: the server's dangling handle never occurs in an
  exchange that the client confirms.
* `CleanReturn`: a process that returns 0 has released everything. Error paths
  do leak (`gss_wrap` failing, for one); the exit of the process ends that.
* `RecordsAgree`: file *i* of the client and file *i* of the server are the same
  token, sent and received.
* `NoMutualWait`: the two never both wait in `read` with nothing on the way.
* `SpinOnlyAfterFailure`: the endless loop never hides a success.
* `ClientSettles`: the client ends or turns in that loop, even if the server is
  killed.

Properties of `krb5_session`:

* `AuthenticationSpec`: the session implements `MutualAuth` with `known <- keytab`,
  `accepted <- accepted` and `authenticated <- ktold`: a client prints that it is
  authenticated only after the server has accepted it under one of its keys,
  also without connection, service name or context.
* `ZeroMeansAnswered`: exit code 0 is an answer of the server's `recvauth`, for
  `sclient.c` also a rejection.
* `ReplyWhole`: `sclient.c` shows a part of the reply only if the server was killed.
* `RejectionTold`: a client that is rejected learns so, although the server exits
  right after sending the error: by then it has read all that the client sent, so
  that its exit is no reset that would destroy the error on the way.
* `NoMutualWait`, `BothEnd`: nobody waits for a message that cannot come; both
  end, whoever fails.

Properties of `token_inspection`:

* `LastSessionFirst`: in a container files of different sessions mix, but the newest have
  the lowest numbers.
* `CopyIsCurrent`: a run of `copy-tokens.sh` in which no command failed and beside which
  nothing was recorded leaves the host with every file of both containers, whatever
  interrupted and failed copyings, and copyings of other containers, have left there. Of
  any other run nothing of the kind is true: the script does not say that a command
  failed, and the host may have a new file 1 and an old file 2, or the reverse.
* `PrintsBuffer`: `print_bytes` prints each byte once, in order.
* `ShownIsWhole`: exit code 0 with a structure means a whole token, although the file may
  have been cut short at any byte, by a write, a copy or the end of a program, and may be
  longer than the buffer.

Properties of `make_test`:

* `VerdictHonest`: "TESTS SUCCEED" means that both clients were served in this
  round, whatever servers are left from earlier ones.
* `InitMeansCurrent`: a `make init` without a failed command leaves the service's
  current key in the server's keytab, whatever an interrupted one left on the host.
* `RoundKeepsKey`: a `make init` during a round does not take the key away from it,
  because `ktadd` adds to the keytab.
* `HangNeedsOrphan`: the script waits for ever behind a server only if a round has failed
  in the same containers and left it there.
* `RoundEnds`: in containers where none has failed a round ends, or its own GSS client turns
  in `read_all` because its server has failed; it has no third outcome.

### Bounds

Framing: three tokens (five bytes, so that the length has two digits in
base 4; empty, as the server's answer after a failed `gss_get_mic`; two bytes,
to see that the stream is still aligned). Neighbouring bytes differ, so a piece
in the wrong place shows. Three pieces is the smallest number for which the
offset is wrong; section 4 proves the rest for any number of tokens and bytes.

Session: two messages (to tell the right one from another), four kinds of
mechanism arguments (none, supported, known but unsupported, unknown), addresses
that refuse, accept, or do one after the other, and legs 1, 2 and 4: the server
completing with its only token to receive, the client completing last, and a
mechanism that needs a second round. Nothing else is bounded: both programs
make one pass, and the state spaces are finite without constraints.

krb5 session: two keys (the one that fits and another), a reply of two parts
(one is the whole, two can be cut), the three address lists of the GSS-API pair.
Both programs make one pass; nothing else is bounded.

Inspection: two sessions (a new and an old one) of two tokens (one of each side), a buffer
of four bytes and lines of two for 2048 and 16. The old session is Kerberos' with tokens
as large as the buffer; the new one is SPNEGO's, with such tokens or with tokens a byte larger.
Short files have every size below, so that what is printed ends within a line and at the end of
one. `MaxFaults` is 1: each property has to survive each fault at each point, alone; copying,
restarting, ending programs and starting a session in between are not faults and are
not counted. The theorems of section 4 have no such bound.

Test: `MaxInits` 2 (a key and its successor), `MaxRounds` 3 (a round that fails,
one that hangs behind it, one after the interruption), `MaxRestarts` 1,
`MaxServers` 4 at a time is no bound here: with six the same states are reached, since
a round that starts a second server has had its first one serve and leave.

Deadlock is checked in all runs; `Ended` and `Quiet` name the only states in
which nothing moves.

### Fairness

`FairSpec` of the session is weak fairness of each process's next step: the
programs are separate processes which the scheduler runs whenever their
next call can return. Faults and kills happen inside those steps or in
actions without fairness; nothing makes them happen or stop. `FairSpec` of the
framing is weak fairness of the calls that find room or bytes. `Krb5Session` has
the same fairness as `GssSession`. In `TestScript` the script's next command, the
next command of a `make init` that runs, and the servers are fair; starting,
interrupting or restarting is up to the user, and no docker command and no program has to fail:
`DockerAborts` and `ServerFails` are not fair, and that `FailedSession` and `GssClientSpins` are
among the outcomes of a fair step obliges none of them to happen.
`TokenInspection` has no liveness property and no fairness.

## 4. What is proved

Every invariant of a passing run is also a theorem, for every value of the
constants that the named assumptions allow. No invariant is inductive as the run
states it: it speaks of the end of an exchange, and the step that gets there
looks at what the other process has left on the way. Each module adds what is
true in between, and TLC has checked that conjunction on the instances of
section 3 before it was proved. Each proof then has the same three steps, for the
initial states, for every action, and from the invariant to the property.

| Module | Theorem | States |
|---|---|---|
| `TokenFramingProofs` | `LengthRoundTrip` | `ntohl` undoes `htonl` for every length that fits |
| | `BufferSafety`, `FramingTypes` | `WithinBuffer`, `TypeOK` |
| `FramingAlignProofs` | `StreamAligned` | `AlignInv`, if lengths take at most two calls |
| | `LengthsArePreserved` | `LengthPreserved`, if lengths take at most two calls |
| | `TwoPiecesAreDelivered` | `DeliveredIsPrefix`, if values do so too |
| | `TwoPiecesImplementChannel` | `ChannelSpec`, likewise |
| `GssSessionProofs` | `SessionInvariant`, `SessionTypes` | `IInv`, `TypeOK` |
| | `ConfirmedMessageWasDelivered` | `ConfirmedDelivery` |
| | `SessionImplementsDelivery` | `DeliverySpec` |
| `GssCleanProofs` | `CleanInvariant` | `CleanInv` |
| | `SuccessReleasesAll` | `CleanReturn` |
| | `ConfirmedMeansNoDangling` | `ConfirmedServerClean` |
| `GssOrderProofs` | `OrderInvariant` | `OrderInv` |
| | `OpenMeansEstablished` | `MutualEstablishment` |
| | `SameFileSameToken` | `RecordsAgree` |
| | `NeverBothRead` | `NoMutualWait` |
| | `SpinMeansFailure` | `SpinOnlyAfterFailure` |
| `Krb5SessionProofs` | `Krb5Invariant`, `Krb5Types` | `IInv`, `TypeOK` |
| | `ZeroIsAnAnswer` | `ZeroMeansAnswered` |
| | `ReplyIsWhole` | `ReplyWhole` |
| | `NeverBothWait` | `NoMutualWait` |
| | `SessionImplementsMutualAuth` | `AuthenticationSpec` |
| `TokenInspectionProofs` | `InspectionInvariant`, `InspectionTypes` | `IInv`, `TypeOK` |
| | `RecordsOverwrite`, `CopyBringsAll` | `LastSessionFirst`, `CopyIsCurrent` |
| | `BufferIsPrinted` | `PrintsBuffer` |
| | `OnlyWholeTokensShown` | `ShownIsWhole` |
| `TestScriptProofs` | `ScriptInvariant`, `ScriptTypes` | `IInv`, `TypeOK` |
| | `SuccessIsHonest` | `VerdictHonest` |
| | `ReadyMeansCurrentKey`, `TicketStaysGood` | `InitMeansCurrent`, `RoundKeepsKey` |
| | `HangsNeedAnOrphan` | `HangNeedsOrphan` |

### Framing

`BufferSafety`, for every `Base`, token list and way of cutting: the invariant adds
to the type that offset plus remaining length stays inside the buffer on both
sides, and that the receiver's buffer has the size of what it reads. The offset
of a later piece is at most the sum of the pieces before it, so the wrong offset
only errs towards the start of the buffer.

`AlignInv` says where the receiver is in the stream. There is a function `p` from
the tokens that are not yet read to positions: token `t` begins `p[t]` bytes behind
the first byte on the wire (`Placed`), tokens follow each other without a gap, and
the bytes at those positions are the length and the value of `t` (`Carried`). The
token being read has a position that is zero or less, by as much as was read of it.
In its first two calls each loop addresses the right place (`WriteInPlace`,
`ReadInPlace`), for the size of the only piece so far is also the sum of the
pieces. After a read of zero bytes the offset is wrong, but then nothing is left to
read, which is why `ReadInPlace` has that alternative. Everything about values is under the condition
`ValuePieces <= 2`. Lengths need `HeaderPieces <= 2` throughout: a length that is
garbled moves the receiver to any place in the stream. Both hypotheses are what
the runs have, and `framing_third_piece` shows that the one on values cannot be
dropped from `TwoPiecesAreDelivered`.

### GSS-API session

All of it holds for every number of legs, set of messages, address list, mechanism
table and set of faults.

`IInv` of `GssSessionProofs` is a chain with a conjunct for each link:
a wrap token on the way or in the server's hands carries the client's message
(`WrapsCarryMessage`); nothing is unwrapped before `SUnwrap`
(`UndeliveredBeforeUnwrap`); a MIC on the way or in the client's hands was made
after that, for what was unwrapped (`MicsSignUnwrapped`); a client past
`gss_verify_mic` has seen such a MIC for its own message
(`VerifiedMeansDelivered`). `ConfirmedDelivery` alone is not inductive, for the
step that makes it true looks at a token made by the other process. The
proof summarises all that one process can do in `ClientEffect` and
`ServerEffect`, shows that every action has that effect, and shows that the
effects preserve the invariant. `LinkRemoves` and `PutAdds` say the same of the
link: only `Put` brings tokens. `SessionTypes` includes that `slocal` is never
dangling, that is, that `sign_message` is given a valid handle.

`CleanInv` of `GssCleanProofs` lists what a program may hold at each call
(`ClientMayHold`, `ServerMayHold`) and follows the server's handle (`HandleInv`):
`sign_message` deletes its copy only on a path on which it sends no MIC
afterwards, so a MIC on the way tells that the handle is good, and so
does a client that has verified one.

`OrderInv` of `GssOrderProofs` counts. `ClientSent`, `ClientRead`, `ServerSent` and
`ServerRead` are functions of the two program counters and leg counts; what one side
has sent and the other has not read is on the way, in the order of the legs
(`RequestsCounted`, `RequestsInOrder`, `AnswersCounted`, `AnswersInOrder`). That gives
`NoMutualWait` (two readers with an empty link would need unequal counts) and
`MutualEstablishment`. `ServerRounds` and `ClientRounds` show what the handle reset
inside the loop of `server.c:256` amounts to: the server gets past its loop
only for a mechanism of one or two tokens. The numbers of token files are tied to the
same counts (`FilesCounted`). The invariant is inductive only together with `IInv`.

### krb5 session

For every pair of programs, set of keys, keytab, number of parts of the reply and set
of faults. Messages are counted as above, but only while the client still listens
(`AnswersCounted`), since a rejected client leaves answers unread. Every answer on the
way tells the truth: an error that is a rejection was sent by a server that has rejected,
an AP_REP by one that has accepted (`AnswersTruthful`), and `ClientKnows` takes
this over into the client's result. `accepted # {}` is equivalent to `vres = "ok"`.
`ReplyWhole` needs that a server stops in the middle of its text only if it is
killed or the client is gone (`TextWhole`).

### Inspection

For every number of sessions, tokens and faults, tokens of any size, and every size of buffer
and line. For the files, `LastSessionFirst` needs that a recording session leaves no hole,
not even while a file is open (`NoHole`). `CopyIsCurrent` needs what a clean copying has
brought at each stage (`CopiedSoFar`): in the first loop the server's files but for
those still on the list, in the second all of the server's and the client's but for those;
a list that was made holds every number there is, and a step that changes a directory
makes the copying unclean. `ShownIsWhole` needs that no file, cut or not, is longer
than its token (`FilesGood`): then a buffer as long as the token is all of it. For the
decoder, `di * LineWidth + dleft = dbytes` while there are lines to print, and `dout` has the
indexes up to there.

### Test script

For any number of inits, rounds, restarts and servers and all failures. `KeyOnItsWay`
follows the current key from the KDC's keytab over the host to the server in a `make init`
without a failed command; `HostKeepsKey` and `HostKeepsServersKeys` say that a keytab that
an interrupted one left on the host cannot take it away, `TicketGood` that the ticket
stays readable. `NoOrphans` says that without a failed round a server waits only
for the client it was started for, so that nobody meets a server of the other kind. That is
`HangsNeedAnOrphan`, and it covers failing programs: a failed client ends the
round, which counts as failed; a GSS client that spins has left no server waiting. That such a
client spins without any earlier failure is not excluded, by the theorem or by the code.

### What the proofs assume, and what is not proved

The assumptions on the constants are `FramingAssumption`, `GssAssumption`,
`ClientAssumption`, `Krb5Assumption`, `FilesAssumption`, `DecoderAssumption`,
`KeyTableAssumption`, `ServersAssumption` and `ScriptAssumption`; TLC evaluates them in
the runs. They say what a constant is (a number that is not zero, a subset of
the fault kinds); the one with content is that every token's length fits its `uint32_t`.

Model-checked only, because liveness and `ENABLED` are out of the prover's reach:
`ClientSettles`, `BothSucceed`, `RejectionTold`, `BothEnd`, `RoundEnds`, and the
fairness part of `FairChannelSpec`. The five properties of the runs that expect a
violation are false of the code.

## 5. Where the code and its documentation differ

* `utils.c:105`: the offset of a read is the size of the last piece. `utils.c:122`
  has the same for writes. A token of three pieces is garbled.
* `utils.c:106`: end of stream is not an error for `read_all`; the caller that is
  documented to return -1 never returns.
* `server.c:256`: the context handle is reset before each token.
* `server.c:369`: after a failed `gss_unwrap` the server continues to success.
* `test.sh:26`, `test.sh:36`: the servers are started detached and the clients run at
  once; `make test` may fail with everything set up.

* `gssapi.asn1:6-9`: the decoder's grammar has one value for the inner token, and a Kerberos
  token has a token id before its message, so that `decoder <file> gssapi` fails for
  it. `gssapi-parser/README.md:28` says "The first token sent by the client is always a
  GSSAPI token". No run shows this one: whether the generated decoder takes the bytes behind the first
  value is outside the repository, and the model follows the grammar.

Met while modelling, without a run of their own: `client.c:316` takes the error
-1 of `test_mech_oid` for a yes; `copy-tokens.sh:4` reads its argument and never uses
it.

## 6. Not modelled, and the plan

Abstracted away in what is modelled: printing, the contents of token files, the
flags of a context (the client asks for mutual authentication and never checks
that it got it), lifetimes, and the wrap size limits, which are only displayed.

Left out: image and codec builds, the network and the `bin` directory
(`docker-network.sh`, `create-deployment.sh`, `make clean`), which are single
commands; the SSH server and client, which are stock software; `test.c`, which
prints a table. In `TestScript` a client's conversation with a server takes one
step, so that a `make init` does not fall inside it. In `TokenInspection` a token of one
session is like any other of it: the sizes do not differ within a session.

Theorems to add: all invariants of the passing runs and the safety part of the three
refinements are proved. Left are results beyond the runs: that `BothSucceed` has a safety
part for `Faults = {}` (no process returns an error), and that `HeaderPieces <= 2` cannot
be dropped, which takes a run with a length in three pieces. Liveness stays with TLC.
