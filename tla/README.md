# simpleProxy: specifications, model checking and proofs

TLA+ models of simpleProxy, a single-threaded HTTP/HTTPS proxy in C, with TLC
configurations for small instances and TLAPS proofs for all instances. Source
paths below are relative to the repository.

## 1. The system

| Component | Source | State | Operations |
|---|---|---|---|
| event loop | `src/main/main.c`, `loop_handlers.c`, `epoll_util.c`, `timeout.c` | epoll's interest list, the batch of the current `epoll_wait`, the timerfd | wait, dispatch, accept, tick, end on a signal |
| client registry | `client_registry.c` | `clients[MAX_CLIENTS]` | add (first free slot), remove, for_each |
| client state | `client.c` | heap of `ClientState`s | create, expire, free |
| connection state machine | `proxy.c` | `ClientState.state` and descriptors | one handler per state |
| forwarding | `connection.c` | the two buffers, `client_closed`, `target_closed` | connect, recv into a buffer, send from a buffer |
| authentication | `auth.c` | static map credential -> end of lifetime | `has_valid_auth` |
| hash map | `core/collections/hashmap.c` | buckets, capacity, size | add, remove, get, rehash |
| users table | `core/db/*.c` | table `users` in MySQL | create, drop, insert, delete, select |
| simpleproxy-conf | `proxy_config/proxy_config.c`, `commands.c` | exit code | setup, setup-service, migrate, drop, reset, add, remove |
| setup dialogue | `proxy_config/setup.c` | the `Config` being filled | six questions, systemctl |
| configuration file | `core/config.c` | `/etc/simpleproxy/simpleproxy.conf` and its `.tmp` | load, check, update |
| helpers | `core/util.c`, `core/logger.c`, `main/util.c` | none | base64, prompts, logging, Host header |

How they interact. `run_loop` takes a batch from `epoll_wait` and calls one
handler per event; each event carries an `EpollData` that points to a
`ClientState`. The listener handler accepts until the queue is empty, each time
registering the client with epoll and then with the registry. The timer handler
walks the registry. A client or target event goes to `handle_client`, which
dispatches on `state`; some handlers change the state and call `handle_client`
again within the same event, others change it and return, and the next event or
timer goes on from there. `handle_authenticating` consults the credential cache
and the users table, which `simpleproxy-conf` changes from another process.
That process also replaces the configuration file, which the proxy reads once,
when systemd starts or restarts it.

What is hard about it:

- an event outlives its `ClientState` inside a batch (the timer frees it), and
  heap addresses and descriptor numbers are reused at once;
- most transitions into `CLOSING` close nothing; they rely on a later event or
  on two timer ticks;
- both descriptors of a connection run the same handler in each state, so a
  handler may be run by the event of the "wrong" side;
- partial sends and receives, a full buffer, half-closes, and resets;
- a cached credential grants without the database, which may change at any time;
- failures half-way: `epoll_ctl`, `malloc`, `accept`, the registry, a query, a `rename`;
- a request head that arrives in any segments while its buffer grows;
- lengths in base64, widths of ints and ports, and four grammars (dialogue,
  file, header, `sscanf`) for the same names and passwords, and SQL behind them.

The properties that make each part correct are in section 4; `PROJECT.json`
lists every hazard at its line with the properties that cover it.

## 2. Modules

    ProxyLoop            the loop, registry, handlers, kernel side
      MCProxyLoop        + symmetry, for TLC
      ProxyLoopProofs    types, registry, interest list, descriptors, isolation,
                         events
    Tunnel               what the two ends of a connection get (abstract)
    Relay                one connection with its bytes, refines Tunnel
      RelayProofs        conservation of bytes, the refinement
    AuthCache            has_valid_auth, the users table, the administrator
      MCAuthCache        a decoding of credentials for TLC
      AuthCacheProofs    the theorems about staleness
    StringMap            what hashmap.h promises (abstract)
    HashMap              hashmap.c, refines StringMap
      MCHashMap          hash codes for TLC
      HashMapProofs      the invariants and the refinement
    RequestBuffer        read_request_nonblocking with exact lengths
    ConfigText           a text, load_config, check_config, the rewriting loop
      ConfigTextProofs   lemmas about them
      ConfigStore        a configuration that changes as a whole (abstract)
      ConfigFile         update_config_file on disk, refines ConfigStore
        MCConfigFile, ConfigFileProofs
      ConfigTool         simpleproxy-conf: dispatch, dialogue, table, service
        MCConfigTool, ConfigToolProofs
    Base64               encoding, padding, decoding of a whole text
      Base64Decode       base64_decode digit by digit
        Credentials      header, decoder, sscanf, against the users table; target
          MCCredentials
      HostField          parse_host_port, used by Credentials
    RequestProofs        theorems of RequestBuffer, Base64Decode, Credentials and
                         HostField

**ProxyLoop.** A `ClientState` is known by its heap address (`Addr`), a socket
by its descriptor number (`Fds`), both recycled: `AcceptClient` takes any address
not live, and the *lowest* free descriptor. `heap`, `live`, `clients`, `sock`,
`interest`, `batch`, `cur`, `backlog` and `timerDue` are the program's and the
kernel's state; `cur` is the event being handled. Actions are iterations of the
code's loops: `EpollWait`, `NextEvent`, one action per way an iteration of the
accept loop ends, `HandleTimer`, and one or two per handler of `proxy.c`. A
handler that calls `handle_client` again leaves `cur` in place, so that the next
step dispatches the same event on the new state; a handler that returns clears
it. The listener's loop and the recursion are therefore several steps, between
which only peers, the clock and signals move, as in the running program. (The
kernel can indeed act there; another handler cannot.) Data is abstracted to what
the control depends on: a socket is `quiet`, has `data`, is at `eof`, is `reset`
or is still `connecting`; a buffer has a length; time is the boolean
`now - last_active >= 10`. A freed address that is still in the batch is the undefined
behaviour of the code: `StaleEvent` either finds the stale `expired` flag or
ends the process; when the address was allocated again, the event reaches its
new owner, as it does in memory. Both cases need the timer, the listener and a client
in one batch in that order, which the runs contain, because a batch is a set.
`EpollAddMayFail` says whether `epoll_ctl(ADD)` may fail (the limit of watches),
`DataMayFail` whether `epoll_create_data` may find no memory. Its callers differ:
`epoll_register_client` turns the client away; `handle_initialize_connection` registers the
target with a NULL pointer (an entry of type `NODATA`), which ends the process when
an event comes of it (`NullDataEvent`); `register_forwarding_fds` returns in the
middle. That operator is the set of what can become of the interest list: nothing
is switched, only the client, or both. Out-of-memory on the request buffer is in
RequestBuffer.

**Relay, Tunnel.** The same connection from `INITIALIZE_CONNECTION` on, with the bytes:
both buffers, what waits unread in each socket, what each peer has sent and what
it has been handed. Bytes are numbered per direction so that a loss, repetition
or reordering shows; the bytes of a CONNECT head are 0, so that one reaching the
target shows too. `early` is how many bytes were read together with the head; of a
plain request they are relayed with it, of a CONNECT they go when `request_len` is
set to 0. A client may go on sending before it is answered: that waits in the
socket. `Stream(side)` is what is left for the other side. Tunnel promises a setup
with any number of answers, and then that each end gets a longer and longer beginning
of what the other has written (that a CONNECT has one answer is `OneAnswer`, which
the code breaks); `Phase`, `Streams`, `replies` and `delivered` are the mapping, and
receives, buffers, half-closes, the timer and the peers' moves are stutters.
Writes may take any prefix of the buffer. Events carry any
subset of the ready directions. `TimesOut` may end the connection at any time.

**AuthCache.** `has_valid_auth` split where time passes and another process can
act: lookup, SELECT, store. `SetTable` is the effect of one SQL statement;
`cmd_reset` runs two and runs the second also when the first failed. The history
variable `lastGood` dates each credential's last match with the table.
`Decode` stands for header extraction, base64 and `sscanf`. MySQL itself is
taken to execute one statement atomically, and to find a name exactly as it is
written: names that SQL or the column's collation changes are in Credentials.

**HashMap / StringMap.** Chains are sequences of nodes; `HashCode` is the sum
before `% capacity`, any natural number. Every operation holds the lock from
beginning to end and is one action, but for `hashmap_add`: its rehash is a loop
over all nodes, so `hashmap_add` goes up to the end of the test for growth, `RehashNode` and
`RehashBucket` are turns of the inner and the outer loop over `old_buckets`, and
`Insert` links `new_node`. While `new_node` is there (`Idle` is false) no other
operation starts: that is the lock. `last`, the operation that ended last, its key
and what it returned, is part of what StringMap promises: were only the entries
visible, a rehash that loses a node would pass for a removal.

**RequestBuffer.** The bytes of a client are known by their place in the stream,
so the buffer is a length (`len`), the socket is `sent - taken`, and the empty
line is the place of its last byte. `Receive` is one call of
`read_request_nonblocking`: the growth before the recv, the recv of what there
is room for, the search. `ReadFails` is a failed realloc or recv, the growth
kept or not. What follows (`Accepts`, `Connects`, `Rejects`, the timer) is there
because it decides what becomes of the buffer.

**ConfigText, ConfigFile, ConfigStore.** A text is a sequence of lines, a line a
known key with a value or any other line. `Parse` is what `prepare_line` and
`atoi` or `strdup` make of a value (a `#` cuts it, white space goes).
`load_config`, `check_config` and `Rewrite` (the loop of `update_config_file`)
are operators of ConfigText. ConfigFile has the update as the steps that touch
the disk: open, one line at a time with stdio writing any prefix when it likes,
close, remove, rename; `Fails` and `Crash` may come at any of them, and the proxy
starts and ends meanwhile. ConfigStore promises one text that is replaced as a
whole; the mapping takes the temporary file for it between remove and rename.

**ConfigTool.** One command of `simpleproxy-conf` at a time: `Invoke` is its
`main` up to the dispatch, `Answer` one question of the dialogue, `StoreConfig`
the call of `update_config_file` with the outcomes ConfigFile shows, `Prompt` the
question whether to enable the service (`wanted` is whether it was asked for, by
`setup-service` or a yes; the code goes on either way), `Systemctl`
each call of `run_systemctl`, and one action per statement on the table, so that
`cmd_reset` is two. `started` means that `systemctl start` has succeeded, not that
the proxy has gone on to run. `StartProxy` is the proxy's own `main`: load, check, bind.
Ints have `IntRange` values and wrap in `atoi`; a port has `MaxPort + 1`, which
`htons` keeps. Every statement, question and call may fail.

**Base64, Base64Decode, Credentials.** Bit widths are constants with
`4 * DigitBits = 3 * ByteBits`, which keeps the groups of four digits and three
bytes. `Base64Decode` runs the loop with its accumulator, which overflows, the
length it allocates and the bytes it writes; `Decoded` is the reference, and
`Free` the caller's `free`.
`Credentials` goes from the two headers through the decoder and `sscanf` to the
comparison with the row, or to one of the failures on the way (`Fails`, and
`Arrives` without memory for the header's text); `Padded` is the encoding of clients, `base64_encode`
the program's own, which never writes `=` and has no caller in the repository.
`user.c` puts names and passwords between quotes without escaping them. The
database's grammar is external and enters as two constants: the bytes that stand
for themselves there (`Verbatim`), and the names that the collation equates
(`Equated`). A text of `Verbatim` bytes is stored and sought as it is. With any other
byte in the name or the password `cmd_add` stores any row or none, and with any
other byte in the name the SELECT may answer anything, so `Valid` is both. `added`
is what was typed for the row, if the INSERT carried it.

**HostField.** `parse_host_port` on texts of characters, where the word `Host`,
in either spelling, is one: the search through the whole text, the end of the
line, the cut at the size of `host_port`, the colon, `atoi` and `htons`. `Answers`
of Credentials calls it for a request that is granted; `rest` is the text it reads
and `target` what `connection_connect` is asked for. Numbers fit an int.

## 3. Runs

| Run | Bounds | Checks |
|---|---|---|
| `loop_pair` | 2 addresses, 2 descriptors, 2 slots, peers send data, plain requests, nothing fails | `RegistryInv`, `FdOwnership`, `NotDeaf`, `Isolation` |
| `loop_fair` | 1 address, 2 descriptors, 1 slot, backlog 1, buffer 1, all peers' moves, CONNECT requests; `epoll_ctl(ADD)` and `epoll_create_data` may fail | `TypeOK`, `InterestInv`, `NotDeaf`, `StaleOnlyAfterTimer`, `ClosingReclaimed`, `SetupEnds`, `QueueServed` |
| `loop_watch_limit` | as `loop_pair`, CONNECT requests, epoll may refuse | `Isolation` is violated |
| `relay` | buffers of 2, head of 1, with or without a byte behind it, 3 bytes from the client and 2 from the target | `Conservation`, `Delivery`, refinement of Tunnel |
| `relay_one_answer` | the same | `OneAnswer` is violated |
| `relay_nothing_truncated` | the same | `NothingTruncated` is violated |
| `auth_cache` | 1 user, 2 passwords, 3 credentials, lifetime 2, latency 1, 6 ticks | `CacheBound`, `RenewalStored`, `RevokedInTime` |
| `hash_map` | 5 keys, 2 values, initial capacity 2 | `WellFormed`, `LoadBound`, refinement of StringMap |
| `request_buffer` | initial capacity 4, 12 bytes, every place of the empty line | `TypeOK`, `HeadNotMissed`, `MemoryFollowsData`, `HeadRecognised` |
| `config_file` | 2 keys, 2 updates, texts with a repeated key and a line of no key | `NothingLost`, `SuccessIsLoaded`, `RunsOnWhole`, refinement of ConfigStore, `ProxyReturns` |
| `config_tool` | all 6 keys, ports 0..3, ints of 16 values, 3 numbers typed | `TypeOK`, `SuccessIsEffective`, `ReadyAfterSetup`, `RowsGoByRequest`, `ListensWhereAnswered` |
| `credentials` | digits of 3 bits, 4 names and 3 passwords of up to 2 bytes, texts of up to 8 digits, 150 texts around a Host line | `DecoderTypeOK`, `LoopDecodes`, `RoundTrip`, `TargetAsAsked`, `ReadableLogsIn`, `GrantedWasSent` |

Why these bounds are enough to meet the cases. `loop_fair`: a listener, a client and
a timer event in one batch let the timer free the one address, the listener give
it to a new connection and the old event reach it; the second descriptor is
the target's or a second client's, which finds no memory and is turned away; a
failed `malloc` comes at each of its three callers, with and without a refused
registration. What needs two connections is in `loop_pair`: two
descriptors for two connections force the second's socket to be the number the
first has just given up. Ownership and isolation are also proved for every
instance (section 5). `relay`: two bytes of buffer against three of data fill the
buffer, drain it partly and fill it again; the other direction runs the same code
and only fills it, which keeps the run short. `hash_map`: the table grows twice (2,
4, 8), the keys collide before and part after. `auth_cache`: six ticks hold a
full life of an entry, its expiry, its renewal and its second expiry.
`request_buffer`: a capacity of 4 grows to 8 and 16 under 12 bytes, is met at
`capacity - 1` and exactly full. `config_file`: the second update finds whatever
the first left, the temporary file of a crash included. `config_tool`: the
numbers are one that fits an int but no port, one that becomes -1 and one that
becomes 0 by overflow, beside the valid default, so that both dialogues meet a 0;
the installed port differs from the default. `credentials`: `MaxField` is 2, so a width is met; names and
passwords have a colon or a space at each place, one name has a byte that SQL does not
carry as it is and two are equated by the collation; other texts include every text
of up to four characters over two digits, `=` and a bad one, and one text that
decodes to a NUL inside; 7 bits make the accumulator overflow. A Host line stands
before or behind a line with its word in the name, in the value or in the other
spelling, a second Host line, one without CR, an empty one, and one that is cut.
`relay` does not list `TypeOK`: the theorem `RelayTypes` has it for all bounds.

`MaxBacklog`, `MaxSent`, `MaxAnswer`, `MaxTime`, `MaxLatency`, `MaxBytes` and `MaxUpdates`
bound counters and occur only in guards and types. Deadlock is checked except in
`Relay` and `RequestBuffer`, where a connection that has ended stops, and in
`ConfigFile`, where nothing may happen once the updates are used up. `Addr` is a
symmetry set of `loop_pair`, which checks safety only (no definition orders
addresses); the other runs of the loop use none.

**Fairness.** `WF(Loop)`: the thread runs, and the kernel lets `epoll_wait`
return when something is ready. `WF(TimerExpires)`: the
timerfd is periodic. `WF(BecomesIdle(a))` outside FORWARDING: the clock advances,
and only `connection_forward` renews `last_active`, so a connection in another
state becomes ten seconds old; a forwarding one may stay active for ever. Nothing is assumed of clients,
targets, signals or systemd. In `Relay` the assumption is on the loop serving
what epoll (level triggered) reports, per side and direction, and on a connect
ending in an answer or an error; a peer that keeps reading keeps its socket
writable. `Delivery` says what then follows *unless* the connection ends.
In `RequestBuffer`, `WF(Receive)`: the socket stays readable while bytes are left,
and the loop serves it. In `ConfigFile`, `WF` of the steps of an update, because
a running program goes on, and of `ProxyStarts`, because the service has
`Restart=always`; crashes are never forced and never excluded. `WF(ProxyStarts)`
assumes of a start with a complete configuration that the database answers and
the port can be bound (`main.c:142-151` end the process otherwise), at some
attempt at least.

## 4. What the runs show

Holding:

- `RegistryInv`, `InterestInv`, `FdOwnership`, `Isolation`: the registry, the heap,
  epoll and the descriptor table agree; no leak, no double close, no descriptor
  shared, no handler touching another connection, as long as epoll takes every
  registration.
- `StaleOnlyAfterTimer`: an event whose `ClientState` is gone only occurs behind
  the timer event of the same batch. (That it *can* occur there is the code as
  it is: `loop_handlers.c:52` frees while the batch may still hold an event.)
- `NotDeaf`: a live connection is watched for what its state waits for, whatever
  the order of events, refused registrations and recycled descriptors. The one
  exception is the code's: when `epoll_create_data` fails in
  `register_forwarding_fds`, whose result `handle_connecting` ignores
  (`proxy.c:235`), the connection forwards with the target's input unwatched, and
  the client's output too if the first allocation failed. What the property says
  of that case is that nothing else is lost: the client is still heard and the
  target still written to, because the client's registration is switched first.
- `ClosingReclaimed`, `SetupEnds`, `QueueServed`: no connection stays in setup or
  closing for ever, also with a silent client or a failed registration, and the
  accept queue is served.
- `Conservation`, `Delivery`, `TunnelSpec`: the relay neither
  loses, repeats nor reorders bytes of the peers, and a full buffer does not stall a
  direction for good. Of
  a client that does not wait for the reply, exactly what was read with the head
  of its CONNECT is dropped, on both reply paths.
- `CacheBound`, `RenewalStored`, `RevokedInTime`: a removed or changed user is
  let in from the cache for less than `CACHE_TTL` plus the time of a query.
- `WellFormed`, `LoadBound`, `Refinement`: the hash map is a map.
- `HeadNotMissed`, `MemoryFollowsData`, `HeadRecognised`: a request head is found
  at the recv that completes it however it was cut, and memory follows the data.
  `HeadRecognised` has an exception that is the code's: a recv that fills the
  buffer to its last byte is past the test for growth (`proxy.c:109`), its NUL
  goes one place past the buffer (`proxy.c:138`), and no byte is received again.
- `NothingLost`, `RunsOnWhole`, `StoreSpec`: wherever `fopen`, `remove` or `rename`
  fails or the process is killed (failures of `fputs`, `fprintf` and `fclose`, which
  `config.c:146-181` ignores, are not modelled), the configuration is whole, or gone
  with the whole new text in the temporary file, and a proxy runs with one configuration, never a mixture. `SuccessIsLoaded`:
  after a successful update every key the file mentions has its new value.
  `ProxyReturns`: the proxy comes back, unless the file was left removed.
- `SuccessIsEffective`, `ReadyAfterSetup`, `RowsGoByRequest`,
  `ListensWhereAnswered`: exit code 0 means that what was asked for is done. Each
  line that the file has for a field is loaded as what was answered for it (a
  field without a line gets none); the service is enabled and started if it was
  wanted (after an N nothing is said of it: the code enables it all the same);
  the table is there, gone or empty. After a successful setup the configuration
  is accepted exactly if it has every line and no port was answered 0, which both
  dialogues take, and an accepted database port is a port. Rows go only when asked,
  and a valid port that was answered is the port that is bound.
- `DecoderTypeOK`, `LoopDecodes`, `RoundTrip`: the decoder computes the decoding,
  refuses exactly what has none, and clients' and the program's own encodings
  come back. `ReadableLogsIn`: a user who was added with a name and a password that
  the INSERT carries as they are and the scan can carry gets in. `GrantedWasSent`:
  who gets in with a name that the SELECT carries as it is has sent a name that the
  column takes for the row's, and the row's password, in the header that counts.
  Of other names neither property says anything, because the code does not
  (`user.c:30-45`).
- `TargetAsAsked`: a request is connected to the host and port that its Host line
  gives, whatever the other lines and the bytes behind the head hold, if the line
  ends in CR and fits, and no line that the code prefers begins the same way.

Not holding, with a run that finds the violation and a finding in `PROJECT.json`:

- `Isolation` when epoll refuses the target's registration: `proxy.c:203` closes
  `target_fd` and keeps the number, which `handle_closing` closes again after
  another connection has got it.
- `OneAnswer`: a connect that is done at once answers a CONNECT in
  `connection_connect` and again in `handle_connecting` (`connection.c:53`,
  `proxy.c:227`); the client reads the second reply as bytes of its tunnel, where
  README.md:14 has "raw TCP forwarding for HTTPS".
- `NothingTruncated`: the second half-close drops buffered bytes (`connection.c:147`).

Known divergences. The models have these as the code does them; the properties
above are stated so as to hold beside them.

| Where | The code | What it says |
|---|---|---|
| `connection.c:65-71` | a full buffer makes recv return 0, and the side counts as closed | the comment `// closed` |
| `proxy.c:218` | a client's event during the connect passes the `SO_ERROR` test, and forwarding starts | `connection.c:18` "200 Connection Established", `connection.c:44` "still connecting" |
| `proxy.c:235` | the result of `register_forwarding_fds` is ignored: without memory the target's answers are never read, until the connection idles out | proxy.c:31 and 48 "Failed to allocate EpollData" log it and return false |
| `proxy.c:199`, `main.c:111` | `epoll_create_data` is not checked, and `data` is read behind a test for NULL that only guards the first branch | main.c:109 `if (data && ...` |
| `proxy.c:229` | bytes behind the head of a CONNECT request are discarded | README.md:12 "Forwards data bidirectionally" |
| `setup.c:39` | `port < 0 && port > 65535` rejects nothing; a PORT of 0 makes `check_config` refuse the file (`config.c:37-40`), so the proxy that setup reports started ends at `main.c:137` | setup.c:40 "must be between 1 and 65535" |
| `setup.c:88` | `port < 0 \|\| port > 65535` takes 0, with the same end | setup.c:89 "must be between 1 and 65535" |
| `user.c:30`, `user.c:43` | names and passwords go into the statements unescaped: with a quote or a backslash another row may be stored or sought, or the statement fails; `auth.c:145` compares the password only | README.md:85 "Adds a new user", README.md:13 |
| `proxy.c:85` | `htons` keeps 16 bits of any int | README.md:9 "Listens on a configured port" |
| `config.c:146`, `config.c:47` | no line is added for a missing key; values are cut at `#` and lose white space | commands.c:77 "Configurations successfully set up" |
| `config.c:181` | results of the writes are not asked: a full disk leaves a part of the file, and true is returned | commands.c:77, as above |
| `setup.c:208` | `!tolower(c) == 'y'` is never true: every answer enables the service | setup.c:198 "[y/N]" |
| `proxy_config.c:31` | `--help` needs a configuration and a database | README.md:59 "see 'simpleproxy-conf --help'", README.md:39-41 |
| `commands.c:137` | reset of a database without tables fails and creates none | README.md:82 "Drops and recreates all tables" |
| `auth.c:33` | a name with a colon or a password with white space can be added and never logs in | README.md:85 "Adds a new user", README.md:13 |
| `main/util.c:16` | `Host:` anywhere at a line's start, also behind the head, goes before `host:` | - |
| `main/util.c:33`, `main/util.c:37` | a Host line of more than 255 characters loses digits of its port; an IPv6 address is cut at its first colon | - |
| `main/util.c:42` | a CONNECT whose Host line has no port goes to port 80; the request line is never read | - |
| `util.c:31` | `base64_encode` never writes `=` | - |
| `util.c:90` | with two `=` the decoder writes one byte more than it allocates for | - |

Each property of a passing run has a mutant, a variant of one definition with a
plausible bug, under which TLC finds it violated; the mutants stand next to the
definitions they vary.

## 5. What is proved

For every value of the constants that satisfies the modules' assumptions:

- `ProxyLoopProofs`: `TypeCorrect`, where `TypeOK` is inductive by itself, with one
  lemma per action. `RegistryCorrect`, `InterestCorrect` without further
  assumption; `OwnershipCorrect` and `IsolationCorrect` under `~EpollAddMayFail`
  (without it the run `loop_watch_limit` refutes them). The inductive invariant
  adds `SetupInv`: until a connection has its target, `target_fd` is -1, so that
  `connection_connect` never overwrites a descriptor. It is needed because
  otherwise `ConnectStarts` could leak the old descriptor and leave its
  registration behind. The argument has two halves. Lemma `HandlerEffect` shows
  that each handler has one of five effects on descriptors: it keeps them, opens
  a target, opens and closes one unwatched (`Dangles`), closes the target, or
  closes both. The invariants are then proved kind by kind, not handler by
  handler, and for accept, the timer, the environment and the end of the process.
  `StaleEventsCorrect` needs no assumption: a batch has one timer event
  (`TimerInv`), only the timer's handler frees memory, and by `InterestInv`
  `epoll_wait` returns live connections only. `NotDeafCorrect` is under
  `~EpollAddMayFail` again, with and without failures of `epoll_create_data`; its invariant `HeardInv` adds that a connection that
  has not expired holds its client's descriptor, and `HandlerListens` says how
  each handler leaves the registrations.
- `RelayProofs`: `RelayTypes`, `RelayConserves` and
  `RelayIsATunnel`, for any capacity, length of head, number of bytes behind it
  and bound on the peers' bytes. `Conservation` alone is not inductive: the two
  places that clear a buffer, `connection_connect` and `handle_connecting`, would
  lose bytes of a stream if there were any. `StateInv` says that there are none:
  the target's buffer is empty before forwarding, the client's holds what was read
  with the head when it is cleared first and nothing when it is cleared again, and
  an unanswered CONNECT does not forward. For the refinement, `FrontIsGot` turns
  `Conservation` into the form in which Tunnel speaks (what a side has got is the
  beginning of the stream), in the state behind a step of `handle_forwarding` too;
  `StreamGrows` makes a send an abstract write. Lemma `ForwardMoves` reduces every event
  of `handle_forwarding` to bytes moving from a socket to a buffer and from the
  other buffer to a socket, and five sequence lemmas do the rest.
- `AuthCacheProofs`: `TypeCorrect`, `CacheBounded`, `RenewalNeverLost`,
  `RevocationBounded`. The invariant adds that `lastGood` is up to date for what
  matches now (`GoodNow`), never in the future (`GoodIsPast`), at most `waited`
  ticks old when the store happens (`StoreGood`), and that the expired entry is
  gone by then (`MissRemoved`).
- `HashMapProofs`: `MapWellFormed`, `LoadBounded` and `ImplementsMap`, the
  refinement of StringMap, for any hash codes, capacity and number of keys. In the
  middle of a rehash neither array is the map, so the invariant speaks of both:
  `ArraysInv` (in either array every node is in the chain that `hash` names for
  its capacity, and no key has two), `CountInv` (`size` counts the array in use),
  `RehashInv` (the old buckets before `index` are empty, no key is in both
  arrays, and the key that is being added is in neither: without it `Insert` or a
  turn of the loop could make a second node for a key) and `LoadInv` (while a
  rehash runs, the nodes of both arrays are within the load factor of the *old*
  capacity; `LoadBound` alone says nothing of the nodes still to be moved, nor of
  the one to be added). Each turn of the inner loop moves one node, so the union of
  the arrays, which the mapping reads, is unchanged and the step is a stutter;
  `Insert` is the abstract `Add`. That the loops end is not part of it.
- `RequestProofs`, on reading: `TypeCorrect`, `HeadIsNotMissed`, `MemoryIsBounded`.
  The invariant adds that until forwarding starts `len = taken` (`KeptInv`), so that
  a place in the stream is a place in the buffer. One lemma says what a recv does.
- `RequestProofs`, on the decoder: `DecoderTypeCorrect`, `DecoderCorrect`,
  `EncodingComesBack`, for texts of any length and any widths with
  `4 * DigitBits = 3 * ByteBits` and an accumulator that takes two digits. What a
  byte has more bits than a digit is the `Unit` in which everything is counted.
  The invariant says that before each turn, with `r` digits of the group to come,
  `bits_collected = r * Unit` and `3 * i = 4 * Len(decoded) + r` (`CountInv`); that
  the accumulator ends in the digit read last (`ReadInv`: what lies above may have
  overflowed, since `2^AccumulatorBits` is a multiple of two digits' power, and is
  never read); and that the bytes written are the decoding's, if the whole text
  decodes (`WrittenInv`: without that condition it is false, for a bad character
  may follow in the same group). `EndInv` puts the NUL behind the decoding.
  Lemma `Groups` is the arithmetic of a group: each byte needs two of its digits
  only. `PaddedSays`, `EncodeSays` and `SaidBytes` are the way back. The laws of
  `2^n` are not known to the provers: they come from counting the subsets of a
  disjoint union (`PowSum`).
- `RequestProofs`, on who gets in: `NobodyElseGetsIn` and `UsersGetIn`, for any
  names, passwords, other texts and width of the `sscanf` fields of at least the
  columns'. The invariant adds that what is being decoded is the request's own
  header (`HeaderInv`) and that a row fits its columns and is what was typed if the
  INSERT carried it (`RowInv`). Nothing is assumed of `Equated`, and of `Verbatim`
  that it holds no NUL. `ScanFinds` says
  where a name and a password that were scanned stand in the text, `ScanReads` that
  a name without a colon and a password without white space are scanned whole;
  `CStringCut` covers texts with NULs. `SpecialAssumption` says that the colon and
  the space are no NULs, `TypedAssumption` that names and passwords are C strings.
- `RequestProofs`, on the target: `ConnectsAsAsked`, for any lines around the Host
  line, any hosts and any `MaxHostPort`. `TargetInv` says that `target` is
  what `parse_host_port` makes of the request's text, so the theorem is about that
  function: the first place of `strstr` and of `strchr` is a least number
  (`FieldPlaces`, `UpTo`), the line that stands there is the one that was asked for
  because the first line feed or CR behind its beginning is its own, and the cut
  does not reach it. That `atoi` reads the number that was written goes over its
  digits: `NumberOf` is a recursive function, which exists because it can be written
  down (the leading digits of the number, `DigitsSay`), and any other function that
  runs through the digits agrees with it, since there is no first place where the
  two differ. `HostFieldAssumption` asks that ports
  have at most five digits and that 80 is one, as with the 16 bits of `sin_port`.
- `ConfigTextProofs`: lemmas about texts: a rewritten text is a text, a second
  rewriting leaves nothing of the first, and `load_config` finds the new value of
  every key that has a line (the last line of a key exists by the library's
  well-founded minimum).
- `ConfigFileProofs`: `TypeCorrect`, `NothingIsLost`, `RunsOnWholeConfig`,
  `SuccessLoads`, and `ImplementsStore`, the refinement of ConfigStore. The
  invariant says what the two files hold at each place of the update (`PcInv`),
  and what a successful update leaves behind (`SuccessInv`).
- `ConfigToolProofs`: `TypeCorrect`, `SuccessMeansDone`, `SetupMakesReady`, `RowsStay`,
  `PortSurvives`, for any widths, texts and answers. The invariant says which
  command a place belongs to (`PlaceInv`), what the dialogue has (`AnswerInv`) and
  what is done so far (`DoneInv`, which holds from the update on that each line is
  loaded as the answer: `StoredIsLoaded`). `SetupMakesReady` counts what `check_config`
  asks against the lines and the answers. `PortSurvives` composes the dialogue's value
  with `LoadRewritten`, `check_config` and the 16 bits of the bind.
  `NumberAssumption` says of `Parse` that `atoi` gives an int and leaves a number
  alone that was written as one.

Only model-checked: liveness (`ClosingReclaimed`, `SetupEnds`, `QueueServed`,
`Delivery`, `HeadRecognised`, `ProxyReturns`), which under fairness is beyond the
prover used. Every other property of a passing run is the statement of a theorem.

## 6. Not modelled, and the plan

Not modelled: logging (no state the program reads back), terminal echo and the
wording of messages, what the database makes of a name or password that its
grammar does not carry as it is (anything, in Credentials), DNS
resolution and its blocking of the loop (a handler is one step), packaging
scripts except `Restart=always`, owners and modes of files (the renamed
configuration is root's), a full disk (a text is cut at any byte there, and
ConfigText knows whole lines), lines longer than the 512 bytes of the line
buffer, two setups at once, the search for the authentication headers by
substring, NULs inside a request, numbers in a Host line that no int holds, and the release of `EpollData`
(freed by no one after a MOD; no property here is about memory that leaks without
being referenced).

Order of the work, the most important first, all of it done:

1. ProxyLoop, its runs, type correctness, registry, descriptors and isolation.
2. Relay: bytes and the two reply paths; Tunnel and the refinement.
3. AuthCache and its theorems.
4. HashMap against StringMap, and its theorems.
5. RequestBuffer: `read_request_nonblocking` with exact lengths, and its theorems.
6. ConfigFile against ConfigStore, with crashes, and its theorems.
7. ConfigTool: commands, dialogue and service, and its theorems.
8. Base64, Credentials and HostField: the decoder, from a header to a row, and
   from the Host line to the target, and their theorems.

Next would be a proof of the loop's liveness with another prover, a text of bytes
under ConfigFile for the full disk, and AuthCache on top of StringMap, where the
cache is now a function.
