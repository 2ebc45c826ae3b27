# Verification of the WLAN-to-RS485 module

TLA+ models of the firmware under `src/src/`, model-checked with TLC on small
instances, and theorems about them whose proofs TLAPS checks for every value of
the constants. `PROJECT.json` lists the runs, the source lines of every
definition, the hazards and the findings.

    tlc -config MCTcpLink_link.cfg MCTcpLink        # a run: the .cfg files
    tlapm TcpLinkProofs.tla                         # the proofs of a module

## 1. The system

The module carries bytes between an RS485 bus (UART0) and one TCP or UDP peer.
Binary configuration frames and AT sessions use the same bus and UDP port 8880,
a web server changes the same configuration. There is no event loop: a dozen
FreeRTOS tasks share file-scope variables, mostly without a lock.

| Component | State | Operations | Works with |
|---|---|---|---|
| `network_bridge` (TCP) | `g_client`, `g_server`, `g_tcp_up`, `g_tcp_connecting`, `g_last_client_try_ms`, `g_active_*`, `g_net_mu` | mgmt task: teardown, listen, accept, check, (re)connect; rx task: recv; tx task: send, abort | reads the configuration and the station's state; queues of `rs485_uart`; counters |
| `network_bridge` (UDP) | `g_udp`, `g_udp_up`, the peer | the same tasks | as above |
| `rs485_uart` | two queues, the chunk being gathered | rx task: read, feed, gather, push; tx task: write | `config_ingress`, `network_bridge` |
| `config_ingress`, `config_frame` | an accumulator per channel | feed, drain, parse | calls `config_handlers` and `at_command` |
| `at_command` | mode, session, line and escape buffers | escape text, line, every setting, SAVE, SCAN, ... | called by the tasks of RS485 and of UDP |
| `config_handlers`, `config_udp` | one pending DISCOVER, socket, last peer | binary commands, delayed answer, announcements | `app_config` |
| `wifi_manager` | `g_wifi_state`, `g_fallback_ap_active`, attempts, `g_scan_active`, `g_async_scan_state` | manager task, apply mode, scan (blocking, background) | WiFi library; called by AT and web |
| `web_server` | `g_wifi_apply_pending`, `g_update_err` | POSTs, scans, save, reboot, reset, update | `app_config`, `wifi_manager` |
| `app_config` | `g_runtime`, the store in flash behind `g_prefs` | load, clamp, save, factory reset | everybody |
| `gpio_status` | debounced button, request | factory reset | `app_config` |
| `system_monitor` | counters | add, saturate | everybody |
| `main` | - | boot order | starts the tasks |

What is hard in it, and what has to be right:

* **TCP.** Every wait for `g_net_mu` has a timeout (50, 100 or 200 ms) and the
  code goes on when it expires, while `tcp_send_all` may hold the mutex for 400
  retries of at least 1 ms and begins to count anew with each byte of progress.
  `connect()` works on the shared socket without the mutex. There must be one
  link, a living one must not be replaced, no socket may be swapped under a
  chunk, a new configuration must leave nothing of the old one, a dead link
  must be noticed, a client must get its link again.
* **Byte stream.** Frames and payload are cut into reads anywhere; an unfinished
  frame waits in a buffer of limited size; a mode switch, a change of
  `packet_size` or a full queue comes at any time. Bytes must stay in order,
  none may vanish uncounted, only valid frames may be held back.
* **Radio.** The manager task, AT commands, a deferred apply of the web server
  and two kinds of scan drive the radio without a lock, with pauses of 50 ms to
  45 s between the steps of one operation. AP and station must not stay on
  together, the fallback must come and stay, the last configuration must count.
* **Configuration.** Every task changes `g_runtime` in place; a save writes some
  thirty settings one by one; power may fail or another task may restart the
  module between any two. A save must be whole, a reset must stick, a boot must
  find the store usable.
* **Session and DISCOVER.** Two tasks feed one line buffer, one escape buffer and
  one pending answer, and both poll it; only the answer has a mutex. A request
  must be answered once and not early, a line must keep its bounds, a session
  must end.
* **UDP bridge.** Socket and peer are shared without a lock; what keeps the mgmt
  task away from the others is its priority. Nothing of an old configuration may
  remain, nothing may be sent to a stranger.
* **Time.** `millis()` overflows after 49.7 days; intervals are compared with and
  without a sign, and 0 stands for "never" or "at once". A timer must not fire
  early, and not stay silent.

## 2. The models

| Module | Models | Task or thread = | Step = |
|---|---|---|---|
| `LinkSession` | what the TCP side promises (abstract) | - | open, lose, drop a link; begin, end a chunk |
| `TcpLink` | `network_bridge.cpp`, TCP | `mgmt`, `rx`, `tx`, a label each in `pc` | code between two points where another task can interfere: taking and giving back the mutex, `connect()`, the send |
| `TcpLinkProofs` | theorems about `TcpLink` | | |
| `UdpLink` | `network_bridge.cpp`, UDP, and `rs485_tx_task` | `mgmt`, `rx`, `tx`, `bus` | one access to the socket, the peer or a queue |
| `UdpLinkProofs` | theorems about `UdpLink` | | |
| `ByteChannel` | what the way from RS485 to the network promises each byte (abstract) | - | accept, deliver, withhold bytes |
| `SerialIngress` | `rs485_rx_task`, `config_ingress_feed`, `config_frame_try_parse`, `net_tx_queue`, the sends of `network_tx_task` | the RS485 task (`pc`), the tx task (`txpc`) | one pass of a loop; a chunk received, sent as far as it goes, the rest dropped |
| `SerialIngressProofs` | theorems about `SerialIngress` | | |
| `ByteChannelProofs` | `SerialIngress` implements `ByteChannel` | | |
| `WifiManager` | `wifi_manager.cpp`, `deferred_wifi_apply_task` | `mgr`, `at`, `def`, `web` | up to the next blocking call or shared flag |
| `WifiManagerProofs` | theorems about `WifiManager` | | |
| `ConfigStore` | `app_config.cpp` and its callers | AT/binary tasks, web task, resetters, `setup()` | one access to the store, or one to `g_runtime` |
| `ConfigStoreProofs` | theorems about `ConfigStore` | | |
| `DelayedAnswer` | what becomes of a DISCOVER request of the bus (abstract) | - | ask, ripen, take, answer |
| `ConfigSession` | `at_command.cpp`, the delayed DISCOVER of `config_handlers.cpp`, the loop of `config_udp.cpp` | `uart`, `udp` | one access to the session, or to the pending answer under its mutex |
| `ConfigSessionProofs` | theorems about `ConfigSession` | | |
| `Timers` | seven intervals measured with `millis()` | the task of one timer | one tick, one event, one round |
| `TimersProofs` | theorems about `Timers` | | |
| `MC...` | constants for TLC | | |

Variables carry the names of the code where TLA+ allows it, and each
declaration names what it stands for. A definition `Bug...` is a faulty variant
of the one after it; no specification uses it, it only serves to check that the
property it is paired with notices the fault.

### TcpLink

Every wait of mgmt and rx for the mutex may expire while tx is in `tcp_send_all`
(`TimesOut`): a send may last longer than any of them. There are two
specifications of what that leads to. `Spec` has all these behaviours.
`InTimeSpec` leaves out those in which one wait expires, the 200 ms of
`try_tcp_client` before it stops `g_client` (`StopMissed`): after that step
`connect()` works on a socket a send is still using, which is the finding `swap`
and breaks every safety property of the socket. `cfg` may change at any moment
(`Configure`); as in the code, the dispatch reads the live configuration and not
the one that `remember_config` has stored. A socket is closed, open, or dead: it
has a descriptor, but the peer is gone. For a dead one `if (g_client)` is false,
so `close_tcp_locked` skips `stop()` and clears the flag only; the model keeps
that. `tcp_send_all` looks at the descriptor alone, so a send to a dead peer may
succeed as well as fail, and go on for as long as there are chunks. The reconnect
interval is the flag `backoff`, which the clock may clear; `Timers` looks at the
width of that clock.

Abstractions: bytes and byte counters; the two UDP modes are `off`, because
the TCP side does nothing in them either; `bridge_enabled` and the direction
switches only decide whether rx and tx begin a round, so a round may begin or
not. A disconnect is counted together with the close, whereas the code counts
it just after giving the mutex back; a connect is counted late as in the code
(`Count`), the order in which the ledger could go wrong.

### UdpLink

The module holds three of the four tasks of the bridge in UDP mode in `pc`; the
fourth, the writer of the bus, is the length of its queue. `stop_udp` and
`ensure_udp` are cut at every assignment to the socket and the peer, and so is
the branch of rx that learns a peer. What a task may interrupt is a matter of
the priorities: on the single core of the ESP32-C5 rx and tx (6) take the core
from mgmt (4) whenever they are ready, so mgmt runs only while both block, in
`xQueueReceive`, in `xQueueSend` or in the network stack (`MgmtRuns`). mgmt may
be interrupted at any step; rx and tx may alternate. `Priorities = FALSE` lifts
this. An address stands for an IP address and a port of its own, so that a torn
pair can be told; a datagram of size 2 is longer than the 1024 bytes rx reads,
and leaves a rest behind, for which `parsePacket` answers 0.

### SerialIngress

A byte is its position on the bus, so that order, loss and duplication can be
told; its kind decides what the parser does. A frame is `Sync0 Sync1 length
payload check`, with 3 bytes of header for 20 and a check of one byte that is
right or not; the escape text is one byte. The sizes are scaled together:

| | firmware | model |
|---|---|---|
| longest frame | 534 | 5 |
| accumulator (`kAccMax`) | 768 | 5, and 7 in `overfull` |
| longest read | 1024 | 3 in the passing run, 4 and 9 in others |
| chunk | 1024 | 2, and 4 in `overfull` |

A read of the passing run is shorter than the accumulator, but does not fit
behind every unfinished frame, so that frames are wiped out in it as in the
firmware. Reads as long as the accumulator, which the firmware allows, bridge
their end before their beginning; the proofs say what holds with them, the
deviations below what does not.

The tx task hands over a first part of a chunk and drops the rest: `TxSent` is
the progress of `tcp_send_all` or a datagram, also of one that stops half way,
`TxLost` a datagram whose `endPacket` fails after `write` has taken its bytes,
which are then neither sent nor counted. `lost` collects what is gone without a
count, in three places: such a datagram, an unfinished frame that is wiped out,
the end of a read longer than the buffers.
The quiet times (2 ms, 500 ms) are choices of the model: a flush may come
whenever nothing is left to read, the escape text may count or not.

### WifiManager

The radio is the set of interfaces that are on; `WiFi.mode`, `disconnect(true)`
and `begin` are modelled by what they do to it and to the join in progress. The
network answers or not. Bands, addresses, LEDs and the networks found are left
out, `fallback_ap` is taken to be set (its default). `due` stands for the 10 s
retry interval, `MaxAttempts` is 3 as in the code. Whether a scan starts is the
constant `Starts`: it does in the runs, and may not in the theorems and in some
of the deviations.

`try_fallback_ap` starts the SoftAP, sleeps, and only then sets
`g_fallback_ap_active`; another task may have begun to apply the station mode in
between, with attempts counted from 0 again. `Overtaken` is that moment. The flag
then stands for a SoftAP that is not there, and the manager does nothing but
report for as long as it stands.

### ConfigStore

`Odd` is a value outside the limits of a setting, `Bound` what it is cut down
to. The store is the schema version, written first, and N settings written one
per step; `holder` is the open handle `g_prefs`, whose second `begin` fails. Any
task may restart the module and power may fail, as often as it likes, between
any two steps. Every `put` may fail, that of the schema version and the `clear`
of a reset among them, and none of the code's decisions depends on it:
`app_config_save` looks at no result and returns true. `missed` is what the
properties need to tell such a failure from any other, it is no variable of the
code: the settings, and `Mark` for the schema version, whose last `put` failed.

Three things are one step. `clear()` of the library is. Writing the defaults to
`g_runtime` and copying them is, and so is the copy any save starts from: with
`AT+FACTORY` the copy is made from `g_runtime`, so a setting changed by another
task between the two would be saved with the defaults, which the model does not
show. `web_pass` with a bad length, which loading replaces by its default, counts
as a setting that is mapped to `Bound`.

### ConfigSession

Of a text only its parts count: some bytes of a line, its end, the two halves of
the escape text, a DISCOVER frame. The line is the sequence of the transports
its bytes came from, so that mixed lines can be told. Between the test for a
full line and the write of a byte another task may run, as in the code. The 30 s
of a session are the flag `stale`, a jitter is over when its request is in
`ripe`. A request is the name of one of at most a few at a time, recycled when
it is neither pending nor being answered. `sources` fixes which transports bring
bytes in a behaviour; both tasks poll in any case.

### Timers

One timer is looked at in a behaviour (`kind`): the end of a session, the
delayed DISCOVER, the announcement, the retry of the station, the reconnect of
the TCP client, the silence before an escape text, the debouncing of the button.
`ms` counts modulo `2 * Half`; each place in the code compares with the cast and
the special value 0 it really uses. `age` and `wait` are the true times the code
cannot see, `Poll` is the longest time between two rounds of the task.

## 3. The runs

Passing runs (each property is paired with a fault it detects):

| Run | Shows | Instance |
|---|---|---|
| `link` | as long as a reconnect stops the old socket in time, whatever other wait expires: one link, never swapped under a chunk, and a socket for what counts as up; a balanced ledger; refinement of `LinkSession` | every mode with 1 set of settings, 3 connection names (symmetric), counters to 2, `InTimeSpec` |
| `link_live` | a client reconnects, and a dead link is noticed unless the check for it misses the mutex again and again; every wait may expire | 1 set of settings, fairness |
| `ingress` | order, no loss but in the three places named; refinement of `ByteChannel`; only frames are held back, only unfinished ones wait; a gathered chunk is pushed | 7 byte sequences, reads up to 3, an accumulator of 5, chunks of 2, a queue of 1, sends that stop or fail anywhere, fairness |
| `scan` | `g_scan_active` ends with the last scan; then the SoftAP is alone, or the station tries to join | scans of both kinds, overlapping, from every configuration; scans start; fairness |
| `apply` | the radio does not stay off; a station without an answer ends as a SoftAP, with the radio as well as the flag saying so, unless another task overtakes the fallback | POSTs, refused ones, AT mode and SSID at once, from every configuration; fairness |
| `store` | saves are whole but for puts that failed, the store is in range, and overlooked only if the put of the schema version failed; a reset that has cleared the store sticks, and every reset ends | 2 settings, 3 values, an AT session and the web server; puts that fail, power lost at any time, fairness |
| `session` | a DISCOVER is answered at most once; refinement of `DelayedAnswer`, by which it is not answered early either; it is answered unless replaced; a session without lines ends; with one transport in use the line keeps its bounds | 2 names of requests, a line of 2, either transport or both, fairness |
| `udp` | a new configuration finds neither socket nor peer of the old; nothing goes to a stranger; a UDP mode gets its socket; datagrams are read | a mode without UDP, a server, clients of two remotes; one host that sends, 2 datagrams in the socket, a queue of 1, priorities, fairness |
| `timers` | no timer fires early; none keeps waiting what waits, but for the two exceptions `NeverLate` names, of which the reconnect ends with half the range of the clock; a held button is noticed | all seven timers, a clock of 32 ticks, intervals of 5, rounds within 3, ages to 80 |

Why the bounds are enough: three connection names are one for `g_client`, one a
send may still work on and one to open; a fourth would never be in use. In `link`
a new configuration is a new mode; a new port or remote takes the same steps, and
is in `swap` and in the theorems. Counters saturate within the run, so both
branches of `inc_u64` occur. The byte sequences put a frame, a short frame, a
frame with a wrong check and one with a wrong length before, behind and after
single sync bytes and payload, and every cut into reads is explored; chunk and queue fill up in them, and an
unfinished frame is wiped out. Two settings, one of which is clamped and one mapped,
and three values are enough for a store that mixes two configurations; the button
resets in the same steps as the session, and the web server is a second writer. Two names
of requests are one that is pending or being written and one that is being
answered or replaced; a line of 2 is reached empty, half full and full. A queue
of 1 makes rx wait for the bus, and two datagrams let one peer be learnt while
another waits. Ages to 80 take a clock of 32 ticks through two overflows and a
half with every phase of an event to it. For the safety properties the proofs
below lift these bounds; liveness is shown for the instances only.

Runs that end in a counterexample; each is a finding in `PROJECT.json`, with the
sentence of the documentation or comment it contradicts:

| Run | What the code does |
|---|---|
| `swap` | a reconnect replaces the socket under a send that outlasts 200 ms |
| `overfull` | lowering `packet_size` under a gathered chunk makes the space wrap |
| `reconnect` | after an uptime of 24.8 days a TCP client whose link is lost does not try again until the clock overflows |

Further deviations, found with TLC on the instance named. The last section of
each module states what does not hold; put that definition and those constants
into a copy of the passing run's `.cfg` to see the counterexample. Where no
constant is named, those of the passing run will do.

| Definition | Instance | What the code does |
|---|---|---|
| `NewConfigDropsOldLink` | `link` | the old link survives a change of configuration: `close_tcp` gives up after 200 ms |
| `NoForcedReconnect` | `link` | a living link is torn down and connected anew when the check for it misses the mutex |
| `DeadLinkAlwaysNoticed` | `link_live` | a peer that has closed its side takes bytes, and sends that take long keep both recv and the check away from the mutex: the link counts as up for ever |
| `LinkMatchesConfig` | `link`, `Nets <- MCNets` | a change taken back within a round of the mgmt task leaves a link of the settings in between |
| `InOrder` | `ingress`, `Wires <- Plain`, `ReadMax = 9`, `ChunkMax = 9` | a read longer than the accumulator is bridged with its beginning behind its end |
| `LossIsCounted` | `ingress` | bytes are lost uncounted: an unfinished frame is wiped out by a read that does not fit behind it, a datagram fails in `endPacket` |
| `NothingStuck` | `ingress`, `Wires <- Trailing` | a sync byte at the end of a message stays until the next message |
| `FramesInOnePiece` | `ingress`, `Wires <- Split` | bytes from before and after an AT session are taken for one frame |
| `NoPayloadDuringAt` | `ingress`, `Wires <- Plain` | queued chunks are sent during an AT session |
| `NoLastingApSta` | `scan`, `Requests <- Modes`, `InitConfigs <- StaBoot` | a retry around `AT+WIFIMODE=AP` leaves AP and station on |
| `NoLastingApSta` | `scan`, `Requests <- OneScan`, `Starts <- Any`, `InitConfigs <- ApBoot` | a scan that does not start leaves AP and station on |
| `SoftApAlone` | the same | the same: no later step switches the station off |
| `AlwaysFallsBack` | `apply` | a lockout: the fallback sets its flag after another task has applied the station mode, and the module is a station without a network whose manager only reports (`wifi_manager.cpp:189-202`, `:428-441`) |
| `StationTries` | `scan`, `Starts <- Any`, `InitConfigs <- StaBoot` | a scan asked for before the fallback and not started afterwards takes the SoftAP away: nothing is joined and nothing can be reached |
| `FallbackStaysAp` | `scan`, `Requests <- OneScan`, `InitConfigs <- StaBoot` | a scan started during the fallback leaves the station on next to it |
| `OpenWithoutSsid` | `scan`, `Requests <- Modes`, `InitConfigs <- ApBoot` | the SoftAP of a station without a network is switched off again |
| `LastPostApplies` | `scan`, `Ssids <- TwoSsids`, `Requests <- Posts`, `InitConfigs <- StaBoot` | a POST during the apply of the previous one is stored, not acted upon |
| `ResultsAreFetched` | `scan` | `AT+SCAN` deletes the results of a web scan before they are fetched |
| `RestartsFresh` | `store` | a factory reset that finds the store in use restarts unreset |
| `SaveIsComplete`, `StoreIsMarked` | `store` | a save returns true although a `put` failed; if it was that of the schema version, the next boot overlooks the store |
| `AnswerMeansStored` | `store`, `Texts <- TwoTexts` | a failed save is confirmed |
| `SaveWritesCurrent` | `store`, `Texts <- TwoTexts` | a setting changed during a save is neither stored nor kept |
| `ReportedInRange` | `store` | a setting outside its limits is reported |
| `LineAlwaysFits` | `session` | two transports in one session write the last byte of `g_line` twice: the zero lands behind it |
| `LinesUnmixed`, `AnswersAlwaysReturn` | `session` | a line is made of bytes of both transports, its answer goes to the other one |
| `ReadyMeansSession`, `NoEarlyEnd` | `session` | one task ends the session the other has just opened, by a time it read before |
| `EachAnswered` | `session` | a second DISCOVER within the jitter replaces the first |
| `SendsOnSocket` | `udp` | the socket is stopped while tx waits in the network stack for a datagram to go |
| `ClientMatchesConfig` | `udp` | settings changed while a client opens are those of its peer, not of its configuration |
| `PeerInOnePiece` | `udp`, `Peers <- MCPeers` | tx sends to the address of one host and the port of another, while rx learns a peer |
| `ClientHasPeer` | `udp`, `HostOnly <- SecondNet` | a client whose remote is no address comes up without a peer and stays so |
| `Receives` | `udp`, `Sizes <- TwoUnits` | after a datagram of more than 1024 bytes nothing is received any more |
| `NewConfigForgetsPeer`, `SendsToKnown` | `udp`, `Priorities = FALSE` | without the priorities, as on two cores, a peer outlives its configuration |
| `SessionEndsInTime` | `timers` | a session whose last line came when `millis()` was 0 does not end |
| `QuietNoticed` | `timers` | a silence of more than 24.8 days is not noticed, and the escape text after it not looked for |

Read in the code, without a model: of a send that is aborted the bytes that went
out are not added to the bytes sent (`network_bridge.cpp:499`); `rs485_tx_task` discards chunks
without counting them (`rs485_uart.cpp:117`); an update without a file restarts
(`web_server.cpp:649`).

### Fairness

* `TcpLink`: all tasks run again and again (FreeRTOS is preemptive, all of them
  sleep or block in every round). Taking the mutex is strongly fair, since it is
  free again and again between rounds; sends end, because fruitless retries are
  limited and the rest of a chunk only shrinks; the reconnect interval passes; a
  remote that is tried for ever answers once in a while, which `Reconnects` is
  about. Nothing makes rx or tx begin a round: the bridge may be switched off.
* `UdpLink`: rx and tx block again and again, so mgmt runs again and again
  (strong fairness of its steps); `begin()` succeeds if it is called again and
  again; the others run whenever they can. Nobody has to send or to configure.
* `SerialIngress`: the RS485 task runs. Bytes need not arrive, and the tx task
  need not run: a full queue drops what is pushed.
* `WifiManager`: all tasks run, a scan ends after at most 45 s, time passes.
  Whether a network answers is open.
* `ConfigStore`: whoever has begun a save or a reset goes on; requests and
  restarts by others are nobody's duty.
* `ConfigSession`: both tasks go on, whether or not there are bytes, the 30 s and
  the jitter pass. Nothing makes the socket of port 8880 open.
* `Timers`: none. That nothing is late is a safety property of its clocks.

Deadlock is checked in every run.

## 4. What is proved

For every value of the constants (sets of settings, connections, requests,
networks and tasks; sizes of buffers; range of the clock; any N, `StatMax`), from the named assumptions in the modules and the ones given here:

| Theorem | States | Assumes |
|---|---|---|
| `TcpLinkProofs!TypeCorrect` | `[]TypeOK` | - |
| `TcpLinkProofs!MutexHeld` | `[]LockInv` | - |
| `TcpLinkProofs!DisconnectsAreBalanced` | `[]DisconnectsBalanced` | - |
| `TcpLinkProofs!LinkInvariant` | `[]LinkInv` | `[][~StopMissed]_vars` |
| `TcpLinkProofs!SocketIsExclusive`, `UpHasSocket` | `[]SendExclusive`, `[]UpMeansSocket` | `[][~StopMissed]_vars` |
| `TcpLinkProofs!BridgeKeepsOneLink` | `Spec` implements `LinkSession` | `[][~StopMissed]_vars` |
| `TcpLinkProofs!ServerInvariant` | `[]ServerInv`, which no run checks | `[](cfg.mode # "client")` |
| `TcpLinkProofs!ServersKeepTheirSocket`, `ServersKeepOneLink` | `[]SendExclusive`, and `Spec` implements `LinkSession` | `[](cfg.mode # "client")` |
| `UdpLinkProofs!TypeCorrect` | `[]TypeOK` | - |
| `UdpLinkProofs!UdpInvariant` | the inductive invariant | `Priorities` |
| `UdpLinkProofs!OldPeerIsForgotten`, `NothingGoesToStrangers` | `[]NewConfigForgetsPeer`, `SendsToKnown` | `Priorities` |
| `SerialIngressProofs!IngressInvariant` | the inductive invariant `BaseInv` | - |
| `SerialIngressProofs!TypeCorrect`, `OnlyFrameStartsWait`, `NoByteVanishes` | `[]TypeOK`, `[]OnlyUnfinishedWaits`, `[]NothingVanishes` | - |
| `SerialIngressProofs!ChunksFit` | `[]ChunkFits` | `[][NotUndercut]_vars` |
| `SerialIngressProofs!BytesInvariant` | the inductive invariant `BytesInv` | `[]ReadIsShort` |
| `SerialIngressProofs!BytesStayInOrder` | `[]InOrder` | `[]ReadIsShort` |
| `ByteChannelProofs!BridgeKeepsBytes` | `Spec` implements `ByteChannel` | `[]ReadIsShort` |
| `ByteChannelProofs!EachByteHasOneFate` | `[]OneFate` of `ByteChannel`, carried over | `[]ReadIsShort` |
| `ByteChannelProofs!FramesAreHeldBack` | `OnlyFramesHeldBack` | `[]ReadIsShort` |
| `WifiManagerProofs!TypeCorrect`, `PauseEndsWithScan` | `[]TypeOK`, `[]ScanFlagHeld` | - |
| `WifiManagerProofs!RadioIsNotLeftOff` | `[]OffIsShort`, which no run checks | - |
| `WifiManagerProofs!SoftApStaysOn` | `[]("AP" \in radio)` | `[](Effective = "AP")` |
| `WifiManagerProofs!ScansRestoreSoftAp` | the end of a scan that ran leaves the SoftAP alone | `[](Effective = "AP")` |
| `WifiManagerProofs!SoftApStaysAlone` | `[]StaForScans`, which no run checks | `[](Effective = "AP")`, `[][ScansStart]_vars` |
| `WifiManagerProofs!ScansLeaveSoftApAlone` | `SoftApAlone` | the mode stays, `[][ScansStart]_vars` |
| `WifiManagerProofs!StationStaysAtWork` | `[]AtWork(s)`, which no run checks | `[](Effective = "STA" /\ cfg.ssid = s)`, `[][JoiningScansStart]_vars` |
| `ConfigStoreProofs!StoreInvariant` | the inductive invariant `IInv` | - |
| `ConfigStoreProofs!TypeCorrect`, `SavesAreWhole`, `StoreStaysInRange`, `NothingIsOverlooked` | its named consequences | - |
| `ConfigStoreProofs!ResetsStick` | `ResetSticks` | - |
| `ConfigSessionProofs!SessionInvariant` | the inductive invariant | - |
| `ConfigSessionProofs!TypeCorrect`, `RequestsAreAnsweredOnce`, `NothingIsAnsweredEarly` | `[]TypeOK`, `[]AnsweredOnce`, `[]NotEarly` (which the run states as part of `DelayedAnswer`) | - |
| `ConfigSessionProofs!RequestsMeetTheirFate` | `Spec` implements `DelayedAnswer` | - |
| `ConfigSessionProofs!LinesFit`, `AnswersGoBack` | `[]LineFits`, `[]AnswersReturn` (no run checks it) | - |
| `TimersProofs!TimerInvariant` | the inductive invariant | - |
| `TimersProofs!TypeCorrect`, `NothingFiresEarly`, `NothingFiresLate` | `[]TypeOK`, `NeverEarly`, `[]NeverLate` | - |

The assumptions in the last column speak of the behaviours, not of the constants:
no firmware is excluded, only what it may do in a run. Each is needed, and what
becomes of the theorem without it is a finding or a deviation above.

* `[][~StopMissed]_vars`: the 200 ms of `try_tcp_client` do not expire. Every
  other wait may. It is needed of a client (`swap`); a server never takes that
  step, and its theorems do without.
* `[]ReadIsShort`: no read is as long as the accumulator
  (`pc = "feed" => Len(raw) < AccMax`, 768 bytes in the firmware, whose reads may
  have 1024). What holds for reads of any length is `BaseInv` and the theorems
  without an assumption, `NothingVanishes` among them.
* `[][NotUndercut]_vars`: when the task reads `packet_size`, the chunk it gathers
  is not longer than it. It may change at any time otherwise (`overfull`).
* `[][ScansStart]_vars`, `[][JoiningScansStart]_vars`: no scan, or no scan that
  took the station out of an attempt to join, fails to start. What is left of the
  SoftAP without it are the two theorems before.
* `Priorities`: see the deviations.

*TcpLink.* `SendExclusive` is not inductive. It needs that the mutex is held
exactly by the task in its critical section (`MutexInv`), that a send runs only
while the link counts as up, and that from the timer to `UpSet` the mgmt task,
which works on the socket without the mutex, runs with `g_tcp_up` down
(`AttemptInv`): then neither rx nor tx is on the socket. When the check of `try_tcp_client` misses the mutex a link may still be up; then
`retire` clears the flag under the mutex, or misses it too, and `stop_take`, which
does not, clears it before `connect()`. The refinement maps `tcpUp`, the connection and the descriptor
of the send; each action is a step of `LinkSession` or a stutter under the
invariant. The ledger needs `LockInv` alone, and so holds whatever wait expires.
As long as the module is no client it needs no more than that for the rest
either: `ServerInv` keeps the mgmt task on the labels of a server, at which it
touches the socket under the mutex or not at all, so a wait that expires makes
it skip a round and swap nothing. The finding `swap` is one about clients: of the
waits that may expire it is the one before `stop()` after which they break.

*UdpLink.* `SocketInv` says at which steps of the mgmt task the socket is open,
counts as up or is in between, `KnownInv` where a valid peer can come from: from
a datagram of this very socket, or from the settings the socket was opened for.
Both lean on `MgmtRuns`: no rx or tx stands in the middle of reading or writing
the peer while mgmt changes it.

*SerialIngress.* `BaseInv` holds for reads of any length: which buffers are empty
where, that what stays in the accumulator between two reads may begin a frame
(`Waits`), and that no byte is missing (`Whole`). A read shorter than the
accumulator is put into it as a whole, behind what waits there or in its place,
so nothing is spilled past it. Then every action cuts a first part off one stage
and joins it to the next, or enters it in one of the ledgers, `lost` among them:
`Order` says that all bytes of a stage were read before those of the stages
behind it, the chunk a send works on being one of these.

*ByteChannel.* The pending bytes of the abstract channel are those of all stages
(`Pend`). `Flow` says how a step may change them: it shifts bytes between stages,
which is a stutter, or adds those just read, or takes some out of one stage, to
`sent` or to one ledger. That what is taken out is pending no more needs
`StagesApart`: by `Order` the stages share no byte. `OneFate` is then shown of
`ByteChannel` alone. For `FramesAreHeldBack` the bytes of a frame are found in
the accumulator by their rank: they are increasing and none between them was
read otherwise, so they are the frame as it stood on the bus.

*WifiManager.* The types are proved part by part, among them the limit of the
counted attempts. For `ScanFlagHeld` it is enough that each scan sets the flag
when it enters and clears it on every way out. `OffIsShort` is inductive: who
switches the radio off is about to join, and whoever else finishes meanwhile has
switched it on. `SoftApInv` and `StationInv` are what a scan must have read, and
where the manager may stand, while the mode (and the network) stays what it is,
for every mix of requests, posts among them. `SoftApInv` holds whether scans
start or not: every scan has found the SoftAP on, and so the one that ends
restores it (`ScansRestoreSoftAp`), also after one that did not start and left
the station on. That the station is on in scans only (`StaForScans`) needs that
they start. When nobody scans it is `radio = {"AP"}`: so `SoftApAlone` follows
without fairness. `StationInv` may lose its joining station to a scan that does
not start only if the scan had interrupted an attempt to join.

*ConfigStore.* `SavedWhole` needs that only the holder of the handle writes
(`HandleInv`) and that each setting below `next` equals the copy or is in
`missed` (`WriteInv`). `StoreInRange` needs that every copy is clamped
(`CopyInv`), and `NothingOverlooked` that whoever writes has tried to write the
schema version before. `BootInv` keeps `setup()` and the other tasks apart.
`ResetSticks` rests on `ResetInv`, that the save of a reset works on a copy of
the defaults: what it writes, and what it fails to write, leaves a store in which
every setting is absent or the default (`Cleared`), and such a store loads as the
defaults with and without the schema version (`ClearedLoads`).

*ConfigSession.* `LockInv` keeps the two tasks apart in the critical sections of
`g_pending_mu`. On it rests `AnswerInv`: a request is pending or being answered,
never both, but for the moment in which a new one overwrites it. `LineInv`
counts the bytes that have passed the test for a full line and are not yet
written, `ReturnInv` follows the transport from the bytes to the answers.
For `DelayedAnswer` a request counts as open from the moment its time is written,
and as being answered from the moment it is copied. Copied is `req`, which is
written after `due`: that it is the open request needs the mutex, by which nobody
takes it between the two.

*Timers.* `TimerInv` ties the stored time, the clock and the true times together
modulo the range: as long as less than the range has passed since a time was
stored, the unsigned difference is the age, and as a signed one it is so below
half the range. The cases that remain are the exceptions in `NeverLate`. Of the
reconnect, `WaitingLong` bounds the outage: each round that does not fire proves
the signed difference short or negative, and it is not negative for longer than
half the range.

Every safety property of the runs is proved. Model-checked only: liveness
(`Reconnects`, `DeadLinkNoticed`, `ChunkFlushed`, `FallsBack`, `StationTries`,
`RadioComesBack`, `ResetEnds`, `DiscoverAnswered`, `SessionEnds`, `UdpComesUp`,
`Receives`, and `SoftApAlone` of a module whose mode changes on the way), which rests
on fairness and is out of reach of the prover. `OffIsShort`, `AtWork`,
`StaForScans` and `ServerInv` were checked by TLC, as far as its time went,
before they were proved; they are no properties of the runs.

## 5. Not modelled

* The byte counters, and that 64-bit counters are read and written in two
  halves; the announcement texts and the last peer of `config_udp`; what
  `rs485_tx_task` writes or discards.
* The OTA upload: its handlers run in one task, one after the other, and what
  the library behind `Update` does decides the rest.
* `packetizer` (nobody calls it), `config_crc`, `device_identity`, LEDs, pages,
  pins, texts of answers, the log line: no state, or nothing but wording.

## 6. Plan

What is there was built in this order: `TcpLink` with `LinkSession` (one link
under timeouts), `SerialIngress` (order and loss of bytes), `WifiManager` (the
radio without a lock), `ConfigStore` (saves, resets, losses of power), `Timers`,
`ConfigSession`, `UdpLink`, then the abstract `ByteChannel` and `DelayedAnswer`.
What could follow:

| Module | Question | Theorems |
|---|---|---|
| counters | bytes passed and dropped, counted by `network_bridge` and `rs485_uart` | their balance: known to fail in the paths above |
| composition | configuration, radio and link together: `Configure` and `StaChange` of `TcpLink` become steps of `ConfigStore` and `WifiManager` | the safety of the parts carries over: each lets the other's variables change at any moment |
