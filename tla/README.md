# A TLA+ development of zephyr_polling

zephyr_polling is a Bluetooth LE host: the host of Zephyr, rewritten to run
without an operating system. There is one thread. Its main loop calls
`bt_polling_work`, the application and the transport in turn, and everything that
Zephyr did in threads and work queues is a state machine, a queue looked at once
per turn, or an item on a list of timeouts. Nothing blocks: `K_FOREVER` is accepted
and means "at once". Most of what can go wrong here comes from that change.

The modules in this directory describe the parts that carry that design, are
checked by TLC on small instances, and in part proved by TLAPS for all of them.
`src/...` below is the path in the repository.

## 1. The system

### Components

| Component (source) | State | Operations | What makes it correct |
|---|---|---|---|
| Buffer pools (`utils/spool.c`) | ring of pointers, read and write index, `uint8_t` | init, enqueue, dequeue, size, full | every free buffer once in the ring; first freed, first reused |
| Network buffers (`common/net_buf.c`) | reference count, next fragment | alloc, ref, unref, chains of fragments, queues | a count is the number of references; no use after free, no leak |
| Buffer allocation (`common/bt_buf.c`) | seven pools | allocate by packet type, drop advertising reports, empty for sleep | a Command Complete always finds a buffer |
| Timeouts, works, timers (`common/timeout.c`, `work.h`, `timer.c`) | sorted list of items with 32-bit deadlines | announce a tick, poll, submit, reschedule, cancel, start, stop | order of deadlines, nothing early, nothing forgotten |
| HCI command path (`host/hci_core.c`) | queue of commands, `cmd_data_new`, `ncmd_sem` | create, send, Command Complete, Command Status | flags of the host follow the controller |
| Start-up (`host/hci_core.c`, `chipset/*`) | `hci_state`, `hci_init_state` | a chain of commands | ends, with everything configured |
| Connections (`host/conn.c`, `hci_core.c`) | slots with state, references, transmit queue and contexts, `acl_pkts`, `disconnected_handles` | connect, disconnect, send, complete, clean up | contexts, references and credits accounted for; slots reused only when idle; ends reported |
| Advertising (`host/adv.c`, `id.c`) | `BT_ADV_ENABLED`, `BT_ADV_PERSIST`, a waiting slot, the random address and its timer | start, stop, resume, limit, rotate the address | the device advertises as long as it was asked to, with the address it was asked for; flags and slots agree |
| H:4 transport (`drivers/hci_h4.c`) | packet being received, transmit queue | poll: one step of each | packets whole and in order, each delivered once; only reports given up |
| Sleep (`host/hci_core.c`, `common/bt_buf.c`) | sleep flags | allow, prepare, wake up | nothing in use when the pools are cleared |
| L2CAP (`host/l2cap.c`) | channels with credits, queues and a timer; contexts of segments | connect, disconnect, send, receive, return credits | a channel with credits goes on; the peer gets its credits back; requests are timed |
| ATT (`host/att.c`) | a bearer with the request outstanding, queues, contexts and a timer | send, answer, cancel, retry, time out; handlers of requests | one transaction at a time; every request ends once |
| GATT (`host/gatt.c`) | the database; what each client knows of it; whom it notifies; subscriptions and discoveries of the client | change, indicate, confirm; configure, notify; subscribe; discover | changes reach clients; clients are notified as they asked; subscriptions hold until told otherwise; discoveries are exact |
| SMP (`host/smp.c`, `ecc.c`) | a context per link: flags, commands allowed, timer; one DHKey computation | pairing as either role, key distribution | each pairing its own keys, each end reported once, none without a timer |
| Central role (`host/scan.c`, `conn.c`, `id.c`) | scan flags, pending connections, random address | scan, connect, cancel, background connections | the scan that is wanted runs; connections come about or end |
| Keys (`host/keys.c`, `id.c`, `bt_storage_kv.c`) | key pool, resolving list, storage | store, find, clear, load | the three agree, also after a restart |
| Cryptography, services, logging, ports | | | |

### How they interact

    main loop (porting/*/main.c), for ever:
      bt_polling_work
        hci_state_polling     start-up: the next phase
        hci_tx_thread         one command, then one packet of each connection
        hci_rx_thread         one event or packet of rx_queue: the late handlers
        timeout_polling_work  every expired work and timer
      app_polling_work        the application
      bt_hci_h4_polling       one step of transmission, one step of reception;
                              a complete packet goes to bt_recv: the early handlers

Command Complete, Command Status and Number Of Completed Packets are handled when
they arrive; Connection Complete and data wait in `rx_queue`; Disconnection Complete
is handled twice, when it arrives (`hci_disconn_complete_prio`) and when its turn
in the queue comes (`hci_disconn_complete`). Handlers call back into the
application, send commands and submit works, which run later in the same turn or
in the next.

### What is hard

- Order: the end of a connection is seen before its beginning; packets are sent
  between the two halves of a disconnection; works of a slot wait on the list while
  the slot is freed and taken again.
- Limits that do not hold: `k_sem_take` always succeeds (`utils/k_sem.h:106`), so
  neither the controller's buffers nor its command credits hold anything up.
- Global state behind asynchronous calls: one `cmd_data_new`, one table of
  disconnected handles.
- Narrow integers: `uint8_t` ring indices and counts, `int32_t` deadlines compared
  with a `uint32_t` clock.
- Failure on the way: a packet taken off its queue for a connection that is going
  down; a pool that is empty.
- Answers that come late: to a request that was cancelled, a pairing that failed, an
  indication of a database that has changed since, a connection that was given up.
- Several users of one thing: the scanner, the random address, the DHKey, the contexts
  of a link, the list of subscriptions.

`PROJECT.json` lists each of these at its line, with the properties that would
catch it, or why none does yet.

## 2. Modules

| Module | Models | Used by |
|---|---|---|
| `Spool` | the ring of `spool.c` | `NetBuf` |
| `FreePool` | abstract: a first-in first-out pool | refined by `NetBuf` |
| `NetBuf` | references and fragment chains over one pool | `MCNetBuf`, `NetBufProofs` |
| `NetBufProofs` | theorems about the ring (`Spool`) and the buffers | |
| `TimeoutsProofs`, `HciCmdProofs`, `ConnProofs`, `TransportProofs` | theorems about the module of that name | |
| `GattProofs` | theorems about `Att`, `Notify` and `Gatt` | |
| `LayersProofs` | theorems about `Subscribe`, `Advertise`, `Central` and `Identities` | |
| `ListLemmas` | lemmas about lists, lists of lists and sums | all proofs but `NetBufProofs` |
| `Timeouts` | the timeout list, works and timers | `MCTimeouts` |
| `HciCmd` | command path, start-up, the csr8510 phase | `MCHciCmd` |
| `Conn` | connections, ACL transmission, advertising of a peripheral | `MCConn` |
| `Transport` | the H:4 transport, the pools it takes buffers from, sleep | `MCTransport` |
| `UsbDriver` | the threads of the USB driver for Windows, the pools they share, the driver's reset, sleep | `MCLayers` |
| `L2cap` | LE credit based channels of one link | `MCLayers` |
| `Att` | the fixed bearer of ATT on one link | `MCLayers` |
| `Smp` | pairing on several links | `MCLayers` |
| `Levels` | security levels, methods, questions to the application and bonds, both ends | `MCLayers` |
| `Gatt` | change of the database and its clients | `MCLayers` |
| `Notify` | the CCC of a server and whom it notifies | `MCLayers` |
| `Subscribe` | a client's subscriptions to one peer | `MCLayers` |
| `Discover` | discovery, client against server | `MCLayers` |
| `Central` | scanning and connecting | `MCLayers` |
| `Bonds` | key pool, resolving list and storage | `MCLayers` |
| `Identities` | identities and name of the device, and their storage | `MCLayers` |
| `Advertise` | the advertiser of a peripheral and its private address | `MCLayers` |
| `LongValues` | values read and written in pieces, client against server | `MCLayers` |
| `Features` | services registered at run time, features of clients and what is stored of them | `MCLayers` |
| `Tell` | notifications that share a PDU, and indications | `MCLayers` |
| `Params` | parameters, PHY and data length of a connection, both ends | `MCLayers` |
| `Ecred` | enhanced bearers of ATT over enhanced channels, both ends of a link | `MCLayers` |

The `map` of `PROJECT.json` gives the lines of each definition.

### Spool and NetBuf

`ring`, `rptr` and `wptr` are the fields of `struct spool`; `N` is the number of
buffers and `W` the number of values of `uint8_t`, so that `num = (N + 1) % W` is
what the code stores. `ref` and `frags` are fields of `struct net_buf`. `held` is
what the C code does not write down: which location of the code owns which
references. An action releases only what its holder owns; that is the discipline
of the callers, and what `net_buf` promises in return is the subject of the module.
`net_buf_unref` is a loop over a chain of fragments. Each turn is a step, and `walk`
is the buffer the next turn looks at; nothing else runs meanwhile.

### Timeouts

`list` is `timeout_list`, `dticks` the deadline as stored, modulo `W`, and `now` and
`due` the real time. A handler is a state in which `running` is the item whose
handler the loop has called: any operation may be called there, on any item, up to
`MaxCalls` times, and the same from the main loop outside of
`timeout_polling_work`. `Announce` may happen at any moment, since the tick source
is an interrupt on some ports.

### HciCmd

`hciState` and `initState` are the two state variables of the code; `AfterInit` is
the chain of `hci_state_event_process`, whose value depends on the features the
controller reports. A command that changes a flag has the flag's name as its
opcode. The controller answers every command in order: the start-up commands and
RESET with Command Complete, others with Command Complete or Command Status, with
success or failure, and with a command credit of 0 or 1. The chipset driver is
csr8510: two vendor commands, each answered by a vendor event, and a restart of the
controller which a thread of the USB driver waits for. Other drivers with a phase
of their own (csr8910, artpi) resend RESET by timer and are not modelled yet. The application
sends no command of start-up (`HciCmdAssumption`): it gets the answers as its own, and the chain
would go on with them.

### Conn

A slot of `acl_conns` is a record: state, reference count, handle, the transmit
queue (the context of each packet, or none), the pending packets, the contexts
whose callback is due, and whether `deferred_work` is scheduled with
`CONN_UPDATE_TIMEOUT`. `work` holds the works submitted without delay, in the order
of the timeout list (the module `Timeouts` shows that it is their order). `link`
numbers the links the controller established; `onAir`, `told` and `held` record what
the properties compare with: packets given to the transport, what the application
knows, and the references it took.

Handlers are whole actions. `ConnComplete`, for instance, is
`bt_hci_le_enh_conn_complete` with the lookup of the waiting slot, the clearing of
`BT_ADV_ENABLED`, the resumption of advertising in another slot, the two state
changes of a link that is already gone, and the call of the application.

The controller connects while it advertises, drops links, completes packets and
delivers data; a command reaches it at once, an event takes its time in `wire`.
`Settled` is an assumption about it: a handle is given to a new link only when no
event or packet of the old one is on its way. The Core specification lets the
controller reuse a handle after Disconnection Complete; it does not speak of what
waits in the host's transport, which is listed as a hazard.

The main loop's steps are interleaved freely, which includes the order of every
port. `Backlog`, the length of `rx_queue` when the driver calls `bt_recv`, is bounded
as the ports bound it. Every `main.c` receives at most one packet per turn, and
`hci_rx_thread` takes one off `rx_queue` before that, so that `rx_queue` is empty
when `bt_recv` is called: `Backlog = 0`. The interface in `hci_driver.h` permits
more, and more is not safe: with `Backlog = 1` and two handles TLC finds
`FreeSlotIsIdle` violated, because a table of
disconnected handles full of old entries loses an early disconnection, and the
connection then goes from CONNECTED to DISCONNECTED directly (`conn.c:1181`).

Left out of `Conn`: fragmentation (a packet is one controller buffer long), the
central role (see `Central`), directed and extended advertising, parameter updates (see `Params`), security (see `Levels`), ISO
and BR/EDR. Advertising resumes after a connection as with a controller that can
advertise while connected (`BT_LE_STATES_PER_CONN_ADV`).

### Transport

`rx`, `rxBuf`, `tx` and the two queues are the static variables of `hci_h4.c`; `free`
counts the buffers of each pool. A byte on the wire is a pair of its packet and its
position, so that what arrives can be compared with what was sent. Each call of the
driver moves any number of bytes. `Sleep` is `bt_check_allow_sleep` and
`bt_sleep_prepare_work` at the end of a turn, `TimerWake` and reception wake the host up,
and the pools are made anew as `bt_buf.c` does. `monitor` is a configuration option and
chosen in `Init`.

Lengths are chosen so that the receiver meets each case: payloads that fit, that fit no
buffer, that fit the buffer left over from the packet before. Left out is a payload that
fits its buffer only without the header: `read_payload` compares the payload alone with the
room (`hci_h4.c:258`), and the assertion in `net_buf_add` fails. An LE meta event has at
least its subevent code (`TransportAssumption`), for which `get_evt_hdr` waits. The wake-up is one step, as on the ports where it is called from the main loop or an
interrupt; the USB ports call its first half from a thread.

### UsbDriver

The ports for Windows with USB run five threads: the main loop, one that writes (`tx`), one for each
endpoint that is read and the timer's (`rx`), and one that resets the driver (`reset`). `mem` is what
they share: the queues, which have locks, and the flags and pools, which have none, so that a step of
the model lies between two accesses to those; `usb` is the controller. Five instances: reading with
few buffers, writing while the host gives buffers of a connection back, a reset with packets in every
place (two), and sleep.

What the properties leave out, because the code does it:

- `net_buf_unref` in the thread that writes and in the main loop may both see the same write index of
  a pool; one buffer is lost (`raced`). Of commands and received packets one side only allocates and
  the other only frees;
- the queues are made anew at a reset with what is in them (`windows_driver_libusb.c:387`), after the
  threads that fill them have started (`leaked`);
- sleep is only safe from one thread at a time, as the comment says (`hci_core.c:4208` "For muti
  thread need this"): a reader that starts between the check of the main loop and the flag (4193)
  finds no pools, and is stuck; two readers that wake the host make the pools twice; and the first
  that ends takes the lock of the other (`torn`).

Not claimed: that data follows the event of its connection; the endpoints are read by different
threads, and `hci_acl` drops data of a handle it does not know yet.

### L2cap

`mux` is the list of channels of the link with the state of each (state, credits of both
sides, queues, timer), and the requests the peer has not answered; `flight` are the segments
given to `conn.c`, `metas` the free entries of `l2cap_tx_meta_data`. Handlers are actions:
connection requests and responses of either side, `rtx_timeout`, encryption, the segment
callbacks, credits, reception with its work item, disconnection. Three instances: channels
that open and close, one that receives, two that send and share the contexts.

What the module reaches and its properties name as exceptions: `seg_sent` resumes its own
channel only, so that a channel that ran out of contexts waits for another's traffic
(`LimboHasACause`); a channel taken off the list in the middle of an SDU cuts the chain of
callbacks (`cut`); credits for the rest of an SDU are added once (`PeerIsNotStarved`).

### Ecred

`end` is what each end of a link keeps: the channels with their identifier, CIDs, MTUs and
timer, and of `struct bt_att` what `att_connection_work`, `handle_potential_collision` and
`att_schedule_eatt_connect` keep; `air` are the signalling PDUs on their way to it. One request
opens or reconfigures up to five channels, and one of them has the timer of all. Three
instances: both ends open their bearers at the same time, each with a request of its own per
channel; they reconfigure and close single ones; requests time out or find no buffer. Named
exceptions (`odd`):

- a channel that is connecting is disconnected or reconfigured: the new request overwrites its
  identifier, and the answer to the first finds nobody (`l2cap.c:3131`, `3215`);
- both ends disconnect a channel at once and its CID is taken again at once: the late answer
  goes by the CID only and removes the new channel (`l2cap.c:1890`);
- a request runs out of time, and its late answer opens one end only;
- `le_ecred_conn_req` finds no buffer for its answer and keeps the channels (`l2cap.c:1381`);
  `disc_pool` has one buffer (59), so that `bt_eatt_disconnect` closes the first channel, and the
  others fail with `-ENOMEM` (`att.c:3695`).

`bt_eatt_reconfigure` of more channels than fit a request gets `-EBUSY` for the second request,
`l2cap_rtx_timeout` reads the identifier from a channel it has released, and
`l2cap_ecred_conn_req` (562) does not look at its buffer.

### Att

`bearer` is the channel: the request outstanding, `retrying`, the timer, the queues of
requests and PDUs, and for each entry of `tx_meta_data` where it is. Requests, answers and
notifications are sent, reported as sent, answered, cancelled and retried in any order,
while others take contexts from the same pool. A cancelled request leaves `Cancelled` in its
place until its answer comes, which is what keeps the next request from going out early
(`OneTransaction`).

A request waits for ever if every context was taken by others when it was made and nothing
is sent on its channel later (`att.c:475`), so that requests end is not claimed; that those
on the channel are under the timer is (`TransactionGuarded`).

### Smp

`smp` holds for each link the flags, the commands it accepts, the state of the method, and
what was agreed; `gen` is the one DHKey computation of `ecc.c`, `pkey` the public key.
`Offers` are what two sides may agree on, `Sendings` what may become of a PDU. The peer sends
any command at any time. One link with everything, and two that need the controller at the
same time. Named exceptions: the acknowledgement of a key after the pairing failed is taken
for its success (`smp.c:620`), and a dropped PDU leaves a pairing without timer
(`smp.c:1821`).

### Levels

What `Smp` takes as agreed: `host` is the connection and the SMP context of each end (required and
reached level, features, method, question open, keys), `inbox` what is on its way to it, `link` the
key the link is encrypted with, `told` what the applications asked for and heard. Both ends run the
code, from the security request to the bond, with what is asked of the applications on the way; the
PDUs that prove the secret are one from each end, and a proof fails if secret or features differ.
Three instances: hosts of every capability that meet for the first time; that have bonds, or one of
them has, meet twice and may force a new pairing; with data out of band, a fixed passkey, or no wish
for a bond.

What the properties leave out, because the code does it:

- `bt_conn_set_security` that fails with `-EBUSY` resets `required_sec_level` to what the link has
  (`conn.c:2397`): the pairing under way may end with less than the first call asked for.
- `le_sc_oob_data_check` joins its conditions with `&&` (`smp.c:5806`): no data at all is accepted
  when only one end has any.
- with a fixed passkey an end that can only enter claims `KEYBOARD_DISPLAY` (`smp.c:328`) and may be
  asked to compare numbers without a callback for it.

Not claimed: that a comment holds which says that a call during key distribution starts a new
pairing (`bt_smp_start_security` returns `-EBUSY`, `smp.c:6052`), nor that keys survive an
encryption that fails during a pairing (`bt_smp_encrypt_change` clears them).

### Gatt

`db` counts the changes, `sc` is `gatt_sc` (the range, its flags and the work item), `peer`
what the server keeps of each client and what the client in truth has been told. A range is
the set of changes in it. `tricked` marks a client that became change-aware although it
could not know: by any end of an indication (`gatt.c:1374`), or by a command, which is not
answered, taken for a refused request (`att.c:2087`).

### Features

`gatt` is the server: the list of services with their handles, the hash with its flags and work,
`cf_cfg`, and `gatt_delayed_store`; `flash` what is stored, `known` each client with the database
it believes in. The hash of the database is the list of services with their handles, which is what
`gen_hash_m` digests, so that two databases have one hash only if they are the same. A restart may
come at any moment, also between the two writes of `db_hash_process`. Three instances: one client
and two services that come and go, three clients for the slots of two, services alone.

`AwareClientsKnow` is the point of the module: whom the server takes for change-aware knows the
database as it is, whatever was stored, lost with a power failure, or registered differently after
it. Named exceptions:

- a client that learned of a change before the hash was stored, 10 ms later, when power was lost
  (`early`);
- `bt_gatt_clear_cf` does not delete what is stored (its code is compiled out), and
  `set_all_change_unaware` stores features of clients that are not bonded: after a restart `cf_set`
  gives them slots which nobody frees, and the features of bonded clients may find none;
- a bond that is removed while its store is put off keeps its place in the list for good
  (`delayed_store` looks at bonded peers only); when all places are lost, the assertion of
  `gatt_delayed_store_enqueue` fails (`stuck`, `failed`).

What is stored is read back by the handlers of `gatt.c` (`cf_set`, `db_hash_set`) at start-up, as
its `SETTINGS_STATIC_HANDLER_DEFINE` asks a settings backend to do. The backend in `settings.c` is
not there yet: `settings_save_one` writes `bt/hash` and `bt/cf/...` under `KEY_INDEX_NULL` and
`bt_settings_init` calls no handler, so that with it a restart finds neither. The module shows that
`gatt.c` is right with a backend that keeps what it is given.

Values of CCCs and ranges of Service Changed are not stored at all: `bt_gatt_store_ccc` and
`sc_store` are compiled out, so that a server with `CONFIG_BT_SETTINGS` restarts without them.

### Notify

`cfg` is the table of a `_bt_gatt_ccc`, `value` its value, `client` each peer with its link
and bond. `bt_gatt_attr_read_ccc` and `notify_cb` change nothing of it and are the operators
`ReadCcc` and `Notified`, which `ServedAsAsked` compares with what each client last wrote.
A private address turns into an identity in the middle of a link, keys are lost and made
anew, links close while others are torn down. `left` marks an entry that stays when it
should not:

- the first of two links that close is torn down and sets the value to 0, so the entry of
  the second, which is not bonded, is skipped (`gatt.c:3558`);
- a first write refused by the application leaves an entry with the value 0, which
  `disconnected_cb` does not look at (`gatt.c:2368`, `3571`);
- a peer that lost its keys bonds again under the same identity: `bt_keys_clear` is called,
  not `bt_gatt_clear`, and there are two entries (`smp.c:4077`).

Not claimed, because the code does otherwise: that the value is the highest of the
*connected* peers, as `gatt.h:734` says (`gatt_ccc_changed` looks at all), and that a client
that writes 3 is notified (`gatt.c:2922`). A restart forgets the table.

### Tell

`talk` is the server: for each link what its client configured, the batch in `nfy_mult`, the
bearer as in `Att`, and the free entries of `tx_meta_data`; `inds` the parameters of indications
with `_ref`; `tally` counts, for each pair of callback and user data, what was accepted, reported
and dropped. One link with batches of two values and few entries, and two links with an
indication for each.

- `cleanup_notify` releases the buffer of a batch but not its entry of `tx_meta_data`
  (`gatt.c:2552`), so that a link that ends with a batch takes one away for good (`lost`).
- A batch whose link has ended when `nfy_mult_work` runs is released by `bt_att_send` and again by
  `gatt_notify_mult_send` (`gatt.c:2491`); the second time the count of the buffer wraps.
- Not claimed: that a PDU fits the MTU of the peer. A batch grows as long as the buffer has room,
  whatever the MTU (`gatt.c:2582`), and `gatt_notify_multiple_verify_params` counts one header for
  all values (`gatt.c:3193`).

### Params

`hosts` is the connection as each host has it: flags, the parameters stored for the timer or for
L2CAP (`pend`), those of the link (`cur`), the countdown of retries. `lle` is the link with the one
procedure its controllers have under way, `evq` and `sig` are events and L2CAP requests on their
way. `will` follows the last wish of the peripheral's application from being held to being put to
the peer. A host sends through its controller at once; the status of the command is ignored, as
the code does, so that a wish may meet a busy controller and be lost (`busy`).

What the properties leave out, because the code does it:

- `deferred_work` clears `PERIPHERAL_PARAM_SET` before it sends: when sending fails, the
  application's parameters are gone (`conn.c:1862`); so are parameters that are not valid, which
  `bt_conn_le_param_update` accepts before the timer ends.
- when the central has met the wish already, `notify_le_param_updated` clears the flag lest the
  request be sent at the timeout; at the timeout the preferred parameters are asked for instead
  (`conn.c:1597`).
- a retry asks for the preferred parameters although the application has asked for its own in the
  meantime (`conn.c:1879`).

### Subscribe

`entry` is an entry of `subscriptions[]` with the flags of each parameter and what the
application was told, `reqs` the writes outstanding in their order, `ccc` what the peer has
configured, `session` the link and the bond. Reconnection, encryption, unpairing and a
restart are actions. `mangled` marks that `gatt_write_ccc_rsp` removed the wrong node: it
passes the next node as the previous one (`gatt.c:5497`). `spoiled` are the parameters whose
characteristic may not be as they want it, because a write of it was refused, cancelled or not
made and nobody makes up for it. `PeerFollows` says what holds of the others: on a link with the
security of the bond, or once they were written on this link, their characteristic is configured
and no request will change that, or the last request outstanding for it will configure it.

### Discover

The client's procedures against the server's handlers; a response is a list of entries that
fits the MTU, computed as the handlers fill it, entry by entry with their lengths in bytes.
`found` is what the application is told. The databases and questions are enumerated in
`MCLayers`. Named exceptions: an MTU that cuts a 128-bit service (`att.c:1914`), the value
whose declaration ended a response (`gatt.c:4713`), and the include that is found again
(`gatt.c:4210`).

### Central

`host` holds the flags of `bt_dev`, the queue of commands and the one remembered, the random
address and the slots; `ctl` the controller, `wire` its events. A command completes later,
and only the last one made changes its flag, as in `HciCmd`. Two instances: an application
that connects to two peers itself and scans in between, and one that leaves a peer to
`bt_le_set_auto_conn`. `blind` marks a command that was made while a flag did not tell the
truth.

`crowded` marks that two connections were pending at once, which the comment in
`le_conn_complete_cancel` (`hci_core.c:1066`) excludes. They can be: after the host decided to
connect to one peer, `check_pending_conn` and `bt_conn_le_create` look at flags that follow
only when the commands complete, so that a report of a second peer in the meantime, or a call,
makes a second slot CONNECTING. The controller refuses its command; nobody looks at that, neither its
timer nor a cancel ends it, and "cancelled" may end the wrong slot. With two peers for
`bt_le_set_auto_conn` TLC finds this, and `PendingEnds` and `ConnectsAsItself` except it; the
instances of `MCLayers` are smaller.

### Bonds

`keyring` is `key_pool` with the resolving list (its count, what the controller holds, what
is put off while a connection is made) and the storage (list and items); `acl` is the link
with its slot and the steps of a pairing that touch keys; `bonded` is what the application
was told. `Restart` loads the storage. Peers may hide behind private addresses. Named
exceptions: `clobbered`, that a bond was stored over another (`keys.c:177` has index 0 for
every new address), and `leaked`, that `bt_keys_clear` lost what `bt_id_del` had put off
(`id.c:1174`).

### Identities

`dev` is the part of `bt_dev` with identities and name, and what uses them (advertising, links,
bonds, one for each identity); `todo` what a call still has to store, `flash` the files. The array of
addresses and that of keys are stored whole, one after the other (`bt_settings_save_id`); power may
be lost between them, and between the steps in which the port for Windows replaces a file (deletes
it, creates it, writes it). `has` and `paired` are what the application may rely on. Three instances:
a controller with an address and one without, and one with an address for the name.

After a restart the count is `CONFIG_BT_ID_MAX`, because the length read is the one asked for
(`settings.c:93`; `ID_DATA_LEN` is unused): `bt_id_create` then finds no place, `bt_id_reset` uses
the empty ones. What the properties leave out, because the code does it:

- power lost in the midst of a write leaves a file that is missing or empty; of an empty one all
  identities are `BT_ADDR_LE_ANY`, and none is made anew (`torn`);
- an identity made before `bt_enable` is stored over those of the last run, though a comment says
  that it is not stored (`id.c:1346`) (`over`);
- one made between the command `READ_BD_ADDR` and its answer is overwritten (`hci_core.c:2787`)
  (`raced`);
- an application that names the device with an empty name finds the default one after a restart,
  since an empty name counts as none (`settings.c:431`): `Names` has none;
- `bt_unpair` of all bonds of an identity disconnects the links that have a bond (`linked`).

Not modelled: the port for RT-Thread, whose storage reads nothing and reports success.

### Advertise

`adv` holds the flags of the advertiser and of `bt_dev`, `random_addr`, the commands on their
way with the one `cmd_data_new` remembers, and the slots; `radio` is the controller, `events`
its events. `Started`, `Resumed`, `Stopped` and `Rotate` are the functions of `adv.c` and
`id.c`, which several actions call: the application, `adv_timeout`, `rpa_timeout`,
`bt_le_oob_get_local`, a Connection Complete, the last `bt_conn_unref`. `wish` is what the
application asked for and has not ended. `blind` marks a call or timer that looked at
`BT_ADV_ENABLED` when it did not tell the truth; what comes of it is not claimed to be right
until advertising starts anew:

- a rotation, a stop or a start before the Enable command has completed: the address command
  is refused or the stop does nothing (`id.c:559`, `adv.c:1533`);
- a rotation while a Connection Complete is on its way: `resp_addr` is the new address, the
  peer connected to the old one (`hci_core.c:1295`);
- `conn_auto_initiate` sends a command right after `bt_le_adv_resume`, whose own is forgotten
  with it: the flag is never set although the device advertises (`hci_core.c:1394`);
- a second `bt_le_adv_resume` while the first is on its way takes a second slot (`adv.c:1636`).

Two more exceptions are in the properties: `set_random_address` does not know of
`BT_DEV_RPA_VALID`, so that private advertising after identity advertising shows the identity
until the timer fires (`id.c:318`); limited advertising that was resumed has no limit. The
application is assumed not to ask for a limit while one runs, since `bt_le_adv_start`
initialises the work again while it is on the timeout list (`adv.c:1526`). The specification is called
`AdvSpec`, its parts likewise, because `LayersProofs` extends `Subscribe` too.

### LongValues

`op` holds the parameters of the client's operations, `att` the bearer of each client with the
PDUs on their way, `server` the values, the queue of prepared writes of each client and the
buffers of `prep_pool`, which all clients share. A byte names its operation and its place, so
that what was written can be told from what was meant. The application may refuse a value, and
a buffer for an answer may be lacking. Named exceptions, all of them of a client that writes
two values at a time or after a failure (`mixed`):

- an execute request writes all that is in the queue, also what another operation prepared, and
  what was left there by one that failed: the client does not cancel after an error
  (`gatt.c:5344`);
- the answer goes by the last value: a value refused before it was answered already, so that
  there are two answers (`att.c:2400`), and the client gives the second to its next request,
  since it does not compare an answer with its request;
- a piece out of place ends the execution with the rest left in the queue and the buffer lost
  (`att.c:2390`);
- a cancelled write is reported as a success (`gatt.c:5329`, by way of `gatt_write_rsp`).

Not modelled: `att_reset` hands the buffers of the queue to `tx_meta_data_free` (`att.c:3002`),
which takes their `bt_attr_data` for a pointer.

### MCLayers

These modules share no state: a link's ATT, SMP and L2CAP meet only in the contexts of
`conn.c`, which each counts (`Att` lets others take some), and in the security of the link,
which each changes itself. So one run explores them side by side, a behaviour staying with
one, and `focus` says which. All use the same variables, `v1` to `v7`, in the order each module
declares its own. `LayersAssumption` asserts what the modules assume of their constants. Credit based channels, a changing database and caching, and automatic
resubscription are options that no example turns on; they are modelled as configured in the
head of each module, since the host offers them.

## 3. Runs

| Run | Question | Bounds and why they suffice |
|---|---|---|
| `netbuf` | Are references, free buffers and the abstract pool in agreement? | 3 buffers, so that a chain has an inner fragment and the ring wraps at every index; 2 holders, so that a buffer is shared; `W = 5`, so that N + 1 is the largest value of the index type; `R = 8`. The theorems lift the bounds. |
| `timeouts` | Do items fire in order, on time, once? | 2 works, 1 timer: a handler acts on itself, another work, a timer; delays 0, 1, 2 give equal and crossing deadlines; 2 calls per handler; deadlines stay below `W / 2`. |
| `schedule` | Does `k_work_schedule` keep a deadline? Violated. | as `timeouts`, with `Schedule` only |
| `hci_cmd` | Does start-up end, configured? Do flags follow the controller when commands are sent one at a time? | every combination of features, identity and chipset phase; 3 commands after start-up, so that a flag is set, cleared and left |
| `cmd_data` | Do flags follow with two commands on their way? Violated. | 2 commands at once |
| `conn` | Are contexts, references, credits and slots accounted for? | 2 slots and 2 handles with 2 links, one after the other or at once; 1 context and 1 credit, so that both run out; 2 packets with and without callback; 1 event on its way besides the one in `rx_queue` |
| `conn_drop` | Is the end of every connection reported? | 2 slots, 1 handle reused, under fairness |
| `stale_handle` | Is a connection taken for dead only if it is? Violated. | 1 slot, 1 handle, no packets |
| `buffer_leak` | Does every buffer return to `acl_tx_pool`? Violated. | 1 slot, 2 packets |
| `transport` | Are packets delivered whole and in order, and does sleep find all buffers free? | 1 buffer in each pool, so that every pool runs dry; 3 packets received, so that a packet meets what two others left; 1 sent; every cut of the bytes |
| `layers` | Do the protocol layers keep what they promise? | two of everything that can get in each other's way (requests, links, channels, clients, slots, parameters, bonds), and small pools, so that each runs dry; 42 instances, named in `MCLayers`. Attempts (offers, changes, SDUs, commands waiting) are bounded by the constants commented "bound". |
| `acl_credit` | Does the host respect the controller's buffers? Violated. | 1 slot, 2 packets, 1 buffer in the controller |

What the passing runs say:

- `RefsAccounted`, `FreeExactlyOnce`, `SizeExact`, `ImplementsPool` (netbuf).
  `net_buf_unref` ignores the result of `spool_enqueue`; there is always room.
- `SortedByDeadline`, `NeverEarlyNorOvertaken`, `SubmissionOrder`, `PollingDrains`,
  `TimersFollowStartStop` (timeouts). `PollingDrains` has a price: a
  handler that resubmits its own work without delay would keep
  `timeout_polling_work` from returning.
- `ReadyMeansConfigured`, `FlagsFollowController`, `EventuallyReady` (hci_cmd).
- `TxContextsAccounted`, `RefsMatchHolders`, `FreeSlotIsIdle`, `PendingMirrorsSent`,
  `CreditsNeverLost` (conn), `DropIsReported` (conn_drop).
- `FramesWhole`, `OnlyReportsLost`, `BuffersAccounted`, `EveryPacketEnds` (transport).
  A host that sleeps may keep a packet waiting, so the last is claimed without
  `CONFIG_BT_MONITOR_SLEEP`.
- `NothingLost`, `PairingsEnd`, `WaitingIsTimed`, `ChannelsFlow`, `ClientsKnowChanges`,
  `ClientsAreServed`, `ScansAndConnects`, `RightAddress`, `AdvertisesAsAsked`,
  `SubscriptionsHold`, `DiscoveryIsExact`, `BondsAreKept` (layers). Each joins named
  properties of the modules, with the exceptions above; without an exception TLC finds the
  behaviour that needs it (for `crowded` with one more peer, see Central).

What the violated ones say (`findings` in `PROJECT.json` quotes both sides):

- `ScheduleKeepsDeadline`: `k_work_schedule` is `k_work_reschedule`
  (`common/work.h:307`), against the comment at its call in `host/gatt.c:2618`.
- `FlagsFollowController` with two commands: the second overwrites `cmd_data_new`,
  and `BT_ADV_ENABLED` stays as it was although the controller advertises.
- `DeadOnlyIfDropped`: advertising is stopped while a Connection Complete is on its
  way; the host finds no slot and disconnects; the handle stays in
  `disconnected_handles` for ever, and the next link with it is DISCONNECT_COMPLETE
  from its first moment, while it is up. This happens with one slot and the shipped
  main loops.
- `EveryBufferReturned`: packets queued when a connection begins to disconnect
  are dequeued, not sent and not freed.
- `FreeControllerBuffers`: `k_sem_take` returns 0 with a count of 0.

Deadlock is not checked where the system may really stop: an application that has
used up its bounded calls and a controller that is silent leave the host idle
(`Conn`, `HciCmd`, `Transport`, the layers). In `NetBuf` and `Timeouts` it is checked.

### Fairness

The main loop never ends, so what it calls in each turn is weakly fair: `Recv`,
`RxThread` and `RunWork` in `Conn`, the host's steps in `HciCmd`. In `HciCmd` the
controller is weakly fair too: it answers what it was sent, or there is no start-up
without a timeout, and the code has none. Nothing is assumed of the application, of
links being dropped or of packets being completed. The transmit step is not fair
either; no liveness property needs it. The reset thread of the USB driver wakes up
after 5 s and counts as a step of the host. In `Transport` the turns of the main loop, its
receiver thread and the periodic timer are fair, the controller is not. The layers state
no liveness: what would end a wait is a timer of 30 s or more, so they claim instead that
the timer runs (`WaitingIsTimed`, `ScansAndConnects`) or that something under way resumes what
waits (`ChannelsFlow`, `ClientsKnowChanges`, `PairingsEnd`).

## 4. Proofs

Proved by TLAPS are the safety properties of twelve modules: every
invariant and every action property that the runs `netbuf`, `timeouts`, `hci_cmd`, `conn` and
`transport` check, and what the run `layers` checks of `Att`, `Subscribe`, `Advertise`, `Central`, `Identities`, `Notify` and
`Gatt`, for all values of the constants that satisfy the module's assumption and the hypotheses named below. `PROJECT.json` lists
the theorems; the modules ending in `Proofs` hold one inductive invariant each, or several where one rests on another, a lemma per action,
and the theorems that follow.

### NetBuf

`NetBufProofs` proves for every number of buffers `N < W`, every width `W` and `R`
of the two counters and every finite set of holders that fits (`RefAssumption`:
holders plus buffers plus one are fewer than `R`):

- `TypesHold`, `ReferencesAccounted`, `NoBufferLostOrShared`: the three invariants;
- `SizesExact`: `spool_size` and `spool_check_full` are exact for `N + 1 < W`, that
  is up to 254 buffers;
- `PoolImplemented`: the specification implements `FreePool!Spec`.

The invariant is

    IInv == TypeOK /\ RefsAccounted /\ FreeExactlyOnce /\ FreeUnlinked

None of its parts is inductive alone. `net_buf_alloc` sets a count to 1, which is
right only if nobody refers to the buffer: that follows from `FreeExactlyOnce` (the
head of the ring has count 0) and `RefsAccounted` (so it has no references).
`net_buf_unref` enqueues without looking at the result, which is right only if the
ring is not full: `RoomForEveryBuffer` derives that from the ring holding each of
the *other* buffers at most once. `FreeUnlinked` (a free buffer has no next
fragment) keeps a chain from starting in the pool, so that a buffer taken from it
adds no reference to another. Each action has a lemma that it preserves `IInv`
(`AllocIInv`, ..., `UnrefLastIInv`), most by way of `ReferencesMove`, which covers
the steps that only move references between holders, chains and the walk.

The lemmas about `Spool` have the arithmetic: what `NextSlot`, `SpoolSize` and the
conversions to `uint8_t` yield (also for `N + 1 = W`, where `num` is 0), and that
`SpoolDequeue` and `SpoolEnqueue` take the head of `FreeList` and append to it. From
these `AllocImplements` and `UnrefLastImplements` make each step of `NetBuf` a step
of `FreePool` or a stutter.

### Timeouts

`TimeoutsProofs` proves for any works, timers, delays and handlers that the types hold and
that a timer is listed as long as it is started (`IInv`, which adds that the list is in the
order of the deadlines as stored, compared as signed numbers). The order of the
real deadlines, that nothing runs early or is overtaken, that a poll leaves nothing due, and
the order of submissions need one more hypothesis, `Horizon`: every deadline of the time
looked at is below `W \div 2`. In the code that is 2^31 ticks of a millisecond, 24 days of
operation; `StoredIsDue` says that until then the stored deadline is the real one. The hypothesis
cannot go: later `first()->dticks <= sys_clock_tick_get()` (`timeout.c:51`) compares a signed
deadline as an unsigned number and `z_add_timeout` two of them as signed ones, and TLC finds
`NeverEarlyNorOvertaken` violated with a smaller `W`.

### Transport

`RxInv` ties the receiver to the stream: there is a packet `p` such that everything before it
was delivered or lost, the bytes on the wire are the rest of `p` and the packets after it, and
the fields of `rx` (`remaining`, `hdrLen`, `haveHdr`, `discard`, the buffer) are exactly those of
a receiver that has taken the first bytes of `p`. `TxInv` says the same of the transmitter.
`FramesWhole` and `OnlyReportsLost` follow for any lengths of packets and any cut of the bytes
into reads and writes. `BufInv` counts the buffers of each pool at each place they may be.
`TransportTypeOK`, that no packet grows beyond its buffer, has the hypothesis `LengthsTold`: the
lengths that `read_header` and `read_payload` compare tell the packets that fit from the others,
so that the case left out of the module (see above) does not occur. `MCTransport` asserts it of
its lengths.

### HciCmd

`IInv` is the chain of start-up: in each state of `hci_state` and `hci_init_state`, what is on its way
between host and controller (`OneOut`, `Waiting`, nothing but no-operation events), and what was
answered so far. `Rank` numbers the commands of the chain, `Asked(n)` says that everything needed
up to rank `n` was answered, in order. `ReadyMeansConfigured` is `Asked` of the last.
`FlagsFollowController` needs `FlagInv` besides, and the hypothesis `MaxInFlight <= 1`: with one
command of the application at a time, `cmd_data_new` is that of the command answered. With two it is not,
which is the finding of the run `cmd_data`. The module's assumption says that the application sends none of the commands of start-up.

### Conn

Four invariants, each resting on those before it:

- `RefInv`: the references of each slot, and who will drop the first one: an advertiser its
  stop, a connection its `deferred_work`. It holds for any `Backlog` and yields
  `RefsMatchHolders`.
- `IdleInv`: what a slot holds in each state. Its heart is `Unacked(k) = onAir`: `pending_no_cb` and
  the counters of `tx_pending` spell out, packet by packet, what was given to the transport and not
  reported. Others of its parts are that `tx_complete_work` never comes after `deferred_work` in the list, and
  that the event of a disconnection finds a slot that was declared dead at once. It
  yields `PendingMirrorsSent` and `FreeSlotIsIdle`.
- `CountInv`: sums over the slots. The credits that are not available are owed by slots, and each
  context occurs once in `free_tx` and all queues of all slots. It yields `CreditsNeverLost` and
  `TxContextsAccounted`.
- `LinkInv` and `BoundInv`: links and events, and the limits of pool and controller; with the others they
  yield `TypeOK`.

From the second on the theorems assume `Backlog = 0`: `rx_queue` is empty when the driver calls
`bt_recv`, as with the main loop of every port (section 2, Conn). Without it `IdleInv` is false, and
so is `FreeSlotIsIdle`.

### Att

`GattProofs` proves all invariants of `Att` for any finite sets of requests, of meta data and thus of
contexts. `AttInv` says of the bearer:

- `Kept`: each meta data is in exactly one place. `HeldIn` counts them: free, in one of the two
  queues, with a PDU in flight, with a request that waits. The counts are what is inductive; that the sets
  are disjoint and their sizes add up, which `MetasAccounted` says, follows in the end.
  `Kept` has a parameter, the PDUs whose callback is running: `bt_att_sent` sends the next PDU before the
  meta data of the last one is free.
- `Listed`: where the requests are, which is `RequestsAccounted`.
- `Serves` of a bearer that is attached: one question at a time and the timer. To be inductive it
  needs that a request refused for lack of security is not with the peer while the level is
  raised; else `bt_att_encrypt_change` would ask a second time.
- `Idle` of one that is not: nothing queued, no timer. So a channel that is connected again
  finds the bearer empty, and a PDU reported late frees its meta data and starts no timer.

`CallbacksKeep`, `FreeReqsKept`, `ClosedKeeps` say what the parts of the code do that
several actions share. Nothing is assumed but that the names of constants differ.

### Notify

The same module proves `ServedAsAsked`, `EntriesOwned` and `IdleWhenAlone`, with the types, for any finite
set of clients, of which any may hide behind a private address, and any number of entries. `NotifyInv`
has

- `TableFine`: a free entry is as at the start, and of those with one address all but the first were `left`. Since
  `find_ccc_cfg` takes the first, an entry that was left is never in front of one that is asked for;
- `Resolved`: once the host knows whose a private address is, no entry has that address; before, what
  the identity has was left by an earlier bond. So at any time the entries a connected peer is found under have one address
  (`OneAddress`), although the host compares two;
- `OwnedBy`, which gives `EntriesOwned`; `Agrees`, that a peer none of whose entries was left has in all of them what it
  last wrote; and `Counted`, that the value is at least that, once the link is up and secure enough.

`Agrees` is stated for the addresses under which the peer is found now or will be on its next link (`FoundAt`): what
was configured before a disconnection must be there after it. Entries of another peer never match, so a step of one peer keeps all
that is said of the others (`OthersFine`); only the value is shared, and `Highest` says of `gatt_ccc_changed` that
it counts them all. `ClientGoneStep` has the case that the value falls to 0 although
others are connected: all of theirs is 0 then.

### Gatt

The same module proves `ChangeIsAnnounced`, `SubscribersLearn` and `AwareClientsKnow`, with the types, for any
finite set of clients, any number of changes, entries of `sc_cfg` and indications under way. `GattInv` has

- `ScFine`: the work item never waits together with an indication, a change that is noted has one of the two, and
  without one the range is empty. The last is what lets `sc_indicate` start a new range without a look at the old one. That
  some client still has to confirm while an indication is pending (`Announces`) is the part that many clients share;
- `Follows`: what a subscriber has not heard of is in the range, in an indication on its way, saved, or lost;
- `RestoresOf`: an indication of `sc_restore` carries only what stays saved. So when it fails with the link, which
  adds nothing to `lost`, nothing is forgotten; the proof of `TornDownFine` needs it, no property says it;
- `Informed`: not only a client that is change-aware, but one that will be with its next request, because it has read the hash
  or was refused on this channel, knows of every change, unless `tricked`. A flag of the channel must then not
  survive the link: with the link down `ATT_OUT_OF_SYNC_SENT` is clear, which `GattConnectedStep` needs.

An action that concerns one client keeps what is said of the others (`GattStep`, `QuietStep`). `DbChange` and
`ScProcess` concern all of them: the first makes `range` larger for all, the second moves it
into what each is sent, into what is saved for those who are away, or into what is lost.

### Subscribe

`LayersProofs` proves `SubscribersListed`, `FreeIffEmpty` and `PeerFollows`, which together are
`SubscriptionsHold`, and the types, for any parameters, any of which may be volatile, one characteristic
with several of them and others with one each, and any number of outstanding requests. `SubscribeInv` has, besides the types and
`PeerFollows` itself,

- `Sound` of the entry: no parameter is listed twice, the entry is claimed exactly with a
  list that is not empty, and who was not told otherwise is listed. It is stated of an entry, not of the state,
  because `Drop` fails the requests one after another: it holds of the entry between any two of them. It adds that
  `spoiled` has all parameters of a characteristic or none, since a request of one speaks for the others;
- `LinkFits`: without a link nothing is outstanding and what is still listed counts as not
  written, so that `add_subscriptions` writes it again on the next one; and a link that is to end after
  unpairing has an empty list.

`PeerFollows` is inductive only in the form it has. That a subscriber's characteristic *is or will be* configured
is not enough: an unsubscription in front of it or behind it in the queue decides what the peer
ends with, so `Settled` speaks of the last request. And before encryption it must say what was
written already, since `Encrypt` writes only what was not. `AnswerStep`, `UnsubscribeStep`
(which may take a request out of the middle of the queue) and `EncryptStep` (which appends several) carry the weight.

### Advertise

The same module proves `PrivacyKept`, `AnswersAsShown` and `AdvertisesAsAsked`, with the types, for any handles,
slots, requests of the application and number of private addresses, and for a controller with and
without advertising while connected. What the application asked for is in `wish`, the controller does what it was told several
commands ago, and in between events and the flag lag behind; so the invariant `AdvInv` speaks of where all this leads:

- `Fits` and `Limits` hold at any time: types, slots, the timer of a valid private address, the link of every slot
  in use (`AnswersAsShown` itself), the limit;
- `Leads`: with the last Enable on its way the controller comes to do what was asked last, with
  the last address to show the one the host believes; and every address is set while advertising is off,
  since else the controller refuses it. For this a rotation must send three commands, and the lemmas
  about it speak of the place of each in the queue (`LastOfAppend`, `OffAtTail`);
- `Wants`: what was asked last is what the application wants, unless a link uses it up, with
  an address of the wanted kind, and a slot waits exactly if the host asked to advertise;
- `Owed`, for a connection the host has not seen: either the controller made it while commands were on their way, and
  the advertiser is blind once it is seen, or it is the only one, the queue is empty, and the peer saw the
  address the host still has. This makes `resp_addr` right.

The last three, together `Knows`, hold until something acts on a stale flag (`blind`). Then only `Fits` and `Limits` are
kept, and `ActsStep` shows how all the rest comes back when advertising starts anew with
nothing on its way (`Idle`). `ConnectedStep` has the case that no slot waits, which `Owed` shows to be possible
only when blind.

### Central

The same module proves `WantedScanRuns`, `ConnectsAsItself` and `PendingEnds`, with the types, for
any slots, any peers the application connects to itself or leaves to the host, and queues of any
length. `CentralInv` has, besides the types,

- `Sane`: each slot in use has its own peer and at least the references its state, the flag of
  `bt_le_set_auto_conn`, the application and its deferred work hold, a free one is as it was at the start, and the timer runs
  only while CONNECTING. Between `Ended` and the `bt_conn_unref` that follows, in which the
  application is called back, a slot has one reference more: `SaneBut`, of which `EndedStep`, `UnrefStep`,
  `DisallowedStep` and `EnterStep` say what each part of a handler does;
- `ScanWanted`: whoever wants the scanner has asked for it last, and `ScanLed`: obeying
  the queue brings the controller there. These two give `WantedScanRuns`;
- `IdFirst`, `OneAtATime`, `AsItself`, of the connection that is pending. It is in exactly one place: asked for in
  the queue, initiated, or its outcome among the events; it is pending if and only if a slot is CONNECTING, for
  the same peer; and the slot has its timer, or a cancel is queued behind the request. The identity is set just before the
  request, with the scanner off, or has been set for long and nothing changes it, so the controller does not refuse it.

The last but `IdFirst` hold until the first time two connections are pending (`crowded`); the other parts always do. It
was the attempt to prove `OneAtATime` that showed the case. `SentLed`, `CreateLed` and `ObeyedLed` say what
happens to all this when a command is queued, a connection asked for, and a command obeyed; `EventsLed`,
`OutcomeDue` and `OutcomeGone` what happens when events come and go. Each action then is a few of these. For
`CmdDone`, which takes its event out of the middle of `wire`, `EventsLed` needs only that the outcomes stay.

### Identities

The same module proves `IdentitiesHold`, with the types, for any number of identities, addresses, keys and names, and
any number of restarts. At a restart nothing is left but the files, so `IdInv` says what they are worth at every moment:

- `Sleeps`, of a host that is off: the files have all that the application knows, or were never written and it knows nothing;
- `Runs`, of one that is on: RAM has what the application knows, and the files have the same unless they
  still have to be written (`IdsDue`). `Queued` is what can be due: both arrays, the second after the first,
  or the name. With `Named`, the same for the name, this carries over from `PowerLoss` to `BtEnable`;
- `Apart` and `Within`, also of the addresses in the file, because `bt_storage_kv_get_id` counts all of the array:
  an identity is apart from all others only if those beyond the count have no address.

That the default identity has an address and a key is part of it: `bt_id_reset` and `bt_id_delete` refuse index 0,
which is what makes a count above zero enough for `hci_state_event_process` to go on without asking for an address.
`Unspoilt`, that nothing was lost in a way named above, is assumed by each part only as far as it needs it: `Apart` holds
although power was lost in the midst of a write, `Named` although identities were overwritten. `ChangeFaithful` and
`UseFaithful` have the two kinds of steps, those that change one identity and store all and those that only use them.

### Lemmas about data

`ListLemmas` has what these proofs need of sequences: elements and order after `InsertAt`,
`RemoveAt`, `Remove`, `Append`, `Tail`; what `FlattenSeq` and the counts by `SelectSeq` yield when
an end of a list changes; and sums over a finite set when one term changes. `FlattenSeq`, the sum
and the recursive function by which `Conn` acknowledges several packets are defined by recursion, and the
provers do not take the library's induction theorems, whose parameter is an operator.
`SetInduction` states induction of a *set* of numbers instead, from the well-foundedness of
the natural numbers as a set of pairs, and with it `FlatteningExists` and `FlatteningUnique`, `SummingExists`
and `SummingAny` show that the function each definition chooses exists and is determined by its equations.

### Only model-checked

- Liveness (`EventuallyReady`, `DropIsReported`, `EveryPacketEnds`): fairness is
  out of the prover's reach.
- The properties that runs expect to be violated.
- In `NetBuf`, that `net_buf_frag_last` finds a last fragment. `FragLast` is a recursive function over a
  chain; the proofs use only that what it finds is a buffer in use without a next one, which
  `FragAdd` states as a guard, and that the guard always finds one is left to TLC.
- The layers of `MCLayers` other than `Att`, `Subscribe`, `Advertise`, `Central`, `Identities`, `Notify` and `Gatt`. Their properties relate the host to a peer, a controller and
  to what is stored, and most of them need an invariant as long as that of `Conn`.

## 5. Plan

Done: the modules of section 2 with their runs, and the proofs of section 4. What is left:

1. **Proofs**: the other layers, beginning with `Params` and `Bonds`.
2. **Fragmentation** in the transmit path, with `frag_pool`.
3. **Chipset start-up**: csr8910 and artpi, whose RESET is resent by timer, composed with
   the reset of `HciCmd`: a late answer taken for another.
4. The rest of `adv.c`.

### Not modelled

- ISO, BR/EDR, extended and periodic advertising, direction finding: every
  configuration in the repository compiles them out. Extended advertising could not run as it is:
  `bt_hci_cmd_send_sync` asserts that nobody wants a response (`hci_core.c:300`), and `adv.c:1351` does.
- Reading several values at a time, signed writes.
- Directed and non-connectable advertising, advertising data, the rotation of the private
  address of a scanner or initiator, keypress notifications.
- Settings other than keys, identities, the name, the hash and the features of clients: CCCs and
  Service Changed are not stored, and no application stores values of its own.
- Arithmetic: tinycrypt, `crypto.c`, the key functions of SMP, the database hash.
- The order of memory accesses of the USB driver's threads beyond the interleaving of steps; the
  serial port and its settings.
- Services, examples, logging.

More than half of the sources are declarations, HCI structures, `LOG_` lines and features
that are compiled out, so that the lines mapped remain a minor part of the whole.

## 6. Files

`MC*.tla` instantiate the modules for TLC and `MC*.cfg` give the constants; a
comment at the head of each `.cfg` says what is special about it. Operators
introduced as a wrong variant of the code ("A wrong ...") are used by no
specification: each breaks a property, which shows that the property depends on
the code it names.
