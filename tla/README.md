# Verification of the BLE packet repeater

TLA+ models of the repeater firmware (`main.cpp`, `BLE/`, `Packet/`,
`CircularBuffer/`), model-checked with TLC on small instances, and proofs checked by
TLAPS for every instance.

## The system

A repeater keeps Bluetooth LE links to phones and to other repeaters. A packet written by
one peer is stored and handed to all the others; every link is told the repeater's own
name in an announcement; pulling a pin to ground makes a message of its own.

**Execution.** One processor, no threads, no locks. `main()` runs an endless loop.
BTstack's callbacks (`hci_packet_handler`, `att_packet_handler`, `att_write_callback`,
`handle_gatt_client_event`, `handle_gatt_client_value_update_event`,
`stop_scan_handler`, the two raw-packet callbacks) and `gpio_callback` run in interrupt
context and share everything with the loop (see the comments of `CircularBuffer.h`
lines 15-21, 83 and 156). A callback runs to its end; the loop can be interrupted
anywhere, and in particular sleeps 20 ms in every `SendPacketToConnection`.

| component | state | operations | talks to |
|---|---|---|---|
| Relay core, `BleConnectionTracker` | connections, message and packet maps, broadcast and targeted queues, sent lists, time offset | `reportConnection`, `reportDisconnection`, store and enqueue, `announceToConnections`, `sendPackets`, `cleanupStaleItems` | called by the loop and by callbacks |
| Raw packet queue (same class) | two multimaps of encoded packets, two static registrations | `SendPacketToConnection`, `notifyRawPacket`, `writeRawPacket` | asks BTstack for callbacks |
| `ProtocolProcessor` | none of its own | `processWrite` | calls the relay core |
| Connecting and discovery, `main.cpp` | `scanning`, `connection_in_progress`, the two `discover_` flags, `available_neighbours`, service and value handle of a link | scan, `connect_to_first_neighbour`, discovery events | loop and callbacks, through the flags |
| Main loop and pins, `main.cpp` | timers, `global_activity`, `smoke_seen`, `life_check` | timers, sleep, pins | drives the rest |
| Log buffer, `CircularBuffer<char>` | array, head, tail, maxed, will_clear_if_empty | write, consume, consume_block, consume_line, clear_if_empty | written by callbacks, read by the loop |
| Packet codec | none | readers and writers | used by processor and raw queue |
| Peer directory | names, announce time to live, handle to peer | update, `getAnyDuplicateHandle` | `ProtocolProcessor` |

**What is hard.** Queues and sent lists hold raw pointers into maps that interrupts fill
and the clean-up empties; a send and its record are 20 ms apart; several links share one
set of flags and one registration; timestamps have two units and clocks of different
peers; ids, offsets and timers wrap; the loop can miss a wake-up; packets come back over
loops of the mesh, and nobody counts their time to live down. The list, line by line, is
`hazards` in `PROJECT.json`.

**What makes it correct.** Relay: no packet goes to the same link twice, every link is
offered every packet and gets an announcement, no list names a freed packet or connection.
Raw queue: order, no duplicates, no packet left behind or on the wrong link. Connecting:
the flags come down again, every neighbour is tried. Loop: timers are not early, nothing
that arrives is left lying. Log buffer: a queue that only loses its oldest text. Codec and
mesh: every repeater reads the packet its author wrote and knows it again, floods end, the
directory names what is there. The code keeps most of this in most cases only; each
property names the cases in which it does not, by their cause, and shows that there are no
others.

## The modules

### BleConnectionTracker

`connections`, `stored` (the nodes of both maps), `broadcast`, `targeted`, `sent`,
`peers_sent`, `offset` are the fields of the class. A packet is named by its heap address,
because that is what the lists hold and what orders them; &announce is below every heap
address. The allocator may return any free slot, so a freed address can be reused. `got`
is a history of what was written by or handed to whom, and `copied` the part of it that
came over links we opened: their writer is recorded as the address of a stack copy
(`main.cpp:516`), so that the code may hand the packet back to it. `due`, `told` and
`inherits` follow the announcements of a link: seen available, handed one, and come up on a
handle whose earlier link has one recorded or queued. `torn` says that an old link was lost
between two passes of a clean-up, which leaves dangling pointers.

`pc` is the loop's place: pins, announce, targeted packets, broadcast packets, the passes of
the clean-up, with interrupts between any two of them; `now` is the clock as the clean-up
read it.
`sendPackets` is cut at its sleeps: `sendTargeted`/`recordTargeted` and
`sendBroadcast`/`recordBroadcast` are the two halves of a send, with interrupts in
between. `first` is the iterator that `std::views::filter` caches at its first `begin()`.
`ReadAsSentTo` is the search as it is written, from `find(packet)` to `end()`. The
notification handler records the address of a stack copy, `Dead`, and so is a pointer to an
erased record; wherever one is compared, either result is possible, and so it is wherever a
pass of the clean-up reads a packet that was freed.

Interrupt actions: `reportConnection` (the three events of one link, which BTstack
delivers together), `learnValueHandle`, `reportDisconnection`, `processWrite`,
`gpio_callback`, `Tick`.

Left out here: contents and sizes of packets, MTU, peers' names, RSSI. Every operation on a
container is one step.

### Housekeeping

What the passes of `cleanupStaleItems` leave behind, with the handlers of BTstack between
them, and the RSSI walk with its static iterator. `now` is read once, so what is stale is
settled when the clean-up starts, and of what comes while it runs, as it comes; how old a
record or packet is then is left open, because an announcement may have moved the clock. An
age is fresh, stale by the timestamp divided by 1000 (`getPacketTimestampMs`), or stale by
the timestamp itself as well. A writer is recorded as its node or as `Frame`, the stack
copy. Histories tell the cases in which a list names what was freed: `late`, a packet that
was stale as it came between two passes; `outlived`, packets freed while the sent list
keeps their entry, mostly because of the two units; `torn`, an old link lost between the
pass over the sent list and that over connections. An iterator whose node was erased is
`Dangling`: it reads as any handle and leads anywhere. `owed` are the links that were up
when the walk began, are still, and have not been asked.

### RawPacketQueue

Packets are numbers in the order they are queued. `context` is the context of each static
registration, `pending` the connections for which BTstack has a request; a callback may
come for any of them and acts on the context. `FirstFor` is `equal_range(h).first`, which
for a handle without entries is the next handle's first entry. BTstack drops a link's
requests when it goes and answers a send with success, busy or unknown connection.
`Registered` is the one place where a context is overwritten.

### Connector

The neighbour table, the scan with its stop timer, `connect_to_first_neighbour` cut
between its calls, the discovery of service and characteristic per link, and the four
flags that gate the next connect. `chosen` is the pointer into the neighbour table; when
an interrupt frees the node, a read gives any address. `Environment` says what peers and
radio do, so that each run names what its result depends on: links lost while idle
(`drop`) or during discovery (`dropMidway`), connected peers that go on advertising
(`readvertise`), link events inside `connect_to_first_neighbour` (`quick`), connects that
end without a link (`fail`). The status of a completion is not looked at, so a failed
connect makes a record on the handle of the event, and its discovery is refused.
`mishap` records that a flag was left waiting for an event that will not come; at most one
such mishap happens in a behaviour, which is a bound. `Offers` are the peers whose
service has the characteristic; one that lacks it is asked for it again and again.

BTstack (external): runs one query per link; on disconnection it completes the running
query and drops a new one; refuses a query on a handle it does not know; refuses
`gap_connect` while it is connecting, when the link exists or when it has no connection
left.

### MainLoop

The loop of `main()` over a clock of width W, its timers as one family with period and
lead (`lastCleanup` starts five minutes ahead of the clock), `global_activity` against
`last_activity`, and `__wfi`: an interrupt ends a sleep that has begun, not one that is
about to begin. `missed` says that work came between the last test and the sleep, `ran`
which timers have run out before. Work is a pin that was pulled or a packet
that waits; `sendPackets` takes the packet away whether or not a link was there for it.
`records` says whether the map of connections has an entry when the RSSI timer runs out:
`requestNextRssi` dereferences and increments `begin()`. Of an empty map that is undefined;
with libstdc++, the library of the compiler the build uses, the read gives whatever follows
the map's header and the increment does not return (`pc` is "hung").

### CircularBuffer and LossyQueue

The log buffer with its array, which starts uninitialised. `clear_if_empty` is three steps
and `consume_line` four, its work on copies (`lineCopy`), `maxed = false` (`lineUnmark`),
its last test of `empty()` (`lineTest`) and the store of the tail (`lineStore`), because
interrupts log in between; `write` is one step, as nothing interrupts an interrupt and a
write of the loop interrupted by another is undefined. `late` says that the last line's
tail was stored over a text that came after `maxed` was reset. `strchr` may run out of the
array when no terminator stops it, and then finds a newline behind the array or none.

`LossyQueue` is the abstract specification: a queue that drops its oldest characters. A
step marked `damage` may do anything to the queue. It is marked by a condition on what came
before, not by its outcome:

- a write to a full buffer that is not marked full (`UnmarkedFull`), or to one marked full
  with room left (`MarkedNotFull`);
- a reset of `clear_if_empty` after an interrupt lowered `will_clear_if_empty`;
- the end of a line that filled up before the array ended while less than `line_size` lay
  before the head, or that found a newline at the start of the array when the unread text
  ended with it (`EndsWithArray`), or during which a text came that did not fit
  (`Overruns`) or found the buffer marked full with room left.

### PacketCodec and Wire

The readers and writers of `Packet/` as operators on sequences of bytes. A byte is a digit
below `Radix`, a 64-bit number is `Wide` digits. A cursor keeps what is left to read; a
read that comes up short gives zeros and consumes nothing, so a shorter field behind it may
still be read. An announcement that has been stored is a `PacketPassAlong`, without its
name. A message that says it has a sender's peer id is written with whatever is read
through the null `sender_peer`. `Wire` follows one packet over several hops, each through a
repeater that does not know it (`relay`) or through a phone that counts its time to live
down (`phoneRelays`, external).

### Mesh

Several relay cores joined by links, at a coarser grain: sending one packet on all its
links is one step, and so is a clean-up; a link is usable when it is up; time passes before
clean-ups only. Kept are the store and its keys, the broadcast list, the sent list with the
entries that `sendPackets` misreads (`MaybeSent`: any of those links may be passed over),
the clock that announcements move, and the directory of peers. `cleanupStaleItems` forgets
by both units of time: announcements of repeaters, whose timestamps are milliseconds
already, are freed by the first clean-up, and entries of the sent list outlive their packet
(`Stray`). `crossed` is the history of what each repeater has relayed and not freed since.
What is on its way over a link that is lost is lost in part; the rest, in the raw queues,
is delivered when the handle is back.

### MC modules

`MCTracker`, `MCRaw`, `MCConnector`, `MCMainLoop`, `MCCircular`, `MCWire`, `MCMesh` and
`MCHousekeeping` give the constants their values.

## The runs

| run | checks | instance |
|---|---|---|
| tracker_links | TargetedDrained, NoRedundantSend, AnnouncedInTime | 2 links (one accepted, one opened), 1 slot, two announcements whose clocks make records and announcements stale and fresh again |
| tracker_ageing | TypeOK, NoRedundantSend | 1 link of either role, 2 slots, a message and an announcement from clocks behind ours, 1 pin, 2 ticks |
| raw_callbacks | InOrder, OwnLink, Drains, AssertHolds | 2 handles, 3 packets |
| log_buffer | TypeOK, FullMeansFull, LineFits, IsLossyQueue (refinement of LossyQueue) | array of 5, lines of 2 and 3, texts of 1 to 5 |
| loop_runs | NeverEarly, WorkDone | clock of 6, two timers of period 2, one set ahead, any start, two activities |
| connector_links | ScanWillStop, ProgressIsReal, GateReopens | 2 peers, one without the characteristic, 2 handles, drop, dropMidway, quick, fail |
| wire | SamePacket, KnownAgain, RelayFits | bytes below 8, numbers of 2 bytes, every body of up to 15 bytes 0 and 1, 3 hops |
| mesh | CrossesOnce, DirectoryLive, FloodsEnd | three repeaters in a row, a phone at the middle one, one packet of the phone's, two repeaters' announcements, one link lost or one clean-up |
| housekeeping | RefsLive, WalkAsksAll | 3 handles, 1 packet |

Several properties hold but for cases that are part of their statement. What these are:

- NoRedundantSend: a packet that came over a link we opened may be handed back to it, once,
  because it was recorded under a stack copy.
- AnnouncedInTime: a link that came up while its handle's earlier link had an announcement
  recorded or queued may get none until a clean-up; nothing is said after an old link was
  lost between two passes (neither does TargetedDrained then).
- RefsLive: the three cases `late`, `outlived`, `torn`.
- OwnLink, Drains, AssertHolds: packets of one handle at a time in a multimap, one link open.
- FullMeansFull: `late`. IsLossyQueue: the steps of the list above.
- NeverEarly: the first time of a timer set ahead of the clock.
- WorkDone: the exit pin, the hang of loop_hangs, and a sleep on work that came between the
  test and `__wfi`, which no interrupt need end.
- GateReopens: a connect that never ends, a peer without the characteristic, and the flag
  that a mishap leaves up until the next link comes. Without any one of the three the
  property is false in the run.
- CrossesOnce: the packet was freed in between. FloodsEnd: clean-ups have ended.

Runs in which TLC finds the code to do something else than it or its documents say
(`findings` in `PROJECT.json`):

| run | statement | what happens |
|---|---|---|
| tracker_joins | "join everyone together" | a link is passed over because of another packet's entry |
| loop_hangs | "fire off a message into the network" | `requestNextRssi` finds no connection and never returns |
| connector_starves | "join everyone together" | a connected first neighbour blocks the table |

Smaller disagreements are modelled as the code has them and have no run:

- Message ids have sixteen bits, so "our messages will always be new" (`main.cpp:884`)
  fails after 65 seconds.
- `ASSERT_DEBUG(connection.hasData())` (`BleConnectionTracker.cpp:495`) fails with two
  links, when `equal_range` of one handle finds an entry of the other; AssertHolds states
  that it holds with one.
- `lastCleanup` is set five minutes ahead, which "gives 15mins before first cleanup"
  (`main.cpp:980`): the unsigned difference is huge and the first one runs at once.
  NeverEarly leaves out that one time, for that timer.
- `reportDisconnection` compares with the address of a copy and removes no announce entry
  (`BleConnectionTracker.cpp:165`), whatever its log line counts.
- `cleanupStaleItems` frees packets by the divided timestamp and keeps their entries in the
  sent list by the undivided one: the next clean-up reads freed packets.
- A failed connect leaves a record that looks connected and never disconnects.
- Units: phones' timestamps are divided by 1000 and so are repeaters', which are in
  milliseconds already; a repeater that takes its clock from another falls behind
  `build_time_ms` and announces no more. Records of links carry uptime while `now` includes
  the offset: once the clock has been taken, every lost link is old at once.
- A relayed announcement has lost its name and blanks the one the peer was known by. A
  repeater takes its own announcement, relayed back, for one of a peer's.
- The log buffer: `write(item)` can leave `full()` false in a full buffer; a text that
  wraps has no terminator at the end of the array; `consume_line` can move the tail past
  what it copied when the text wraps, undoes a write that overran the tail, and can leave
  `full()` true with room left when a text comes between its two stores;
  `clear_if_empty` loses a text logged after its test.
- A pin served between the sleep test and `__wfi` waits for the next interrupt.

**Bounds.** Two links are what sharing (flags, registration, sent list) needs. tracker_links
has one slot, used again when its packet was freed, and two links; tracker_ageing has one
link and two slots, the least with a second packet in the walk and its higher address in
the sent list. The announcements of tracker_links show 12 and 24 (6 and 12 after division):
reading the later one makes records and our own announcements stale, reading the other sets
the clock back. Scale 2 keeps raw and divided timestamps apart. The clock of MainLoop wraps
several times; since it starts at every value, so does loopStart. The array of 5 is met
exactly, overrun and wrapped by the texts, with room for a line shorter than the block.
With numbers of two bytes an announcement without a name has 7 or 9 and a message without
strings 13 or 15, so bodies of up to 15 bytes over {0, 1} have every field cut off, every
flag and strings of one character; longer strings, up to the length of the field, come with
the own packets. Three hops let a phone come before, between or behind two repeaters. In
the row of repeaters the middle one has opened one of its links and accepted the other, so
that it writes packets back to where they came from, which is the shortest loop; a clean-up
later than the phone's timestamps or earlier frees all or only repeaters' announcements;
MaxFlight keeps the announcements' timestamps, which move the clocks, few. A packet that
crosses a link again after it was freed, and repeaters that announce themselves to one
another, are reached. Three handles give the RSSI walk a link before, at and behind its iterator. A
constant that is only a bound is marked so where it is declared.

**Fairness.** tracker_links, tracker_ageing, log_buffer, wire, housekeeping: none.
raw_callbacks: BTstack answers, and is not busy for ever on a link that stays up; Drains is
stated for behaviours in which no second link is open, since a second one can overwrite the
context of the first's request. loop_runs: the processor executes; neither clock nor
interrupts are assumed. loop_hangs: besides, some interrupt always ends a sleep, so that the
counterexample is the hang and not the missed wake-up. connector_links: BTstack's queries
end and report what the peer has; that connects end is not assumed, since nothing cancels
one. connector_starves: also connects end, the stop timer fires, the loop goes on, and a
gate that is open again and again is found open: a scan takes two seconds out of five
minutes. mesh: every repeater's loop and BTstack go on; phones, links and clean-ups owe
nothing.

## The proofs

Every safety property that a passing run checks, the action properties and the refinement
included, is proved for every value of the constants. Each component has its proofs in a
module of its own.

| module | theorem | property |
|---|---|---|
| BleConnectionTrackerProofs | TypeCorrect | TypeOK |
| | NeverSentTwice | NoRedundantSend |
| | AnnouncementsDrain | TargetedDrained |
| | LinksAnnouncedTo | AnnouncedInTime |
| HousekeepingProofs | RefsStayLive | RefsLive |
| | WalkIsComplete | WalkAsksAll |
| RawPacketQueueProofs | TransmitsInOrder | InOrder |
| | LeavesOnItsLink | OwnLink |
| | AssertionHolds | AssertHolds |
| CircularBufferProofs | TypeCorrect | TypeOK |
| | LinesFit | LineFits |
| | FullIsFull | FullMeansFull |
| | IsAQueue | IsLossyQueue, the refinement of LossyQueue |
| ConnectorProofs | ScanStops | ScanWillStop |
| | ProgressReal | ProgressIsReal |
| MainLoopProofs | PunctualTimers | NeverEarly |
| WireProofs | ReadAlike | SamePacket |
| | FoundAgain | KnownAgain |
| | RelayedFits | RelayFits |
| MeshProofs | DirectoryStaysLive | DirectoryLive |
| | RelaysOnce | CrossesOnce |

**Assumptions** are the named ASSUMEs of the modules, which TLC evaluates on the instances.
Handles, addresses and slots are numbers where the code orders them, and the markers
(NoHandle, End, Dangling, Frame, Dead, Stray, Nobody) are none of them. Beyond that:

- `ClockAssumption` (BleConnectionTracker): uptime and the timestamps of peers stay ten
  minutes clear of 2^64.
- `TimersAssumption` (MainLoop): intervals, and how far a timer is set ahead, are below the
  width of the clock.
- `TextsAssumption` (CircularBuffer): a text is not longer than the buffer, which `writeF`
  asserts; `SizeAssumption`: at least two places, and lines no longer than the buffer.
- `PacketsAssumption` (Mesh): a phone's packets are packets of the two types, sent by it.
- `BytesAssumption`, `TypesAssumption`, `WidthAssumption` (PacketCodec, Wire): two numbers'
  worth of digits fit a one-byte length, as 2 * 8 does in 256; the type bytes and the flag
  are distinct from 0, which a missing byte reads as; an id of five bytes and an address
  has a one-byte length. `FieldsAssumption`: our own name and contents have lengths that
  their length fields can say. Nothing is assumed of what peers write, but that it is
  bytes.

**The relay core**: an inductive invariant in layers.

- `Inv1`: types, and what `cur` and `at` are at each place of the walk. Needed because
  `recordBroadcast` stores them after interrupts have run.
- `Inv2`: adds that the records the walk stands on, the cached iterator `first` among them,
  are there; the pass over connections runs only while no walk is in progress.
- `Inv4`: what is in `got` and not in `copied` is in `sent`, except for a send that has not
  returned, and between the pass over the sent list and the one that frees the packet
  (`Doomed`). The passes hand this on to each other only because a packet stale by its raw
  timestamp is stale in milliseconds (`RawStaleFrees`), which needs that no sum wraps
  (`Clock`); that is preserved because `possiblyUpdateTimeOffset` makes the clock show
  exactly the peer's time (`ClockAdopted`).
- `Inv3`: while no clean-up was torn. Until the first announcement of the iteration is
  recorded, none of the queued ones has been made, so the erasure at the end takes all of
  them or there are none; a link that is up and has an announcement recorded or queued was
  handed it, will be, or inherits it. That no entry dangles rests on `SweptOfStale`: after
  its pass the sent list names no record that the pass over connections erases.

**Housekeeping.** RefsLive speaks of the state after the last pass. `PacketsInv` and
`LinksInv` say what each pass has left behind when the next one starts: a list that was
passed over holds nothing that a later pass frees, but for what came late, outlived its
entry or was torn. For the walk, `WalkInv`: what is owed is not below the iterator. Its
steps rest on the smallest handle above another (`SmallestHandle`).

**Raw packet queue.** `RawInv`: the entries of a handle are packets queued for it, in
ascending order. `WireInv`: everything transmitted is below all that waits for the same
handle in the same multimap. Only the two together survive a callback that takes an entry
off another handle's queue. For OwnLink, `OwnInv`: a handle that alone has packets waiting
is the one that asked last, so the context is it; OwnLink is an implication between two
`[]`, so the invariant is preserved by steps from and to states with one handle waiting.
AssertHolds is about behaviours with one link; `AssertInv`
says that then the context is that link whenever a request is outstanding.

**Log buffer.** `Used` gives the number of unread characters without `%`, and
`UnreadFacts` the unread text place by place; each operation has a lemma that says which
places it changes. FullMeansFull needs that `maxed` is down from `lineUnmark` to
`lineStore` unless a text came (`UnmarkedInv`). `QueueInv` adds to types what the
refinement needs while `consume_line` is between its copies and its last store: unless the
line is off, it is a prefix of what is unread and the new tail is behind it (`LineInv`);
text ends with a terminator at the head (`Terminated`), so that a search from the start of
the array stops there; an interrupt that logs lowers the flag (`FlagInv`). Texts that come
in between are appended, or overrun and turn the line off. Every action is then a Write, a
Take, a Clear or a Damage of LossyQueue, or changes neither queue nor output.

**Connector.** ScanWillStop is inductive. ProgressIsReal needs that inside
`connect_to_first_neighbour` the pointer is live and that a connect which is about to be
marked exists (`ChosenLive`, `StartedReal`).

**Main loop.** `StampsBelow`: the wrapped difference of the clock and a timer's time is
never above the time that really passed, and neither is that of `loopStart` while the
timers are looked at, once the timer has run out or if it was not set ahead. Its lemmas are about `%`: what a tick does to a difference.

**Codec and wire.** Most of the module is about the operators: what was written is read
back, field by field (`UintBack`, `StringBack`, `HeaderBack`, `AnnounceBack`,
`MessageBack`), and what any bytes read as has fields of the right widths, so that it can
be written (`HeaderType`, `AnnounceType`, `MessageType`) and is not shorter than what was
read whole. `HeaderSame` and `ReadSame`: the byte that a phone changes is nothing but the
time to live. The invariant, `WireInv`, says that the bytes are a packet that reads as the
same one, type included; SamePacket alone is not inductive, because Lasting leaves the
type out.

**Mesh.** `NetType`: what waits in a broadcast list has its name for its key. `RelayInv`:
what waits, or has crossed a link, is in the store, and what has crossed does not wait any
more; it can wait again only after a clean-up has taken it out of the store and so out of
the history.

**Only model-checked:** liveness (Drains, WorkDone, GateReopens,
FloodsEnd), which is out of the prover's reach, and the three runs that end in a
violation. In the theorems the bounds (MaxPackets, MaxHops, MaxFlight, ...) are constants
like the others: each behaviour is finite in what they count, of whatever size.

## Plan

Done: all components but those below, and the proofs of all safety properties.

Next, what the liveness properties rest on, as invariants that can be proved:

1. `RawPacketQueue`: with one link, a packet that waits on a link that is up has its
   request outstanding, the safety half of Drains.
2. `Connector`: a gate that is closed waits for a query or a connect that BTstack has, or
   for a mishap, the safety half of GateReopens.
3. `MainLoop`: work that is there before the sleep test keeps the loop from sleeping.
4. `Mesh`: the tracker's sends as a refinement of the coarse `sendPackets`.

## Not modelled

- Advertising data (`populate_advertising_data`, `check_for_uuid`) and the dump functions:
  constant layouts, parsed or printed; the result of `check_for_uuid` is an input of
  `Connector`.
- Start-up (`BTSTACK_EVENT_STATE`, GPIO and radio initialisation), the LED, statistics and
  printf formatting: straight-line I/O.
- The GATT database and configuration headers: data.
- `getAnyDuplicateHandle`, called only from code that is commented out, and the peers'
  public keys, which nothing reads.
- Packets with a payload in `PacketPassAlong`: no packet type sets it.
- MTU negotiation: RelayFits says what relaying adds to a packet; links of different MTU
  are not told apart.
- Data races inside one operation of a container, and two writes to the log at once: there
  is no bounded set of outcomes to check against.
