# Verification of the Keychron mouse firmware updater

TLA+ models of the firmware updater in this repository, checked with TLC on
small instances and, where marked, proved with TLAPS for every instance.

## 1. The system

| component | code | state it keeps | operations | talks to |
|---|---|---|---|---|
| update run | `g6he_mac_tool.py` `upgrade_firmware`, `exchange`, `_query_open_device`, `_prevent_system_sleep` | sequence number, chunk index, attempt, `update_mode_entered`, the sleep assertion, the open handle | query, gate, select, start, transfer, check, reset, recover, verify | the mouse by HID reports; the user by its result; the app by stderr |
| mouse updater | `g6he_protocol.c` `g6he_updater_handle` | state (IDLE, MODE_SELECTED, UPDATING), running CRC, reset flag | one per command 0x60-0x66 | the host by replies; the bootloader by the reset |
| discovery, restart verification | `discover_devices`, `query_device`, `_query_after_restart` | none across calls; device ids are derived from USB paths | enumerate, query, match by model | every attached mouse |
| report codec | `g6he_protocol.c`, `build_frame`, `_read_response` | none | build, parse, encode, decode | both ends of the link |
| image inspection | `inspect_firmware`, `g6he_mcuboot.c` | none | header, TLV walk, digest, version order | update run |
| desktop app | `macos-app/Sources/main.m` | busy flag, device list, selection, firmware URL, dialogs | refresh, probe, choose, upgrade, close | the tool as a child process over two pipes |
| button input chain | `g6he_optomagnetic.c`, `g6he_event.c`, `g6he_hid.c` | debounce candidate, pending event, ring of 32 events, report | feed, poll, take, push, pop, accumulate | caller's loop |
| settings | `g6he_settings.c` | version, entry table | set, migrate, get | persistent store of the caller |
| wireless | `g6he_wireless.c` | link state, elapsed time | pair, connect, disconnect, tick, send | radio backend of the caller |
| Hall arithmetic, sensor, power, identity, hashes | `g6he_hall.c`, `g6he_sensor.c`, `g6he_power.c`, `g6he_identity.c`, `g6he_sha*.c`, `g6he_crc.c` | at most a bound flag | conversions and checked calls | backends of the caller |
| Zephyr entry point, scripts, packaging | `zephyr/src/main.c`, `reverse_engineering/scripts`, `scripts/build_release.sh` | none | run once | - |

What is hard here: the mouse acknowledges every chunk but does not compare
sequence numbers, so a retry after a lost answer appends the chunk twice; a
report can be lost, late, or preceded by one that answers nothing; a write may
fail although the mouse got it; the tool can be killed, the cable pulled and the
app that reads the tool's stderr closed at any step; the next run has to cope
with whatever the previous one left in the mouse; and the verification loop
talks to a mouse that is restarting. `PROJECT.json` lists these hazards line by
line with the properties that watch them.

What makes each component correct:

* update run: the mouse is reset on an image it received whole and in order;
  nothing is written without consent; every run ends and says what happened;
  a fault costs at most the run it hits, never the next one.
* mouse updater: a stream is accepted only when it is the image, whatever was
  received before START.
* discovery and verification: success is declared for the unit that was written, or
  at least, with several of one model, for another only in its absence.
* codec: decode inverts encode, and both implementations accept the same frames.
* inspection: both implementations accept the same images; version order is the
  order of the numbers.
* desktop app: one tool at a time, no write the user did not confirm, controls
  that never stay disabled.
* input chain: the report's buttons are the debounced state of the contacts.
* settings: set and migrate do to the promised map what the header says, wherever
  in the table the entries stand.
* wireless, sensor, power: no call through a callback that is not there; the state
  is the link's when the radio has told all; pairing lasts its time, no more, no
  less.
* hashes: whatever the cut, the blocks are the standard's.

## 2. Modules

| module | models |
|---|---|
| `Updater` | `g6he_updater_t` and `g6he_updater_handle` as operators on a device record |
| `ChunkTransfer` | abstract specification: what the transfer phase promises |
| `UpdateSession` | `upgrade_firmware` x link x `Updater` x restart x faults; EXTENDS `Updater` |
| `MCUpdateSession` | values for TLC |
| `UpdateSessionProofs` | proofs about `UpdateSession`: types, the verdict before the reset, consent, the transfer as `ChunkTransfer`, which faults can ruin it, how long a run can be |
| `FirmwareApp` | `AppDelegate` of `main.m` x its user x the tool as a child process x the file and the mice behind it |
| `MCFirmwareApp` | values for TLC |
| `FirmwareAppProofs` | proofs about `FirmwareApp` |
| `BoundedFifo` | abstract specification: what the event queue promises |
| `InputChain` | contacts and Hall samples x fusion and debounce x event ring x mouse report |
| `MCInputChain` | values for TLC |
| `Codec` | `build_frame`, `_read_response` and the four frame functions of `g6he_protocol.c`, byte for byte |
| `Wire` | a request and a response through a link that harms one byte or one report |
| `MCWire` | values for TLC |
| `SumTheorems` | what the sums of the community modules are, for naturals |
| `WireProofs` | proofs about `Codec` and `Wire`, from `SumTheorems` |
| `HashStream` | the streaming half of `g6he_sha512.c` and `g6he_sha256.c`, and the padding of FIPS 180-4 as reference |
| `HashStreamProofs` | proofs about `HashStream` |
| `McuBoot` | `g6he_mcuboot_parse`, one operator per read of the file |
| `InspectFirmware` | `inspect_firmware`, the tool's check of the same file |
| `Version` | version texts and their order, in both implementations |
| `ImageCheck` | any file, read field by field by `McuBoot` and `InspectFirmware` side by side |
| `MCImageCheck` | values for TLC |
| `ImageCheckProofs` | proofs about `ImageCheck`, from `HashStreamProofs` and `SumTheorems` |
| `SettingsMap` | abstract specification: the map the settings store promises |
| `Settings` | `g6he_settings.c`: the table with init, set, get, migrate |
| `MCSettings` | values for TLC |
| `Target` | wireless link, sensor and power controller x user, clock and radio |
| `MouseProofs` | proofs about `InputChain`, `Settings` and `Target` |
| `RestartVerify` | `_find_upgrade_interface`, `discover_devices` and `_query_after_restart` with several mice, some of one model |
| `MCRestartVerify` | values for TLC |
| `RestartVerifyProofs` | proofs about `RestartVerify` |

Names that `InputChain`, `Settings` and `Target` would all use carry the module's
name in the last two (`SettingsSpec`, `TargetTypeOK`), so that one module can prove
about the three. `RestartTypeOK` is named so to tell it from the session's `TypeOK`,
which is checked for something else, the sequence numbers.

### Updater

The image is `ChunkCount` chunks named by position. A running CRC is abstracted
to what the protocol compares it for: `k` is the CRC of the first `k` chunks,
`Garbled` that of any other stream. `UpdaterAfter`, `ResponseStatus` and
`UpdaterReply` are the three results of the switch in `g6he_updater_handle`: the
new state, the status byte, the echoed header. CRC-32 collisions, identity bytes
and the length checks of malformed frames are outside the model.

### UpdateSession

`pc` names the exchange `upgrade_firmware` is in; `waiting` says that its write
is done and `_read_response` runs. `seq`, `chunk`, `attempt`,
`updateModeEntered`, `sleepAssertion`, `polls` are the function's variables;
`outcome` and `recovery` are what the user is told. `inbox` and `outbox` are the
reports on their way to and from the mouse, `handle` whether the opened
`hid.Device` still works. `running` is the image the mouse runs, `openedOn` the
one it ran when the run queried it.

| action | code |
|---|---|
| `Open` | start of `upgrade_firmware`: inspect, find, open |
| `WriteRequest` | `exchange` up to the write: drain, then write |
| `WriteReset` | the two 0x66 exchanges, which expect no answer |
| `WriteFails` | `device.write` raises or is short; the mouse has the report or not |
| `DeadHandle` | any I/O on a handle whose device is gone |
| `Timeout`, `ReadWrongReply`, `ReadReply` | the outcomes of `_read_response` and of the four comparisons in `exchange` |
| `Gate` | validation, `already_current`, dry run, version and model consent, the first print |
| `Poll` | one pass of the verification loop with `_query_after_restart` |
| `Handle` | `g6he_updater_handle` on the next report |
| `Restart`, `Enumerate` | external: reset, bootloader, re-enumeration |
| `Unplug`, `Replug`, `LoseReply`, `NoiseReport`, `BreakPipe`, `Kill` | the environment |

`Raise` is an exception in an exchange: before the `try` it ends the run, on a
chunk it is retried, elsewhere the `with` block is left first (the sleep
assertion ends) and then the handler decides on a recovery reset.

Abstractions: image, version and model checks are the boolean `request.valid`;
the CRC the host computes is over the bytes it sends, so the 0x65 payload is the
same value twice; sleeps and the 20 ms back-off take no time; a new process
starts after the mouse handled what was delivered earlier (`inbox = <<>>` in
`Open`). There is one mouse, and only one process has it open.

### ChunkTransfer

Three variables: chunks acknowledged, the receiver's stream, accepted. A chunk
may arrive twice, which ruins the stream; the sender counts a chunk only when
the receiver has it; only the whole image is accepted. `ImplementsChunkTransfer`
maps `acked` to the chunks behind the tool, `stream` to the mouse's running CRC
and `accepted` to having passed 0x65.

### FirmwareApp

The main thread runs a method or a completion block to its end or to a modal
dialog, so each is one action. `busy`, `devices`, `selectedDevice` and
`firmwareURL` are the properties of `AppDelegate`; `enabled` is what
`updateControls` last set on the buttons, which may differ from what it would set
now if a method forgot to call it; `dialog` is the modal dialog on the screen,
`job` the arguments of the child process and `tool` what that process has read
and decided so far. `alert`, `consent` and `told` record what the user was
asked, answered and was told.

| action | code |
|---|---|
| `refreshDevices`, `probeDevice`, `chooseFirmware`, `beginUpgrade`, `deviceSelectionChanged` | the methods behind the controls, up to `runTool`'s dispatch or the dialog |
| `openPanelOK`, `confirmWrite`, `dismissDialog` | the code after `runModal` returns |
| `toolExited` | the block that ends `runTool` with the completion of the command |
| `launchFailed`, `dismissLaunchError` | `launchAndReturnError` fails; the completion runs behind its dialog |
| `closeWindow` | the last window closes, the app ends, the tool does not |
| `discover_devices`, `query_device`, `inspect_firmware` | the tool's commands; `inspect_firmware` is also where an upgrade reads the file |
| `upgrade_gate`, `upgrade_transfer`, `upgrade_verify` | `upgrade_firmware` up to its first print, its `try`, its verification loop |
| `toolFails` | an exception anywhere else, or the death of the process |
| `Unplug`, `Plug`, `ReplaceFile` | external: cables, and another program writing the file |

The upgrade that `UpdateSession` models exchange by exchange is here the three
moments that matter to the app: what is read, what is decided, what is written.
A device id is the number of a port, since the code derives it from the USB path
and not from the mouse. The verification loop is its last poll: a success or a
failure. Texts, the log and the progress bar are left out, as are a second copy
of the app (the interface's exclusive access is the HID library's) and the
strict-product-id option, which the app never passes. A mouse runs a well-formed
image when the app starts. `FirstListed` relies on the popup button selecting its
first item when items are added to an empty menu, and on listed mice having titles
that differ, as those of different models do: the button drops an item whose title
is added again (section 6).

### InputChain

`hallRaw`, `irClosed`, `hallPressed`, `fused`, `candidate`, `candidateMs`,
`eventPending` and `pending` are the fields of a button in `g6he_optomagnetic_t`
(`pending` is the state its pending event reports); `items`, `head` and `count`
are `g6he_event_queue_t`; `buttons` and `axis` are the report. `dropped`,
`sample` and `steady` are history: whether the queue refused a button's last
event, the level polled last, and the time the polls agreeing on it add up to,
measured from outside and not as the code counts it.

| action | code |
|---|---|
| `feed_hall_raw`, `feed_ir` | the two feeds, with the hysteresis of the Hall channel and the polarity of the switch |
| `poll` | `g6he_optomagnetic_poll`: fusion (`Target`), debounce, `Emit` |
| `take_event` | `g6he_optomagnetic_take_event` and the push of what it took |
| `PushOther` | motion, mode and battery events entering the same queue |
| `PopAndAccumulate` | `g6he_event_queue_pop`, then `g6he_hid_accumulate` |
| `SendReport` | the report encoded and its relative axes cleared |

`candidateMs` is a `uint16_t` and wraps at `TickModulus`. The loop that calls
these functions is not in the repository, so they come in any order; that the
result of a push is ignored is what `zephyr/src/main.c` does. Timestamps, the
analog depth and the bytes of the boot report are left out; one relative axis
stands for dx, dy and wheel, which are clamped alike. Button ids without a bit
in the report, whose events accumulate ignores, are not modelled.

### BoundedFifo

One variable, the queue: `Put` appends when there is room, `Take` removes the
first. `ImplementsFifo` maps it to the `count` slots of the ring from `head` on.

### Codec and Wire

A report is a function from byte positions to bytes; `Invalid` is every error. In
`Codec` the definitions that carry the names of the C functions are the
firmware's, `_read_response` is the tool's; the tool builds requests the way
`frame_build` does. `Wire` sends a request (`Ask`, `Parse`) or a response
(`Answer`, `Read`) through a link that may change any byte to any other, lose a
report, or let another report of the mouse in between (`HarmRequest`,
`HarmResponse`). `harm` is history: what the link did, and of a lost report whether
it was the first. Reports that are no responses have another id
(`WireAssumption`), as the tool's reader relies on. The uninitialized bytes that `g6he_response_encode` copies into a
short first report are a choice (`Stack`). Timeouts and short reads are in
`UpdateSession`.

### HashStream, McuBoot, InspectFirmware, Version, ImageCheck

A message's n-th byte is `Data(n)` and the chaining state is the sequence of the
blocks compressed so far, so a byte that is lost, doubled or moved shows, and two
digests are equal exactly when they are of the same blocks; the compression
functions themselves are abstracted to that. `update` and `final` are the code's,
`Reference` the standard's.

`McuBoot` and `InspectFirmware` are operators over the record of what a parse has
found so far; `readTo` is the end of the latest read. `parse_header` and `parse_area`
wrap where the code adds: at `Word` the sum of two 32-bit fields (line 77), at
`SizeModulus` what is added to it in `size_t` (lines 81 and 92), which is 32 bits wide
on the target of `zephyr/CMakeLists.txt:28` and 64 on a desktop. The sums of the loop
have no room to wrap, since a file in memory leaves the address space more than one
16-bit field (`ImageCheckAssumption`). When the sum of line 81 has wrapped (`AtEnd`),
the head of the area is read far behind the file; if what lies there is accepted,
the loop begins at the file's own first bytes, whose header magic is no TLV: its pad
is not 0. In `ImageCheck` the content of a field is chosen
when it is read, and both parses see the same: `ReadHeader`, `ReadArea`, `ReadTlv`
(each turn of the loop), `ReadVectors`. `NextFile` starts over. `CompareVersions`
compares an image's version with a device's text.

| action | code |
|---|---|
| `ReadHeader` | the header checks of both, up to the offset of the TLV area |
| `ReadArea` | the head of the TLV area and its size |
| `ReadTlv` | one turn of the loop, with the digest computed over the bytes before the area |
| `ReadVectors` | the counts after the loop, and the vector table |
| `CompareVersions` | `g6he_version_relation`, `_version_order` |

A digest TLV holds the file's digest or another; padding, order and number of TLVs
are free. Left out: the search for the model string, `ram_load_ok`, and the
`sig_pure` flag, which are facts reported but not decided upon in the parse.

### Settings and SettingsMap

`entries` is the sequence of used slots. `settings_migrate` is the loop over the
two renames, with the swap of the last entry into a freed slot (`RemoveAt`).
`SettingsMap` has a map, a version and the number of names in use: `Put`,
`Migrate`, `Reload`; `ImplementsMap` maps it to what `settings_get` finds for each
key. Strings too long for a slot, which `set` refuses, are left out.

### Target

`state`, `elapsed_ms`, `backend` are `g6he_wireless_t`, `variant` and `transport`
`g6he_sensor_t`, `g_backend` the power controller's static. A backend is the set of
its callbacks that are not null. The radio is external: the link goes up and down
at any time (`LinkChanges`) and the radio tells later, in order (`RadioTells`), or
connects a waiting peer before `start_pairing` returns. `wireless_init` stands for a
fresh link, whose radio is down and silent. `called`, `waited` and `told` are
history. The battery class, the CPI limit and `validate_config` are constants of a
table and left out.

### RestartVerify

`place` is where each mouse is: a path, restarting, or unplugged; a device id is a
hash of the path and stands for it. `selected` is the id the run found its unit at,
`written` the unit whose handle it opened. `unprobed` and `devices` are
`discover_devices` half-way: interfaces listed and not yet opened, and the answers
so far, each with the unit that gave it, which the tool does not know.
`undisturbed` is history: since the present pass began the written unit has stayed
where it was and answered whoever asked.

| action | code |
|---|---|
| `Find`, `Open`, `Transfer` | a run up to the reset: the search, the opening of the path found, everything in the `try` |
| `Wake` | the head of the loop of 30 |
| `FindPreferred`, `AskPreferred` | the query at the id of before, its enumeration and its opening apart |
| `List`, `Probe` | `discover_devices`: the list, then one interface after the other |
| `Match`, `Judge` | the single match, and the comparison of versions |
| `Restart`, `Enumerate`, `Plug`, `Unplug` | external: a unit leaves and comes back at any free path |

The transfer is one step, its faults are in `UpdateSession`. What
`_validate_upgrade_target` and the confirmation refuse is left to that module too.

## 3. Runs

| run | instance | what it shows |
|---|---|---|
| `session` | 3 chunks, 2 attempts, sequence numbers 1-4, 2 polls, any 3 faults, 2 runs | all safety and liveness properties below |
| `lost_writes` | 3 chunks, 3 attempts, 2 lost writes | retries deliver each chunk exactly once |
| `app` | 2 ports, 2 mice of different models, 1 file, 3 images, any 2 mishaps | the window's state, consent, and that the app comes back with an answer |
| `input` | 1 button with both sources, debounce 2 of a counter that wraps at 4, queue of 2, motion of +1 and -1, axis bound 1 | the report follows the contacts |
| `wire` | bytes of 0..31, reports of 14 bytes, one harm per exchange | what arrives is what was sent, or is refused; both readers agree |
| `image` | 32-bit arithmetic scaled to a word of 32, blocks of 4 and 3 bytes | what the firmware accepts, and that the tool accepts the same |
| `settings` | 5 keys, 2 values, 4 slots, stored versions 1 and 2 | the table is the promised map |
| `target` | a clock that wraps at 8, a timeout of 5, steps of 0, 1, 3, a radio up to 2 events ahead | callbacks, link state and pairing time |
| `restart` | 2 mice of one model, 1 of another, 3 paths, 2 passes, any 2 mishaps | which unit the verification accepts |
| `mode_reply_lost`, `awake`, `same_version` | 2 chunks, 1 fault (of the first, a lost reply), 1 run | the code does not do what a text says (section 6) |

Properties of `session`:

* `AcceptedStreamIsImage` - about to reset a live mouse, the tool faces one that
  is updating and holds the image itself.
* `Lockstep` - the mouse is at most the chunk under way ahead of the tool.
* `OnlyConsentedWrites` - nothing but a consented run changes the updater.
* `ImplementsChunkTransfer` - refinement of the abstract transfer.
* `RunIsBounded` - whatever goes wrong, and however often, a run takes at most
  `RunLength` steps of the tool.
* `RunTerminates`, `ResetSentSettles`, `GoodRunSucceeds` - every run ends; a
  reset that was sent takes effect; a run without faults succeeds whatever the
  runs before it left behind.

Properties of `app`:

* `BusyIffTool` - busy exactly while a tool is out, and no modal dialog over it.
* `ControlsFresh` - the buttons are those of the current state.
* `OneToolAtATime` - a tool starts only when the one before has ended.
* `WritesAsConfirmed` - a mouse gets firmware only by a consent given for this
  write and used once, of the model named, and not a lower or equal version
  without the critical alert; file and mice may change at any moment in between.
* `BusyEnds`, `ConfirmedIsAnswered` - the controls come back, and a confirmed
  write ends in the success line or an error.

Properties of `input`:

* `NeverEarly`, `NeverLate` - the debounced state changes only to a level that
  uninterrupted polls have seen for `debounce_ms`, and does so by then, unless the
  16 bits were outgrown.
* `ChainAgrees` - the newest event of a button, wherever it is between contact
  and report, says what the debounced state is: a button does not stand wrong,
  unless its last event was refused.
* `ImplementsFifo` - refinement of the abstract queue.
* `SteadyContactReported` - a contact that stays is reported in the end, and stays
  reported.

Properties of `wire`:

* `RequestIntact` - the mouse reads what was asked; of a request with one byte
  changed it reads nothing, or at least no other payload.
* `ResponseIntact` - a response of any length arrives as it was sent, over any
  number of reports and whatever the bytes between hold; a harmed one is refused or
  arrives all the same, unless its first report was lost (section 6).
* `ReadersAgree` - `_read_response` and `g6he_response_decode` understand the same.

Properties of `image`:

* `ReadsInsideFile` - no byte behind the end of the file is read, but for the head of
  an area that reaches the end of a 32-bit address space (section 6).
* `AcceptedIsSigned` - an accepted file is filled by its TLVs to the last byte, with
  exactly one digest, which is the file's, one key hash and one signature.
* `ToolAgrees` - firmware and tool accept the same files, but for the digests that
  only the tool knows.
* `VersionsAgree` - they order versions alike where both can tell.
* `DigestsStandard` - SHA-512 and SHA-256 streams cut anywhere are the standard's.

Properties of `settings`: `ImplementsMap` (the refinement). Properties of `target`:

* `NoNullCall` - no callback is called that the bound backend lacks.
* `StateFollowsLink` - when the radio has told all and nobody asked for a pairing
  since, the state is connected exactly when the link is up.
* `PairingNotCutShort`, `PairingEndsInTime` - pairing ends at its timeout.

Properties of `restart`:

* `VerifiedRunsTarget` - what is called verified is of the written unit's model and
  runs the target version, however the places changed between listing and opening.
* `OtherOnlyInAbsence` - with two mice of one model the other is taken for the
  written one only if that was away, moved or silent in the last pass, or if the
  other sits at the path selected before.
* `FoundWhenBack` - a written unit that is back, alone of its model or at its old
  place, is found when nothing more goes wrong.

Bounds of `restart`. Two units of a model are what ambiguity takes, a third of
another model can take the place of either; with three paths each has one and all
permutations occur. Two passes are one that fails and a last one; two mishaps are
one unit out and another in. Initial versions are arbitrary. Fairness: weak, of the
tool's steps (one thread, every wait with a timeout); nothing is asked of the bus.
`CHECK_DEADLOCK FALSE`: when a run has ended and the mishaps are used up nothing
need happen.

Bounds of `wire`. Payloads are every one of up to two bytes of the smallest, a
middle and the largest value, and the two longest that fit, of zeros, largest bytes
and a pattern in which bytes differ; responses lie around the sizes at which a
report is full (6, 19) and the longest possible; one has a second report that reads
as a response of zeros, so that the loss of its first report shows. A byte of 32 values makes the
16-bit checksum carry into its high byte. One change of one byte is what a 16-bit
sum and a complemented length are for; two can cancel out.

Bounds of `image`. The sizes are scaled: a header of at least 4, records with a head
of 2, vectors of 2, a word of 32. `SizeModulus` is 32 as well, the target's width and
the harder case; the wide one is the theorem `WideParseStaysInside`. Header and image
sizes reach a sum that wraps (8 + 30), two that wrap only in `size_t` (4 + 26 and 4 +
27), one that fits exactly and one that is a byte too long; an area of 8 after 4 + 26
ends, wrapped, at the end of the file of 6, so that the loop is reached that way too;
area sizes and file lengths fit each other or miss by one; up to seven TLVs fit, four are more than the
list of three records; lengths of 0, 1 and 2 are none, that of one digest, and that
of the others. Blocks of 4 and 3 with length fields of 2 and 1 let messages end
before, at and behind the place where a block more is needed. Versions differ in
the first or the last number only, and include the longest text there is.

Bounds of `settings`. Both names of both axes and one more key fill four slots in
every order, so an old and a new entry stand in any order and on the last slot, and
a table can be full. Two values tell whether the newer one won.

Bounds of `target`. Steps of 0, 1 and 3 end short of the timeout, on it and past
it; the largest step that cannot jump over a wrap is 3. Two events are enough for a
link that went down and up again before the first was told.

Deadlock is checked in these four: a caller can always go on. They state no
fairness; nothing in them must happen.

Bounds of `app`. Two ports let a mouse come back on another one, and two mice let
the port of the first hold the second; two mishaps are what such a swap takes
(one out, one in), or a replaced file and a failure. One image is newer than the
other, and made for both models; the older is for one model only, so it is
refused for the other mouse; the third is malformed. The newer is the one whose
hash is recorded, so both outcomes of a same-version check occur.
`CHECK_DEADLOCK FALSE`: after the window is closed and the tool has ended nothing
need happen. Fairness: weak, of the tool's steps (every wait in it has a timeout)
and of the completion (the main loop runs blocks queued for it); nothing is
assumed of the user, of mishaps or of the file.

Bounds of `session`. Three chunks are a first, a middle and a last one; two attempts are a
failure that is retried and one that is not; four sequence numbers wrap inside
one run (the queries take two, the transfer three); two polls are a failed and a
last one; three faults let one fault strike the recovery from another and a
third strike the next run; two runs are one that leaves a state and one that
meets it. `CHECK_DEADLOCK FALSE`: after the last permitted run the system
rests.

Bounds of `input`. Buttons share nothing but the queue, and the events of the
others act on one button as `PushOther` does, by taking room: one is enough. Three
raw values are released, between the thresholds, and pressed. Intervals of 0, 1
and 3 fall short of the debounce time, add up to it, pass it at once and wrap the
counter of 4. A queue of 2 is empty, partly full, full, and has both a head that
moves and a tail that wraps; an axis bound of 1 with steps of 1 reaches both
ends. `CHECK_DEADLOCK FALSE` is not about a stop: the caller can always feed.
Fairness: weak, of polling with time that passes, of taking a pending event and
of popping. The caller is not in the repository, so this is an assumption about
it: its loop goes on. `SteadyContactReported` excuses a queue that refused the
last event and poll intervals that keep wrapping the counter.

Fairness of `session`. Weak fairness of the tool's steps (a single thread that never waits
without a timeout), of the mouse's handler (a loop), and of restart and
enumeration (external, and what the 15 seconds of polling rely on). Nothing is
assumed of the user or of faults; `slow_boot` is the fault that the restart
outlasts the polling.

## 4. Proofs

`UpdateSessionProofs` proves for all constants, under the named assumptions of
`Updater` and `UpdateSession` (positive counts, natural bounds):

* `TypeCorrect`: `Spec => []TypeOK`. The inductive invariant adds the types of
  the link's contents and that the chunk under way is a chunk of the image.
* `AcceptedIsImage`: `Spec => []AcceptedStreamIsImage`. The property itself is
  not inductive: that the mouse said OK to 0x65 matters only if nothing that
  changes the mouse can still be on its way, and if that OK is the answer to
  this 0x65. `IndInv` therefore follows the link through the phases: a phase that
  writes one request has either that request unanswered or nothing under way
  (`SingleRequest`, `NothingUnderWay`); during the transfer only chunks are under
  way (`TransferPhase`); a 0x65 is the last report in the queue, and when the
  queue is empty an OK for it vouches for the CRC the mouse has now
  (`CheckPhase`). One lemma per action shows that it is kept.

The second half goes on from these, under the same assumptions:

* `WritesHaveConsent`: `OnlyConsentedWrites`. A report outlives its run, so the
  invariant is about the link: whatever is on it and may change the mouse was
  written under the consent of the run that is still the last one (`ConsentInv`).
* `ToolAndMouseInStep`: `Lockstep`, and `TransferIsAbstract`:
  `ImplementsChunkTransfer`. `StreamInv` says that no chunk on the link is ahead of
  the tool, that the tool's own chunk is there only once it was written, and that
  an answer to a chunk is about a stream that has it or is ruined (`Answered`): a
  late answer to an older copy can be taken for one only after the copy has
  ruined the stream, which the CRC then finds. `ChunkTaken` is the one step that
  matters: of all chunks that may arrive only the one under way makes the stream
  longer.
* `OnlyFourFaultsRuin`: `StreamNeverGarbled`, when `FaultKinds` has none of
  `Ruinous` (a write that fails although the mouse got it, a reply lost or late, a
  report that answers nothing). Then tool and mouse take turns (`Turns`, `Exact`).
  So each retry after one of these four is one that may cost the transfer, and no
  other fault does.
* `RunsAreBounded`: `RunIsBounded`. `StepsLeft` is the measure: at most how many steps
  of the tool are left of a run. In the transfer it counts the attempts not yet used,
  of this chunk and of those after it, so an acknowledged chunk lowers it although
  the attempts start anew (`WritesAre`). It is the part of `RunTerminates` that needs
  no fairness: the tool cannot go on for ever; that it does go on is the rest.

`FirmwareAppProofs` proves for all constants, under `AppAssumption` (at least one
port; models, versions and images of the right types; the markers for nothing are
not values):

* `WindowCorrect`: `TypeOK`, `BusyIffTool` and `ControlsFresh` always hold.
* `ToolsNeverOverlap`: `OneToolAtATime`, a consequence: a control is enabled only
  when the app is not busy, and then no tool is out.
* `ConsentHonoured`: `WritesAsConfirmed`. The step that writes sees only the tool's
  own state, so the invariant has to carry the user's answer to it. `JobInv`: a
  job is under way only while the app is busy or shows the confirmation or a
  launch error, and its file is still the chosen one. `ToolInv`: a tool that has
  read an image has a well-typed one, and only a write gets past the gate.
  `ConsentInv`: a write job carries the model and the flag of the last alert; until
  the mouse has been written its consent is given and not used; and the mouse a
  writing tool has open is of that model, with an image above what it runs unless
  the flag was given. The lemma `StartsAlone`
  is the step behind the second theorem, `CommitAsConfirmed` the one behind the
  third.

`MouseProofs` has three parts. About `InputChain` it proves for all constants, under `ChainAssumption` (what
`g6he_optomagnetic_init` accepts, a positive capacity, poll intervals of 16 bits):

* `ChainCorrect`: `TypeOK`, `NeverLate` and `ChainAgrees` always hold.
  `DebounceInv` ties the code's counter to the time measured from outside: the
  candidate is the level polled last, and while it differs from the debounced
  state the counter is at most that time, and equal to it until it wraps.
  `PendingInv`: an event that waits reports the present debounced state.
  `ChainAgrees` is kept because a push appends and a pop removes the first of the
  queue (lemmas `PushAppends`, `PopTakes`), whatever the order of the rest.
* `DebounceHolds`: `NeverEarly`, from `DebounceInv`.
* `RingIsQueue`: `ImplementsFifo`, the refinement. `SlotsDiffer` is the arithmetic
  behind it: different positions of the queue lie in different slots.

About `Settings`, under `SettingsAssumption`:

* `SettingsTypeCorrect`: `SettingsTypeOK`, of which the part with content is that no name stands
  twice in the table. Without it a migration could bring back an old value.
* `TableIsMap`: `ImplementsMap`. Looking up the first entry is looking up the only
  one, so each step acts on one name; a renamed entry keeps its slot, and the entry
  that moves into a freed slot keeps its name and value.

About `Target`, under `TargetAssumption` (the timeout fits
the counter, and no tick is so long that the counter can wrap past it):

* `TargetTypeCorrect`, `CallsAreBound`, `LinkIsFollowed`, `PairingOverInTime`,
  `PairingTimed`, all from one inductive invariant, `TargetInv`. For `LinkIsFollowed` it says
  that the last event not yet told is what the link is now, that with none left the
  state is the link's, and that a pairing is over once the radio has told something;
  for the pairing, that the code's clock
  and the time measured from outside are equal while pairing.

`HashStreamProofs` proves for every size of block and length field (`HashSizes`):

* `StreamIsStandard`: a message cut in two anywhere gives the blocks of
  `Reference`. The invariant of `update` is `Held`: the blocks compressed are the
  whole blocks of what came, and the buffer holds the rest of it; what it held
  before lies behind and is never read. `final` then has two cases, by whether the
  length still fits.
* `DigestIsStandard`: the same in one piece.

`ImageCheckProofs` proves for all constants, under `McuBootAssumption` and
`ImageCheckAssumption` (field values of 32 bits; a `size_t` at least that wide; a file
that leaves the address space room for one 16-bit field; both hash sizes are ones):

* `TypeCorrect`, and `ParseStaysInside`: `ReadsInsideFile`. The invariant carries
  what each phase may still read: the head of the area and the vectors lie in the
  file once the header was accepted (`NoWrap`: a 32-bit sum that wrapped is smaller
  than the header and refused; `SizeSum`: a `size_t` sum that wrapped is `AtEnd`), and
  in the loop the cursor never passes the end.
* `WideParseStaysInside`: `StaysInside`, the same without the exception, where
  `size_t` holds the largest 32-bit offset and a head behind it (`WideSize`).
* `DigestsOfFiles`: `DigestsStandard`, from `StreamIsStandard`.
* `ToolAndFirmwareAgree`: `ToolAgrees`, for files smaller than 2^32 bytes. `Agreed`
  keeps the two side by side: while the firmware reads, the tool reads the same
  field and has counted the same; when it refuses, so does the tool, or the file
  has a digest only the tool knows. That the firmware compares the right digest is
  `DigestIsStandard`. In the wrapped case the first TLV is the header's magic, and both
  refuse.
* `AcceptedFilesSigned`: `AcceptedIsSigned`. The property is about the end, so
  `Signed` follows the counts through the loop: while the firmware reads on, its
  cursor is behind the sizes of the TLVs it took (`SizesGrow`), each of its counts is
  the number of places with such a TLV (`PlacesGrow`), the digest flag says whether
  one of them holds the digest computed, and every TLV has the length its type asks
  for (`Counted`; `TlvCounted` and `StillCounted` are the step). Accepting needs the
  cursor at the end of the file, from where the equation of the sizes follows, and
  counts of one, from where "exactly one" does.
* `VersionOrderAgrees`: `VersionsAgree`. `OrderIsLexical`: the first number that
  differs, which the firmware's loop looks for, decides the order of Python's tuples.

`SumTheorems` proves what a sum is made of: that a sum over a set is that over two
parts of it (`SumSplit`), and what one summand more (`SumAppend`) or another one
(`SumChange`) makes of it. The community modules define sums as a recursive function
over subsets, by an arbitrary element first, so that it exists and that the choice does
not matter have to be proved first. Such a fact about every finite set is proved by
its smallest counterexample (`SmallestSet`): of a set of subsets of a finite set one
has no smaller one in it, which needs no operator as a parameter.

`WireProofs` proves for every size of report and byte and any payloads, under
`CodecAssumption` (a report holds its head, a byte holds a report's length) and
`WireAssumption`:

* `TypeCorrect`: `TypeOK`. The invariant `WireInv` adds where the reports came from:
  they are those of some request or response asked for, with at most the one harm
  done that `harm` tells (`RequestSent`, `ResponseSent`), and what was understood is
  the decoding of them (`Understood`).
* `RequestArrives`: `RequestIntact`. `ChecksumDetects`: one changed byte changes a
  16-bit sum of bytes, since a byte is less than the modulus. Every other byte of the
  frame is either compared or no part of the payload (`ParsedStill`).
* `ResponseArrives`: `ResponseIntact`. `StreamIs` and `Recovered` say which byte of
  which report carries which byte of the stream, over any number of reports
  (`FirstPlace`, `LaterPlace`); `Carries` that what is accepted holds its payload
  there. A lost later report leaves too few (`LostRefused`), a foreign one breaks the
  run of reports with the response's id (`InsertedStill`).
* `ReadersAlike`: `ReadersAgree`, for whatever the link made of the reports.

`RestartVerifyProofs` proves for any mice, models, paths and bounds, under
`RestartAssumption` (finitely many, at least as many paths as mice, and being away is
no path):

* `TypeCorrect`: `RestartTypeOK`, which says that no two mice are at one path.
* `VerifiedIsTarget`: `VerifiedRunsTarget`. An answer that was the target version
  stays true (`AnswersStand`), since a restart changes a version only to that one,
  so that the places may change between asking and judging.
* `OtherNeedsAbsence`: `OtherOnlyInAbsence`. As long as the written unit is
  undisturbed it is on the list of interfaces still to be asked or among the answers
  (`WrittenSeen`), so a single answer of its model is its own (`MatchKeeps`).

Every invariant that a passing run checks, every action property and the three
refinements are theorems. Only model-checked is what rests on fairness, which the
prover does not reach: `RunTerminates`, `ResetSentSettles`, `GoodRunSucceeds`,
`TransferSurvivesLostWrites`, `BusyEnds`, `ConfirmedIsAnswered`,
`SteadyContactReported`, `FoundWhenBack`; and that the exceptions of an invariant
are needed, which is TLC's counterexample without them. The runs that expect a
violation prove nothing beyond theirs.

## 5. Plan

Done: every component of section 1 with a state of its own, with the proofs of
section 4. The type invariants of `FirmwareApp`, `InputChain`, `Target`,
`ImageCheck` and `Wire` are theorems and not checked again by runs. Left:

1. More behind the liveness properties. The measure of `RunTerminates` is proved
   (`RunsAreBounded`); that in each phase of a run some step of the tool is possible
   is about `ENABLED` and stays with TLC. The commands of the app have such a measure
   too.
2. The Hall curve arithmetic and the fixed layouts of identity, capabilities and
   defaults, as operators against reference definitions.
3. `_prevent_system_sleep`: the subprocess and its two timeouts.

## 6. Where texts and code differ

* `NotEnteredLeavesIdle`: a mouse that took 0x62 whose answer was lost is left in
  update mode, without a reset, and the run says update mode was not entered.
* `AwakeThroughRecovery`: the sleep assertion ends before the recovery reset.
* `SuccessAfterRestart`: on a same-version reflash the first query can be answered
  before the restart, and the version string alone decides.

Met while modelling; no run checks them:

* Nothing tells the first report of a response from a later one. When the first is
  lost, a later one that happens to look like a response is taken for one:
  `ResponseIntact` needs the exception `HeadTaken`, and TLC refutes it without. Only
  the identity response, of 40 bytes, takes two reports, and the comparisons of type,
  sequence and command in `exchange` (`g6he_mac_tool.py:472-491`) would still have to
  fit by chance.
* `g6he_mcuboot.c:81` and `:92` add to the 32-bit `tlv_offset` in `size_t`, which is 32
  bits wide on the nRF54 target that `zephyr/CMakeLists.txt:28` builds this file for.
  With a header size of 32 and an image size of 0xFFFFFFDC the offset is 0xFFFFFFFC, the
  sum of line 81 wraps to 0 and passes, and lines 84-85 read at `data` + 0xFFFFFFFC, not
  in the file. `interfaces.md:47-48` says the parse fails closed for any out-of-range
  image. The file is refused in the end all the same, on the target (its first TLV
  would be its own header) and by the tool, which adds without wrapping. TLC refutes
  `StaysInside` without the exception of `ReadsInsideFile`; where `size_t` is wider,
  `WideParseStaysInside` needs none.
* The app's popup lists a mouse by name, model, version and compatibility
  (`main.m:276-281`). `addItemWithTitle:` drops an earlier item of the same title, so of
  two such mice only the last is listed, and the places of the items behind move up:
  the index selected at `main.m:283` can then be another mouse's or behind the last. The
  app model lists only mice of different titles.
* `_query_after_restart` says "Re-read the upgraded device", and the app that the
  version was read back, but any single answer of the model is taken. While the
  written mouse restarts, a second one of its model that runs the target version is
  that answer, and the run ends verified. The exceptions of `OtherOnlyInAbsence` are
  needed: TLC refutes the invariant without either of them.
* The README asks the user to review the version before confirming, and the alert
  names it, but the write reads the file again: a file replaced under the open alert
  is written with its own version. What `WritesAsConfirmed` promises still holds.
* Between the points of a falling Hall curve `g6he_hall_interpolate` is far from the
  line, since `y_hi - y_lo` is cut to 16 bits before it is scaled; BR-014 does not ask
  that a curve rises. For the points (0, 7) and (10, 0) the value at 1 is 6560.
* The identity record holds ten characters of a version, the text of an image up to
  24. A longer one is cut, so the mouse's answer never equals the target text and a
  completed upgrade ends unverified (`g6he_mac_tool.py:974`). The KCFWID
  reader takes up to 15 characters.
* `g6he_mcuboot.h:12-13` says the initial stack pointer and the reset vector lie in
  the RAM window; the code refuses only 0, 0xFFFFFFFF and a reset vector without
  its thumb bit.
* `interfaces.md:117` says sequence 0 is rejected; `g6he_frame_parse` accepts it. The
  checksum does not cover the sequence, which is why `RequestIntact` promises the
  payload only.
* `g6he_wireless.h:10-11` mentions a blink of 0.5 s and sleep after 10 minutes; the
  tick only knows the pairing timeout.
* A "disconnected" of the old link that is told late ends a pairing just asked for
  (`g6he_wireless.c:55-62`), and a pairing that times out over a link that is up
  leaves the state OFF. `StateFollowsLink` therefore asks that the radio has told
  something since the request.
* `G6HE_VERSION_STRING_MAX` is one byte short of the longest version, whose last
  digit is lost; `parse_u32_dec` wraps at 2^32; the C code accepts a prefix "V", the
  tool only "v". `VersionsAgree` excludes these three.
* The header of `g6he_hid_accumulate` says it returns true when the report changed;
  it returns true for every button and motion event (`g6he_hid.c:64`).
* `_read_response` computes a negative payload length from a length byte of 0 or 1
  (`g6he_mac_tool.py:428-440`): for 1 the unpacking of the checksum fails, for 0 all
  but the last two bytes count as payload, whose sum they may happen to be. The C
  code refuses the length, and so does the model for both. One harmed byte does not
  get that far, since the complement of the length is checked first.
* The tool adds header and image size without wrapping, so of a file of 2^32 bytes
  or more it could think well where the firmware does not.

## 7. Not modelled

With reasons in `PROJECT.json` under `components`; in short:

* the compression functions of the digests, the arithmetic of the CRC-32 and its
  collisions: the protocol only compares results;
* in the image inspection the search for model strings, `ram_load_ok` and the
  `sig_pure` flag; the verification of a signature is the bootloader's;
* Hall curve arithmetic, identity, capabilities and defaults: pure functions and
  fixed layouts without state, and the list of all HID interfaces, which nothing
  else uses;
* the subprocess of `_prevent_system_sleep`, whose two timeouts could turn a
  completed transfer into an interrupted one (`g6he_mac_tool.py:707`);
* of the power controller the battery class, the CPI limit and the check of the
  electrical configuration;
* the Zephyr entry point (one sequence of calls), the reverse-engineering scripts
  and the packaging.
