# Formal models of the OpenNSA kernel modules

OpenNSA ships its switch SDK as a binary library; what the repository holds in
source form is the GPL side: the Linux kernel modules in `src/gpl-modules`
(about 18,700 lines of C) and a small demo in `src/diag`. The program's own
logic is in two of these modules:

* **KNET** (`bcm-knet.c`): virtual network interfaces of the Linux kernel on
  top of the packet DMA channels of a switch, shared with the SDK in user space;
* **BDE** (`linux-kernel-bde.c`, `linux_dma.c`, `mpool.c`, `linux-user-bde.c`):
  device discovery, interrupts, register access and the DMA memory pool, shared
  by the kernel and any number of user processes.

This directory models them in TLA+, checks the models with TLC and proves the
theorems that matter most with TLAPS.

## 1. Inventory

Paths are relative to `src/src/gpl-modules/systems`. Line numbers without a
file name are those of `linux/kernel/modules/bcm-knet/bcm-knet.c`.

| Component | State it keeps | Operations | What makes it hard |
|---|---|---|---|
| **KNET Tx** | ring of 64 DCBs (`tx.desc`, `cur`, `dirty`, `free`), API chain list, `api_active`, PTP queue, queue state of every interface | `bkn_tx`, `bkn_do_tx`, `bkn_tx_chain_done`, `bkn_api_tx`, dma-info ioctl, `hw_reset`, `hw_init`, open/stop | one channel for two masters (kernel packets, API chains); completions race with new packets; a stopped queue needs a completion to wake it |
| **KNET Rx** | per channel: ring of 64 DCBs with their skbs, `running`, `chain_complete`, `tokens`, timer | `bkn_rx_refill`, `bkn_rx_restart`, `bkn_do_skb_rx`, `bkn_rx_chain_done`, timers | lock released while a packet is handed to the stack; the channel stops by itself and must be restarted by somebody; tokens, memory shortage and missing done bits all delay the restart |
| **KNET API Rx** | chains of the SDK (`api_dcb_list`, `api_dcb_chain`), filters' decisions | `bkn_do_api_rx`, `bkn_api_rx_restart`, `bkn_api_rx_chain_done` | ownership of a chain alternates between user space, driver and hardware |
| **Interrupts and NAPI** | `irq_mask`, `napi_poll_mode`, `napi_poll_again`, `poll_channels` | `bkn_isr`, `xgs*_isr`, `bkn_poll`, `xgs*_do_dma` | mode bits tell the handler and the poll apart; each releases the lock to call the network stack |
| **Continuous DMA** | `halt_addr`, reload descriptors, `tx_yield` | `bkn_cdma_goto`, `bkn_tx_cdma_chain_done`, `bkn_tx_cdma_chain_switch` | the hardware runs ahead of the driver up to a moving halt address |
| **Interfaces and filters** | `ndev_list`, `ndevs[]`, `rxpf_list` | netif/filter create, destroy, list, get; `bkn_match_rx_pkt` | ids are reused, the table grows, packets in flight refer to interfaces |
| **KCOM commands and events** | `dma_events`, event counters `evt_wq_get/put` | `bkn_handle_cmd_req`, `bkn_get_next_dma_event` | round-robin over devices, wake-ups must not be lost |
| **Device instances, start and stop of the module** | `_sinfo_list`, `irq_mask`, timers, PTP work | `bkn_knet_dev_init`, `hw_init`, `hw_reset`, `detach`, `_cleanup` | timers, work and interrupts outlive what they use |
| **Rx rate control** | tokens, `burst_max`, tick timer | `bkn_rx_add_tokens`, `bkn_rxtick`, `bkn_rx_rate_config` | arithmetic at the edges; restart of a starved channel |
| **Packet formats** (headers, VLAN tags, RCPU, timestamps, /proc) | none | parts of `bkn_tx`, `bkn_do_skb_rx` | data only |
| **mpool** (`bde/linux/shared/mpool.c`) | sorted list of allocated blocks | `mpool_create`, `alloc`, `free`, `destroy`, `usage` | blocks must not overlap; several processes share a pool |
| **DMA pools** (`linux_dma.c`) | segments of contiguous memory per method | `_dma_pool_alloc`, `_pgalloc`, `lkbde_get_dma_info`, mmap | physical contiguity found page by page |
| **Kernel BDE** (`linux-kernel-bde.c`) | device table, interrupt owner, `imask`/`imask2`/`fmask` | probe/remove, `_isr`, `interrupt_connect`/`disconnect`, `lkbde_irq_mask_set` | one interrupt mask register is shared by kernel and user space |
| **User BDE** (`linux-user-bde.c`) | wait queue and flag per interrupt, DMA resource table, instances | ioctl, `_cmic*_interrupt`, instance attach | a wake-up from the interrupt handler and the wait of the user process |
| **shbde** (`bde/shared/*.c`) | none beyond registers | iProc and MDIO access | hardware protocol |
| **gmodule, ksal, knet-cb, diag demo** | module glue, an abstraction of semaphores and timers, example call-backs, a demo | - | - |

Interactions. The network stack calls `bkn_tx`, `bkn_open`, `bkn_stop`,
`bkn_poll`; the interrupt (or NAPI poll) calls `*_do_dma`, which calls the Rx
functions of every channel and then the Tx functions; the SDK calls KCOM
commands through an ioctl and waits for events; timers restart starved Rx
channels. All of them meet in `bkn_switch_info_t` under its spin lock
`sinfo->lock`, which is *released* in the middle of Rx delivery and around NAPI
calls. KNET gets its registers, DMA memory and interrupts from the kernel BDE,
which shares the interrupt mask with the user BDE.

What makes each part correct, in short; section 4 says which of this is
checked and section 6 which is proved.

* **Tx**: a socket buffer has one owner at any time, is sent once and in order,
  and is freed once; the channel works only on DCBs that are in use; whatever
  waits (packets, API chains, stopped queues) has a completion to come.
* **Rx**: a buffer that was handed to the stack is not touched again; packets
  are taken once and in order; a channel that has stopped is restarted; nobody
  disturbs the ring while the lock is given up for a delivery.
* **API Rx, Continuous DMA**: a chain belongs to the SDK, the driver or the
  hardware, never to two; the hardware never passes the halt address.
* **Interrupts**: the mask register holds what both drivers asked for; poll mode
  ends; no interrupt is lost; one activation of `do_dma` at a time.
* **Interfaces and filters**: the list and the table agree; ids are unique; an
  interface outlives every packet that refers to it; filters decide in order.
* **Events**: an event that was posted is reported to the SDK, for each device.
* **Instances, module removal**: no timer, work or interrupt runs on what is gone.
* **Rate control**: tokens stay within `burst_max`; a rate has a sane tick.
* **mpool**: blocks lie in the pool and do not overlap; a free disturbs no other
  block; an allocation fails only when nothing fits.
* **DMA pools**: what is found is physically contiguous and belongs to one owner.
* **Kernel and user BDE**: one owner of the interrupt line; instances have
  disjoint ranges of the pool and devices.

## 2. Plan

Most important first. The number of TLC runs is kept small: nine that pass,
one for each question, and three that show where the code does not do what it
says.

| # | Module | Composes / refines | State |
|---|---|---|---|
| 1 | `KnetTx` | refines `PacketQueue` | done, proved in `KnetTxProofs` (safety) |
| 2 | `KnetRx` | refines `PacketQueue` | done, proved in `KnetRxProofs` (safety) |
| 3 | `Interrupts` | abstracts `KnetRx`/`KnetTx` to a number of packets | done, proved in `InterruptsProofs` (safety) |
| 4 | `Mpool` | refines `MemoryPool` | done, proved in `DmaPoolProofs` |
| 5 | `KnetIf` | abstracts the rings to one packet at a time | done, proved in `KnetIfProofs` |
| 6 | `KnetEvents` | the way from the handlers of all devices to the processes of the SDK | done, checked as part of `KnetApi`, proved in `KnetApiProofs` (safety) |
| 7 | `KnetApi` | composes one Rx channel of the SDK with `KnetEvents` | done, proved in `KnetApiProofs` (safety) |
| 8 | `DmaPool` | composes the assembly of segments with `Mpool`, so refines `MemoryPool` | done, proved in `DmaPoolProofs` |
| 9 | `BdeDevices` | devices of the kernel BDE and the owners of their interrupts | done, checked as part of `Bde`, proved in `BdeProofs` |
| 10 | `Bde` | composes `BdeDevices` with the instances of the user BDE | done, proved in `BdeProofs` |
| 11 | `KnetCdmaTx`, `KnetCdmaRx` | a channel of either direction in Continuous DMA mode | done, proved in `KnetCdmaProofs` (safety) |
| 12 | `KnetRemove` | `_cleanup` against timers, interrupts and poll | left |

Abstract specifications: `PacketQueue` (what a ring promises) and `MemoryPool`
(what an allocator promises). Every safety property of the passing runs
is proved.

## 3. Modules

### `PacketQueue`
The abstract ring: `Accept` appends a packet, `Send` removes the first one,
`DropAll` empties it (a reset). `KnetTx` and `KnetRx` are shown to implement it
(`SentInOrder`, `ReceivedInOrder`).

### `KnetTx`
`sinfo` is the Tx half of `bkn_switch_info_t`, with the DMA channel and the bits
of the interrupt registers that belong to it. Functions of the driver that run
under `sinfo->lock` are operators from a device state to a device state with
their C names (`bkn_do_tx`, `bkn_tx_chain_done`, `bkn_api_tx`, `bkn_suspend_tx`,
`bkn_resume_tx`, `bkn_dma_abort_tx`, `bkn_clean_tx_dcbs`, `bkn_init_dcbs`); an
action applies the composition that its caller makes in one go.

| Code | Action |
|---|---|
| `bkn_tx` called by the stack, until it has the lock | `StackXmit` |
| `bkn_tx` with the lock: drop, mapping error, enqueue, ring full | `bkn_tx` (`TxDrop`, `TxMapError`, `TxEnqueue`, `TxNoResources`) |
| `xgs_do_dma` and its variants: status read / Tx part | `DmaLatch` / `DmaTx` |
| dma-info ioctl, Tx half; `bkn_get_next_dma_event` | `bkn_knet_dma_info_tx`; `TakeTxEvent` |
| PTP worker | `bkn_hw_tstamp_tx_work` |
| KCOM hw_reset, hw_init | `bkn_knet_hw_reset`, `bkn_knet_hw_init` |
| `bkn_open`, `bkn_stop` | `OpenNetif`, `StopNetif`, `OpenBase`, `StopBase` |
| the DMA engine | `HwDcbDone`, `HwApiDone` |

`DmaLatch` and `DmaTx` are apart because `do_dma` reads the status once and
gives the lock up for Rx deliveries before it acts on the Tx part.

### `KnetRx`
`rx` is `sinfo->rx[chan]` with its share of the device's registers, `h` the local
variables of the handler. `do_dma` is cut where the lock is given up: `DoDma`
(begin), `RxDcb` (one DCB up to the hand-over), `Mirrored` and `Delivered` (the
lock is back), `RxEnd`, then `NoChainDone`, or `RxSync` (waiting for late DCB
writes) and `bkn_rx_chain_done`. `bkn_timer_func` and `bkn_rxtick` are the two
timers that restart a channel. `HwRxDone` and `HwWriteBack` are the DMA engine:
on some platforms a DCB is written after the interrupt, so the write may be
late (`posted`).

### `Interrupts`
One interrupt line through `linux-kernel-bde.c` (`IrqStart`, the mask register),
`linux-user-bde.c` (`IrqUser`, `IrqAllKernelCmic`, `IrqAllKernelCmicm`, the SDK's
thread `Thread*`) and `bcm-knet.c` (`Isr*`, NAPI `Poll*`, `do_dma` as
`Dma*`). The rings are a number of DCBs that are done (`k.work`). `d` holds up
to three activations of `do_dma` (interrupt, poll, `bkn_open`), because nothing
but the mode bits keeps them apart.

### `Mpool` and `MemoryPool`
`Mpool` is `mpool.c` with its pointers: `node` is the array of list nodes,
`free_list` those not in use, `bufs` the buffers of nodes. Every function holds
`_mpool_lock` throughout and is one action. The walk along the list is stated by
its result (`FirstFit`); that the list is such that the walk has this result is
`ListSound`. `MemoryPool` is what the users of the allocator rely on: blocks in
the range, disjoint, unchanged until freed.

### `KnetIf`
`dev` is the life of a `net_device`: registered, private data filled, listed,
unlinked, freed. `bkn_knet_netif_create` is three actions (`bkn_init_ndev`,
`FillPriv`, `bkn_knet_netif_create`), since only the last runs under the lock;
`bkn_knet_netif_destroy` unlinks, `unregister_netdev` frees. `ndevs` is a
function on `0 .. ndev_max - 1`. Filters are records in `rxpf_list`; the bytes a
filter compares are a set of packet contents. `bkn_do_skb_rx`, `Mirrored` and
`Delivered` are the hand-over of one packet and its clone. `device_is_dnx` is the
kind of device, for which filters of priority 0 match without a look at the
packet.

### `KnetEvents` and `KnetApi`
`KnetEvents` has all devices: `dev` is the events' part of `bkn_switch_info_t`,
`evt` is `_bkn_evt[]` with the difference of `evt_wq_put` and `evt_wq_get`
(only whether they differ matters), `thr` the thread of each process inside
`bkn_get_next_dma_event`. `EXTENDS KnetEvents` makes `KnetApi` the composition:
its handler posts through `Post`, its process takes DCBs back when `ScanDevice`
has found an Rx event.

| Code | Action |
|---|---|
| KCOM reprobe, `bkn_create_inst` | `bkn_knet_dev_inst_set` |
| `dma_events \|= ...; evt_wq_put++; wake_up` of one device, and of two at once | `DmaEvent`, `DmaEventBegin` / `DmaEventEnd` |
| `bkn_get_next_dma_event`: entry, one device, the wait | `GetNextDmaEvent`, `ScanDevice`, `WakeUp` / `Interrupted` |
| dma-info ioctl, Rx half: the chain is queued, or its channel is invalid | `bkn_knet_dma_info` (`QueueChain`, `RefuseChain`) |
| `do_dma`, up to the Rx descriptors | `DoDma` |
| `bkn_do_api_rx`: a DCB left to the SDK or handed to the stack first | `ApiDcb`, `Delivered`, `ApiRxEnd` |
| `bkn_rx_chain_done` with its retries | `NoChainDone`, `ApiSync`, `bkn_rx_chain_done` |
| copy of a packet of the Linux channel | `bkn_api_rx_copy_from_skb` |
| KCOM hw_reset / hw_init, wb_cleanup | `bkn_knet_hw_reset`, `bkn_knet_wb_cleanup` |

A DCB goes from the process (`own`) to KNET (`new`), is written by the hardware
(`filled`), marked by the driver (`done`) and taken back. A chain's record
(`rec`) is freed by the driver while the process may pass the chain again, so
chains and records are told apart. `refused` are the records that were allocated
for a channel that is invalid: the ioctl neither queues nor frees them.
`do_dma`'s budget is not in this module: `bkn_do_api_rx` looks at it in Continuous
DMA mode only (3300-3304).

### `DmaPool`
`pages` are the blocks that the kernel can still give, `work` is the
`dma_segment_t` that is being assembled, `_dma_seg` the segments in use. One
action per block (`GetBlock`, `NoBlock`), because the kernel may give any block
or none. `_find_largest_segment` is a few actions too, one for each thing its
loops do, so that it can be reasoned about without recursion: `FindRun` clears
the tags, `FirstBlock` begins a run, `AdjacentBlock` adds a block to it,
`NextPass` is the `do ... while (found)`, `RunEnds` retags, `RunFound` leaves the
outer loop. `tag` holds the low two bits of each block's address, `run` the
local variables `b`, `e`, `j` and `found`; iterations that do nothing are left
out. `WantMore`, `SegmentFound`, `SegmentTooShort` are the branches after it.
The pool itself is `Mpool`, which the module extends: `_dma_init` creates it,
`_salloc` and `_sfree` use it.

### `BdeDevices` and `Bde`
`kdev` is `_devices[]` of the kernel BDE, `udev` that of the user BDE. A call of
`interrupt_connect` or `_disconnect` is cut into `CallBegin` (reads the
handlers), `CallWrite` (writes its own) and `ConnectFinish` /
`DisconnectFinish` (requests or frees the interrupt, which the kernel may
refuse vector by vector). `NewSwitch`, `_pci_probe`, `_pci_remove` are
hot-plugging. `Bde` adds `slot` (`_bde_inst_resource[]`), `_dma_pool` and the
process of each instance: `LUBDE_ATTACH_INSTANCE` is `AttachBegin`
(`_instance_validate`), `AttachAlloc` and `AttachTake` (`_dma_resource_alloc`
reads the offset and moves it), `AttachPick` (the search for a slot) and
`AttachFill` (the slot, the devices, the kernel BDE); `GetDmaInfo` is what the
process maps; `AppExit` ends it. None of these takes a lock in the code, and all
of them interleave in the model.

Three variables are history only. `raced` are the devices of which two calls, or a
call and hot-plugging, have overlapped; `torn` says that a process has read the
offset of the pool while another was about to move it, `doubled` that one has
picked a slot while another was about to fill the one it had picked. The
properties name them, so that they say exactly up to where the code keeps what
it promises; section 4 says what TLC finds after that. `MCBde` follows either the
interrupts or the instances (`focus`), which meet only in what a device is.

### `KnetCdmaTx` and `KnetCdmaRx`
A channel that is started once and follows its halt address. `txhw` and `rxhw`
are the place of the DMA engine and that register; `tx`, `chain`, `rx` are what
the driver keeps and what is in DMA memory: a DCB's `done` bit, the address in
the reload DCB of a chain (`link`), whether a ring DCB is a packet or leads to a
chain. `MCKnetCdma` checks one direction at a time: they share only the handler,
which serves Rx first, and `DmaTxLatch` leaves the time for that.

| Code | Action |
|---|---|
| `bkn_tx`: called, and with the lock | `StackXmit`, `bkn_tx` |
| dma-info ioctl, Tx half, with the stitching of chains, or their refusal | `bkn_knet_dma_info_tx` |
| `do_dma`: status read, `bkn_do_tx`, `bkn_tx_cdma_chain_done` | `DmaTxLatch`, `bkn_do_tx`, `bkn_tx_cdma_chain_done` (`ApiChainsDone`, `SkbsDone`) |
| `do_dma` for an Rx channel, with the hand-over of a packet | `DmaRxLatch`, `DeliverRx`, `bkn_do_skb_rx`, `DmaRxDone` |
| rate timer | `bkn_rxtick` |
| KCOM hw_init | `bkn_knet_hw_init_tx` |
| the DMA engine | `HwTx`, `HwRx` |

`bkn_do_tx` and `bkn_tx_cdma_chain_done` are actions of their own, although one
call of `do_dma` makes both under the lock, since the hardware does not stop for
the lock. A loop that takes DCBs while they are done is stated by how many it
takes (`DonePrefix`, `Drained`, `FillStops`). `DmaTxLatch` needs a Tx status bit
also for the poll that comes once more on request (`napi_poll_again`): that poll
calls `do_dma`, which looks at Tx only if the bit is set (4441, 4510).
`txh.behind` is history: a chain has ended with `tx.dirty` behind the channel.

The tick, the burst and the tokens of a tick are computed from the module
parameters as in `bkn_rx_rate_config` (`jiffies_per_rxtick`, `BURST`,
`TOKENS_PER_TICK`). A DCB is `stray` when the channel has written to it while it
had no buffer; `do_skb_rx` faults on it, so nothing follows (`Looks`, `MoreRx`).

## 4. What each run checks

| Run | Properties | What it shows |
|---|---|---|
| `tx_ring` | `SkbOwnership`, `HwOnLiveDcb`, `NoLostCompletion`, `NoLostWakeup`, `SentInOrder` | ring of 4, four packets, two interfaces, an API chain, a reset between polls |
| `tx_live` | `RingDrains`, `QueueRestarted`, `ApiChainServed` | packets leave the ring, queues are restarted, chains are sent; with base device suspension, PTP and a reset at any point |
| `rx_ring` | `BufferOwned`, `HwOnFilledDcb`, `DeliveryUndisturbed`, `ReceivedInOrder`, `RxRestarted`, `RxTaken` | ring of 3, shortages of memory and tokens, late DCB writes, resets between handlers |
| `irq_modes` | `MaskRestored`, `PacketsTaken`, `UserServed` | both modes of KNET, both kinds of CMIC, opening and quiet stopping of the base device |
| `netifs_filters` | `LookupSound`, `DeliveryAlive`, `FiltersInOrder` | three interfaces, two filters, one table that cannot be allocated |
| `api_rx` | `EventToOwner`, `ChainsKept`, `HwOnActiveChain`, `NoDcbLost`, `EventTaken`, `DcbReturned` | two devices in one process or in two that post events, or one API channel with two chains, a late write, a reset |
| `dma_pool` | `BlocksDisjoint`, `FindsGap`, `LargestFound`, `MemoryOwned`, `ImplementsPool` | every order in which the kernel can give six blocks, then all histories of allocations in the pool |
| `bde_instances` | `HandlerInstalled`, `RangesDisjoint`, `InstanceServed` | two switches, one plugged in later; the SDK and KNET connect and disconnect at will, with INTx, MSI and MSI-X and vectors refused, or two processes attach, end and come back; callers overlap in any way |
| `cdma` | `CdmaTxOnPending`, `CdmaRxOnFilled`, `CdmaRxRate`, `CdmaTxServed`, `CdmaRxServed` | a Tx channel with packets, two chains and an `hw_init`, or an Rx channel with a rate limit and shortages of memory, that runs on while the driver moves its halt address |

Three runs show where the code does not do what it says (`findings` in
PROJECT.json has the details):

| Run | Property | What TLC finds |
|---|---|---|
| `napi_stuck` | `PollModeHasPoll` | an interrupt while the base device is stopped leaves KNET in poll mode with no poll (4309) |
| `user_masked` | `UserServedAlways` | the primary handler of a CMIC writes back a mask it read before the SDK's thread changed it (`linux-user-bde.c` 257) |
| `early_open` | `BaseStartsDma` | an interface is registered before it has its id; opened in between it is taken for the base device (7307, 4730) |

Some properties carry a condition that names what the code does not do:

* `ApiChainServed` is claimed for a stack that pauses. Without the condition TLC
  finds it violated: `bkn_tx_chain_done` resumes the queues unconditionally
  (4300), so an API chain may wait for ever behind the kernel's packets.
* `UserServed` is claimed for CMICm and later, where the handler leaves the mask
  alone (see `user_masked`).
* `EventTaken` is claimed unless a count of `evt_wq_put` was lost. The handlers
  of two devices hold different locks; without the condition TLC finds two
  increments of a shared counter that leave it where it was read by the waiter.
* `DcbReturned` and `RxTaken` are claimed where DCB writes are not late: where
  they are, a done bit may be acknowledged before its DCB can be seen.
* `RxTaken` is claimed where the last call of `do_dma` is not that of `bkn_open`. It
  calls it once, with a budget that is shared out among the channels, and throws
  away that there is more (4739): TLC then finds packets that wait in the ring
  for the interrupt of a later one.
* `ChainsKept` has records that are lost: those of the chains passed for an
  invalid channel (6925). It says that there are no others.
* `BufferOwned` is claimed for resets between two runs of the handler. With
  `ResetRaces = TRUE` TLC finds that an `hw_init` which comes during a delivery
  refills the ring, and that the handler then clears the new buffer (3834).
* `CdmaTxOnPending` is claimed up to the first chain that ends with `tx.dirty`
  behind the channel (`txh.behind`), and anew after a reset. The hardware does not
  wait for the handler: between `bkn_do_tx` and the look at the chains it may
  take the reload DCB and all of a chain; the way back is set to `desc[dirty]`
  (4103), which still is that reload DCB, and the chain is sent again.
* `CdmaTxServed` is claimed while that does not happen, while no two chains wait
  for the ring to drain, where the halt address is set to the end of the first
  (4097) and nobody moves it on, and unless the handler ends at its limit: the
  interrupts of what it left are cleared already, and the extra poll of NAPI
  (4205) does not look at Tx without them.
* `CdmaRxRate` and `CdmaRxServed` are claimed for settings with a burst greater
  than the ring and ticks that add at least `MAX_RX_DCBS` tokens, as the default
  settings have (`DefaultRates` of `KnetCdmaProofs`). With lower rates `tokens--`
  (2202) wraps, and the rate is not limited any more (with `RX_BURST = 3` TLC finds
  it in a few steps); and a channel halted at the end of the ring stays there: 5549
  compares with `desc[dirty]`, which is 0 then.
* `CdmaRxOnFilled` and `CdmaRxRate` are claimed until an allocation or a mapping
  fails for the second time, `CdmaRxServed` while there is memory: 5549 does not
  look whether the DCBs were refilled.
* `SignalReturns`, which no run checks, states what the comment at 7989 says of
  `bkn_get_next_dma_event`. The code does not keep it: the round ends only at
  `last_dev_no`, which another process may have set to a device that this one
  skips, so the thread goes round and never looks at its signal.
* `HandlerInstalled` is claimed of devices at which no two calls have met
  (`raced`). Without that TLC finds a caller that sees the other's handler
  connected and returns (`linux-kernel-bde.c` 3513), although its interrupt is just
  being freed or was never granted.
* `RangesDisjoint` is claimed as long as no two processes have read the offset of
  the pool at once (`torn`), `InstanceServed` as long as no two have picked the same
  slot (`doubled`). Without that TLC finds two instances with the same part of
  the pool (`RangesApart`; `linux-user-bde.c` 1097), and two with the same slot.
* `OneHandler` of `Interrupts`, which no run checks, says that two calls of
  `do_dma` never work on the rings at once. With packets while the base device is
  stopped (`QuietStop = FALSE`) TLC finds it violated: `bkn_open` calls `do_dma`
  (4739) beside an interrupt handler that hands a packet over.
* `RangesDisjoint` and `InstanceServed` assume `DefaultNotAsked`: an instance
  that asks for exactly what slot 0 holds from `_init` on (the first devices, the
  whole pool) is given it without taking it from the pool.

## 5. Bounds, fairness, assumptions

**Bounds.** A ring of three or four DCBs wraps, is full, is empty and has
chains around its end; 64 adds no case that the code tells apart (proved for
Tx). Two interfaces are enough for queues stopped together and packets that
meet at the lock. One API chain at a time waits: a second only repeats it. Two
resets are a reset and the init that follows, or an init that hits another
(`tx_live` has one, at any point, between the halves of `do_dma` too;
`QueueRestarted` is claimed without resets, since after one nobody wakes a stopped
queue). One shortage of memory at any point exercises
each failure path; `rx_sync_retry = 1` has both outcomes of the wait for a late
write. In `Interrupts` three packets with a budget of two make a poll that
finishes and one that is asked again. `KnetIf` has a table of three entries, so
that it grows once and grows again after a failure; `MAX_FAILURES` stays below
the number of failures after which the code writes behind the table (see the
hazards).

In `KnetApi` two chains of two DCBs are one active and one that waits, each with
a DCB that is the last and one that is not; two records are one that the
driver has not freed, or that was lost, and one for the same chain passed again. Two devices are in
one process, or in two, or have no instances at all. `MAX_AHEAD = 1`: only
whether the two counters of a queue differ is ever looked at. The devices'
events and the API channel are not combined: either both devices post, or one
has a channel.

In `KnetCdmaTx` a ring of three has packets, a reload DCB and room behind it;
of two chains one is sent while the other is stitched to it or waits; an
`hw_init` comes at any point at which the lock is free. The limit of chains that are
drained at once is a constant of its own (`DRAIN_LIMIT`, 64 in the code), so that
two chains reach it. In `KnetCdmaRx` a rate of 30 and a burst of 5, with ten
ticks a second, give ticks of 3 tokens, as many as the ring of 3 has DCBs;
tokens are counted modulo 16, so a wrap is seen. Three allocations may fail in
`cdma`. The budget is below the ring (NAPI) or the whole ring.

The pools of `DmaPool` hold four to six cache lines, nodes for six blocks in two
buffers, so that memory or nodes run out first; sizes are below, at and above
the line. The kernel has a run of four blocks and one of two, so a segment of
three may come out of either order, and one of four needs exactly the longer
run. `Bde` has two switches, one there from the start. Each instance has one
process, and the SDK and KNET have one call about interrupts each under way:
two callers are enough to meet. There are two MSI-X vectors, and pools with room
for both instances or for one of them.

**Fairness.** Hardware that was started finishes (weak). An interrupt is a
level: while it is pending and enabled the handler will run (weak); and as the
handler without NAPI calls `do_dma` until it returns 0, so it does while a
channel has to be polled again. `KnetTx`, `KnetRx` and `KnetApi` take the interrupt
handler of the default mode (`use_napi` = 0), since NAPI does not guarantee this
(`napi_stuck`); `KnetCdma*` has both modes, and `Interrupts` is about them. What the
single call of `bkn_open` leaves is not polled again. Handlers,
the poll and the PTP work run to their end (weak). Timers and handlers spin for
`sinfo->lock`, which the kernel grants in turn, while its being free may be
intermittent: strong fairness for the Rx timers and for the interrupt and poll
steps of `Interrupts`. In `KnetApi` the late write of a DCB arrives, the process
comes back from the events it was given to ask for more, and its devices are
set up (weak). In `KnetCdma*` the channel that is short of its halt address
goes on, and handlers and the rate timer run (weak); packets to receive are not
assumed: `HwRx` has no fairness. Nothing is assumed of the network stack, of packets to arrive, or
of chains to be passed.

**Assumptions.** The models start after the first `hw_init` (`KnetTx`,
`KnetRx`) or stop the base device only after it (`Interrupts`): before it
`do_dma` divides by `rx_chans` = 0 (4352), a fault without a next state. In
`KnetRx` a base device that is opened finds no handler at work; that the
handlers exclude each other is `OneHandler` of `Interrupts`, which the code does
not keep (section 4). The other properties of `Interrupts` assume no traffic
while the base device is stopped (`QuietStop`). `hw_init` follows `hw_reset` before
a timer or a poll (`QuietReset`); without that the rate timer restarts a channel
of a device in reset. A late DCB write arrives within `rx_sync_retry` rounds, and done bits of
Tx are never late. The SDK's thread handles all that is pending when it is
woken. `unregister_netdev` waits for handlers that have begun. One pool exists
at a time, and no size is so large that rounding it up overflows an `int`.

`KnetCdmaTx`, `KnetCdmaRx`: traffic is not suspended (`basedev_suspend` = 0, the
default). The process passes a chain again when it has it back and the hardware
has left it. An Rx channel follows its reload DCB at once; if it were still to
do so when the rate timer runs, the halt address could be set back to the end of
the ring. The last packet of a chain asks for an interrupt.

`KnetApi`: resets come between two runs of the handler, as the SDK does them;
threads enter the event ioctl after their devices were set up (`SetUpFirst`;
earlier the code indexes `_bkn_evt[-1]`); while a device has an API channel its
events come from that channel. `DmaPool`: a system has kernel or user clients of
the BDE, so nothing is allocated when `lkbde_get_dma_info` makes the pool.
`Bde`: a process attaches devices that are present, nobody connects to an
unplugged one, and no two instances share a device (`DevicesApart`, for
`InstanceServed`). A device of which two calls have overlapped is not followed
beyond the end of these calls. Every device has an interrupt line (`iLine` is never
-1: no probe sets it so).

## 6. What is proved

`tlapm` checks these for every value of the constants that satisfies the
named assumptions.

| Module | Theorem | Property |
|---|---|---|
| `KnetTxProofs` | `TxTypeCorrect` | `TypeOK` |
| | `TxSkbOwnership` | `SkbOwnership` |
| | `TxHwOnLiveDcb` | `HwOnLiveDcb` |
| | `TxNoLostCompletion` | `NoLostCompletion` |
| | `TxNoLostWakeup` | `NoLostWakeup` |
| | `TxSentInOrder` | `SentInOrder` (every step is a step of `PacketQueue` or a stutter) |
| `DmaPoolProofs` | `MpoolTypeCorrect` | `TypeOK` |
| | `MpoolBlocksDisjoint` | `BlocksDisjoint` |
| | `MpoolFindsGap` | `FindsGap` |
| | `MpoolListSound` | `ListSound` |
| | `MpoolImplementsPool` | `ImplementsPool` (every step of the allocator is a step of `MemoryPool` or a stutter) |
| | `DmaTypeCorrect` | `TypeOK` and the types of `DmaPool` |
| | `DmaLargestFound` | `LargestFound` |
| | `DmaMemoryOwned` | `MemoryOwned` |
| | `DmaBlocksDisjoint` | `BlocksDisjoint` |
| | `DmaFindsGap` | `FindsGap` |
| | `DmaImplementsPool` | `ImplementsPool` (the same with a pool in an assembled segment or in high memory) |
| `KnetRxProofs` | `RxTypeCorrect` | `TypeOK` |
| | `RxBufferOwned` | `BufferOwned` |
| | `RxHwOnFilledDcb` | `HwOnFilledDcb` |
| | `RxDeliveryUndisturbed` | `DeliveryUndisturbed` |
| | `RxReceivedInOrder` | `ReceivedInOrder` (every step is a step of `PacketQueue` or a stutter) |
| `KnetIfProofs` | `IfTypeCorrect` | `TypeOK` |
| | `IfLookupSound` | `LookupSound` |
| | `IfDeliveryAlive` | `DeliveryAlive` |
| | `IfFiltersInOrder` | `FiltersInOrder` |
| `KnetApiProofs` | `ApiTypeCorrect` | `TypeOK` |
| | `ApiHwOnActiveChain` | `HwOnActiveChain` |
| | `ApiNoDcbLost` | `NoDcbLost` |
| | `ApiChainsKept` | `ChainsKept` |
| | `ApiEventToOwner` | `EventToOwner` |
| `BdeProofs` | `BdeRangesDisjoint` | `RangesDisjoint` |
| | `BdeHandlerInstalled` | `HandlerInstalled` |
| | `BdeInstanceServed` | `InstanceServed` |
| `KnetCdmaProofs` | `CdmaTxTypeCorrect` | `CdmaTxTypeOK` |
| | `CdmaTxHwOnPending` | `CdmaTxOnPending` |
| | `CdmaRxTypeCorrect` | `CdmaRxTypeOK` |
| | `CdmaRxHwOnFilled` | `CdmaRxOnFilled` |
| | `CdmaRxRateKept` | `CdmaRxRate` |
| `InterruptsProofs` | `IrqTypeCorrect` | `TypeOK` |
| | `IrqMaskRestored` | `MaskRestored` |
| | `IrqPollModeHasPoll` | `PollModeHasPoll` without traffic during a stop; with it `napi_stuck` shows it violated |

**Tx.** `RingIInv` strengthens `SkbOwnership` with the arithmetic of the ring
(`free` is at least 1, `cur` is as many places ahead of `dirty` as DCBs are in
use, the last DCB of the ring is never chained) and with the exact set of skbs
the driver owns: those in the DCBs in use, in the PTP queue, and with callers
that wait for the lock, each once. Lemmas state what each operator of the driver
does to a well-formed ring whose owned skbs are the ring's, the PTP queue's and
a given set; the actions then only say which set that is. The invariant does
not depend on the DMA channel, so it holds with resets at any point.

`DmaIInv` adds where the channel is. It is in one of four states: sending a
chain of skbs, sending a chain of the BCM API, done with either, or idle with
nothing pending; the chain bits stay inside the pending part of the ring, so the
channel never runs past the last pending DCB; a latched status
implies that the channel is done; and, before the first reset, a stopped queue
implies that packets or an API chain are pending, so that by the four states a
chain done is still to come. It needs what the code
needs: no base device suspension and no reset between the halves of `do_dma`
(`basedev_suspend = FALSE`, `ResetRaces = FALSE`), named as hypotheses of the
theorems. `NoLostWakeup` holds until the first reset; after a reset no code
path wakes a stopped queue.

`TxSentInOrder` adds that of the DCBs in use exactly the oldest ones are done, a
number of them that each of the four states names (`SentUpTo`); the unsent rest
of the ring is the queue of `PacketQueue`. Each action either leaves that rest
alone, though it may free DCBs already sent (`Silent`), or takes its first DCB (`Sent`,
the hardware), or puts one behind it (`Added`, `bkn_tx`), or empties the ring
(`Dropped`, a reset).

**Rx.** The invariant has three parts. Of the ring: `cur` is where the DCBs in
use end, a DCB in use has an skb of its own, and all are chained up to the last
DCB of the ring (`RingInv`). Of the DMA channel: `End` is how far the hardware
has come on the ring since the channel was started; exactly the DCBs from
`dirty` to there are done and not received, but for one whose write is late
(`HwInv`). Of the handler: in the window in which `do_skb_rx` hands a packet
over, the DCB it works on is the oldest one, and what may come in (the timers, a
suspension) leaves it alone; and once it counts its rounds at the end of a
chain, the rounds suffice for all that is left (`HandlerInv`). `ReceivedInOrder`
follows from the same invariant: what `PacketQueue` calls the queue is the
stretch from `dirty` to the last DCB that is done (`Upto`). The theorems assume
that no `hw_init` comes while the handler has given the lock up (`~ResetRaces`;
it refills the ring under the handler) and that neither a timer nor the poll
runs between `hw_reset` and `hw_init` (`QuietReset`); both are parameters of the
model, and the hazards they hide are listed.

**Interfaces and filters.** `LookupSound` is inductive with the order of the
list. That the table never has a stale entry needs a bound on ids (`Reach`): each
table that could not be allocated lets the ids run one further ahead of the
table, and the next chunk has to reach the id that needs it. So `IfTypeCorrect`,
`IfLookupSound` and `IfDeliveryAlive` assume `MAX_FAILURES + 1 < NDEVS_CHUNK`:
with more failures than a chunk has entries the code writes behind the table,
and the model stops being the code. `DeliveryAlive` follows from who waits: an
interface that a packet is handed over for is in the list, or is unlinked and
waited for (`Alive`). `IfFiltersInOrder` needs no assumption: an insertion before
the first filter of a higher priority keeps a sorted list sorted.

**API Rx.** `NoDcbLost` is not inductive in three ways. A chain may be dropped
only when all its DCBs were passed, so the invariant says where the hardware is
(`ActiveOK`: the DCBs from `cur` to it are filled, those behind it new, and an idle
channel has filled them all). The interrupt may be early, so "chain done" only
means that the hardware is at the end of the chain *or* its last write is
under way (`AtEnd`), and the handler that has waited for that write has one
round left to take it (`HandlerOK`). And a chain may be given to KNET again while
its old record is still active, so records that share a chain are told apart by
`Passed`. `ChainsKept` is `ListOK` and counting: the queue is a bijection onto
the records in use that are not active, and none of them was made for an
invalid channel. These theorems assume nothing.

**Events.** `EventToOwner` rests on what the queues are: used from the first on,
each by one instance, and all devices of an instance post to its queue
(`SlotsOK`, `QueuesOK`). `bkn_create_inst` always finds a queue since there are as
many as devices (pigeonhole). `LateOK` bounds how far the writes of two handlers
of one queue can be apart, which keeps the counters in their types. The
theorem assumes `SetUpFirst`: a device that has no instance yet is taken for
everybody's, and a thread that enters early may take its events.

**Mpool.** `BlocksDisjoint` is not inductive: an insertion is right only if
there is no other block between a node and its successor. The invariant says
that pairwise, for each node and its next: every other node lies before the one
or behind the other (`ListSound`). So no induction along the list is needed.
`FirstFit` then gives a gap in which the new block overlaps nothing.
`MpoolFindsGap` is the converse: given a place that no block touches, the node
that ends last before the place is followed by a gap around it. That node exists
since the numbers are well-founded, again without an induction along the list.

**DMA pools.** `DmaIInv` has three parts. Where memory is (`MemoryInv`): each
block is in exactly one of `pages`, `reserved` and the blocks of the assembly;
segments are apart and are what is reserved; a pool lies in a segment. That part
needs to know that the blocks kept are a whole run, that is, `LargestFound`.
`LargestFound` in turn is true only when the search has ended, so the second part
says what the tags mean while it goes on (`Finding`, `Growing`): the blocks with
tag 3 are exactly the current run [b, e); a block that is done (tag 1 or 2) has no
neighbour that is not (`DoneApart`), and no run longer than the largest begins
with one (`DoneShort`). When the passes end, no block next to the current run is
untagged (`NoneAdjacent`, which fails if the loop stops after one pass), and none
is done, by `DoneApart`: so the run is maximal and its blocks are done as well
(`RunMaximal`). The proof uses no order among the blocks; the arithmetic is that
of multiples of the block size (`BlockApart`: two of them are a block apart). The
third part is the invariant of Mpool: `PoolSteps` says that each step of the DMA
memory is a step of Mpool or leaves the pool alone, and `CreateInv` that a pool
created in a segment stays within it whatever its alignment. All that is assumed
is that blocks are multiples of their size (`BlockAssumption`) and that a pool
has two cache lines (`DmaSizeAssumption`; `dmasize` is in megabytes). TLC checked
`DmaIInv` on the run `dma_pool` before it was proved.

**Bde.** `RangesDisjoint` speaks of what processes have mapped, long after it was
handed out. The invariant follows what an instance claims (`Claims`): the part it
has mapped, the parts of its slots, and the part it has taken and is about to put
into one. The pool is handed out from its start to its end, so all claims lie
below the offset (`ClaimsBelow`) and those of two instances are apart
(`ClaimsApart`); who is about to move the offset is alone and has room
(`OneTakes`, `TakingFits`). All this holds until the offset is torn, which is just
when a second process reads what the first is about to move. Slot 0, which stands
for the whole pool, is the exception: it is the only one until an instance
overwrites it (`OnlyDefault`), and nobody asks for it (`DefaultNotAsked`, a constant
since the size of the pool never changes: `Settled`). None of the three theorems
has a hypothesis: callers and processes overlap as they like.

`BdeHandlerInstalled` needs to know what a call has seen. A device that no call
is about is clean: its main handler is on all its lines or on none, as it has
handlers or not. A call reads `active` from a clean device, and until
it has written its own handler the device stays clean; after that, the lines are
still as `active` says, and the last step brings them in line with the handlers
(`CallSound`). `DevInv` says so of every device that has not raced; a device of
which two calls overlap has.

`BdeInstanceServed` says that slots and devices point to each other: the devices
of the instance of a filled slot are known to the user BDE, name that slot, and
have that instance in the kernel BDE (`SlotsServed`); a device that has an owner
has it in a slot (`OwnerHasSlot`). A reprobe changes only devices nobody has seen,
so it never resets the slot of one that is served. A process that attaches has
no slot yet (`AttachingNew`) and finds one: each filled slot has a device that
is not its own, so they are fewer than the devices (pigeonhole). Who is about to
fill the slot it has picked is alone, and the slot is still free (`OneFills`,
`PickedFree`), until a slot is doubled.

**Interrupts.** `MaskRestored` is inductive once it is extended to the moment
before the handler starts its work, and whatever the poll does (`MaskRight`):
whoever changes `irq_mask` or the poll mode writes the register in the same
step, except the handler, which writes it before it ends. `PollModeHasPoll` follows
from who may call `do_dma` at all (`Apart`): the handler only without NAPI and the
poll only with it (`NapiOrNot`); traffic is suspended while the base device is
down (`Suspended`), and then there is nothing pending, no poll mode and no handler
at work (`Quiet`); the poll mode is set exactly while a poll is to come or under
way (`PollMode`). `Quiet` needs the assumption `QuietStop`, the hypothesis of
`IrqPollModeHasPoll`; the other two theorems need none. In the model the stuck
device of `napi_stuck` thus comes from packet DMA during the stop alone.

**Continuous DMA, Rx.** The invariant counts DCBs from `dirty` on (`Ahead`):
first those with a packet, then those with a buffer up to `cur`, then those that
could not be refilled (`RingOK`). The channel is just behind the packets, and its
halt address on one of the DCBs with a buffer or at the end of the ring, which
is then no further ahead than the buffers reach (`HwOK`). For the rate there is a
token for every DCB that still has to be refilled before the channel stops: those
without a buffer, those with a packet, and those up to the halt address
(`TokensOK`). A refill that moves the halt address by k DCBs saw more tokens than
k and a ring; one that does not move it takes as many tokens as it fills DCBs;
and a tick, the only step that lets the channel go further without looking at the
tokens, adds a ring of them. That last point is why `CdmaRxRateKept` has the
hypothesis `Limits`: `TOKENS_PER_TICK >= MAX_RX_DCBS` and `BURST > MAX_RX_DCBS`. The
code does not check its module parameters for that; its default settings satisfy
it at every clock rate that Linux offers (`DefaultRates`).

The invariant holds until an allocation fails for the second time. After that a
tick whose refill fails may let the channel run over DCBs without a buffer, since
`bkn_rx_add_tokens` compares the halt address with `desc[dirty]` only. So
`CdmaRxOnFilled` and `CdmaRxRate` are properties of what comes before;
`CdmaRxTypeCorrect` holds for any number of failures, and needs the place the
channel writes to (`stray`) as a case of its own. It and `CdmaRxHwOnFilled` assume
nothing.

**Continuous DMA, Tx.** `CdmaTxOnPending` is far from inductive: it says where
the channel is only while it may go on, and nothing of the chains behind. The
invariant `CdmaTxIInv` takes the DCBs in use from `dirty` on, the first d of
them done (`TxRingOK`), and the chains KNET has, the one being sent included, as
one queue without repetitions, each linked to the next, the last one known as
`api_dcb_chain_end` (`QueueOK`). The rest depends on who is sent:

* `RingMode`: packets. The halt address is that of `cur`, the channel comes next
  to the DCB d places from `dirty`, and no chain in the queue has a done bit.
* `ChainMode`: chains. The halt address is the last DCB of some chain of the
  queue (not always the last one: that is why `CdmaTxServed` needs its
  condition). Either the channel still comes to the ring DCB that leads to the
  first chain (`ToChain`), or it is in a chain up to that one, all before it sent
  and all behind it untouched (`InChain`).

A channel that comes to a DCB of the ring is at it, at the reload DCB before it,
or still at the reload DCB of a chain that was given back and leads there
(`ComesTo`); the process may not pass that chain again before the channel has
left it. The history `behind` enters with d: when `bkn_tx_cdma_chain_done` finds
the last chain done and the ring DCB that led to it done as well, though
`bkn_do_tx` has not seen that, `tx.dirty` is behind the channel, and the way back
that is set from it leads to what was sent. As long as that has not happened
`desc[dirty]` is the next DCB to be sent. The code does nothing against it, so
`CdmaTxHwOnPending` is a theorem of the specification as it is, about the states
up to there and from the next reset on. `CdmaTxTypeCorrect` has no such
condition: its invariant (`SaneInv`) only adds that there is a first chain while
chains are sent.

These two theorems assume, besides the ranges of the constants
(`CdmaTxAssumption`), that a chain is told apart from the values "free" and
"skb" of a DCB, the ring and no chain (`ChainNamesAssumption`).

Only model-checked is liveness: it and ENABLED are beyond the prover. These are
`RingDrains`, `QueueRestarted` and `ApiChainServed` (`tx_live`), `RxRestarted` and
`RxTaken` (`rx_ring`), `PacketsTaken` and `UserServed` (`irq_modes`),
`DcbReturned` and `EventTaken` (`api_rx`), `CdmaTxServed` and `CdmaRxServed`
(`cdma`).

## 7. What is not modelled

* Continuous DMA with buffers of the SDK, with base device suspension, and resets
  of an Rx channel in this mode.
* Rate configuration (`bkn_rx_rate_config`) for channels with different rates;
  `KnetCdmaRx` computes it for one rate, `KnetRx` only has the tick.
* Removal of the KNET module (`_cleanup`), `bkn_knet_detach`'s waiting included.
* Packet and header formats, VLAN tags, RCPU encapsulation, statistics and
  `/proc` output: data without state. Filters keep only which packets match. A
  filter that is freed while a delivery reads it is a hazard without a next state.
* In `linux_dma.c`: parsing of parameters, address translation, cache
  maintenance, and mapping of the pool for a second device.
* In the kernel and user BDE: register access, bus windows, SPI, iProc, CPU and
  Ethernet devices of old boards.
* `shbde`: sequences of register accesses of a protocol that the repository does
  not describe. `gmodule`, `ksal`, `knet-cb` and the diag demo: glue and examples.
* Kernel faults (NULL pointers, division by zero): they have no next
  state; they are listed as hazards.

Most lines of the repository (about 120,000) are headers of the binary library:
declarations without behaviour. Of the 18,700 lines of C that have any, the
models stand for about a quarter; the rest is what this section lists.
