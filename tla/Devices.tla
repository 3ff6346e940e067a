-------------------------------- MODULE Devices --------------------------------
(***************************************************************************)
(* Devices from boot on: main attaches them (uart.c, virtio.c, vioblk.c),   *)
(* registers their handlers (intr.c) and opens them (device.c); interrupts  *)
(* go through the controller (plic.c) to the handlers.                     *)
(*                                                                         *)
(* A serial device just interrupts: what it sends is in Uart.  Of a block   *)
(* device there is the one request a caller makes at a time: what it reads  *)
(* is in Kfs.  A device is known by its interrupt number.                  *)
(***************************************************************************)
EXTENDS Heap, Plic, Sequences, FiniteSets

CONSTANTS
    Buses,          \* what main may find: sequences of [irq, kind, offers]
    NDEV,
    UART_IRQ_PRIO, VIOBLK_IRQ_PRIO,
    HeapSizes,      \* where the kernel image may end, before a page (of one page)
    UartSize, BlkSize, blksz,           \* the bytes of the structures, and of a block
    Sizes,          \* what the kernel allocates later
    Instances,      \* the instance numbers that are opened
    IDXMOD,         \* what the index of the avail ring wraps at: 2^16
    MaxOpens, MaxEvents, MaxAllocs      \* bounds of the model: opens of each device,
                                        \* serial interrupts, and later allocations

Irqs == UNION {{bus[k].irq : k \in DOMAIN bus} : bus \in Buses}
None == 0

ASSUME DevicesAssumption ==
    /\ Irqs \subseteq Sources
    /\ \A bus \in Buses :
          /\ bus \in Seq([irq : Nat, kind : {"ser", "blk", "other"}, offers : SUBSET STRING])
          /\ Len(bus) <= NDEV
          /\ \A k, m \in DOMAIN bus : bus[k].irq = bus[m].irq => k = m
    /\ {UART_IRQ_PRIO, VIOBLK_IRQ_PRIO, NDEV, IDXMOD} \subseteq Nat \ {0}
    /\ HeapSizes \subseteq 1 .. PAGE_SIZE
    /\ {BlkSize, blksz, UartSize} \subseteq Nat
    /\ \A s \in Sizes \cup {UartSize, BlkSize + blksz, blksz} : s \in 1 .. PAGE_SIZE

VARIABLES
    bus, n,             \* what there is, and what main has come to
    status,             \* "boot", "up" (interrupts are enabled) or "panic"
    heap, blocks,       \* the heap; history: the kernel image and the blocks the
                        \* heap has given in turn, [at, size]
    devtab,
    isrtab,
    plic,               \* the registers of the controller
    pending, claimed,   \* of the controller
    handled,            \* the handler of claimed has run
    opened, avail,      \* of vioblk_device and uart_device
    request,            \* "none", "sleeping" or "woken", of the caller of a device
    last, line, broken, \* of the device: how far it came in the ring, interrupt_status
    opens, events,
    opening             \* history: what was opened, and what device that was

bootVars == <<bus, n, devtab, isrtab>>
heapVars == <<heap, blocks>>
plicVars == <<plic, pending, claimed, handled>>
driverVars == <<opened, avail, request>>
cardVars == <<last, line, broken, events>>
vars == <<bootVars, status, heapVars, plicVars, driverVars, cardVars, opens, opening>>

Init ==
    /\ bus \in Buses /\ n = 1 /\ status = "boot"
    /\ \E left \in HeapSizes :
          /\ heap = heap_init(PAGE_SIZE - left, PAGE_SIZE)
          /\ blocks = <<[at |-> 0, size |-> PAGE_SIZE - left]>>
    /\ devtab = <<>>
    /\ isrtab = [irq \in Irqs |-> "none"]
    /\ plic = plic_init
    /\ pending = {} /\ claimed = None /\ handled = FALSE
    /\ opened = [irq \in Irqs |-> FALSE]
    /\ avail = [irq \in Irqs |-> 0]
    /\ request = [irq \in Irqs |-> "none"]
    /\ last = [irq \in Irqs |-> 0]
    /\ line = [irq \in Irqs |-> FALSE]
    /\ broken = [irq \in Irqs |-> FALSE]
    /\ opens = [irq \in Irqs |-> 0] /\ events = 0
    /\ opening = [name |-> "none", instno |-> 0, irq |-> None]

------------------------------------------------------------------------------
(* Attaching *)

\* A block r that kmalloc gave for size bytes.
Block(r, size) == [at |-> r.at, size |-> Rounded(size)]

Attached == /\ n' = n + 1
            /\ UNCHANGED <<bus, status, plicVars, driverVars, cardVars, opens, opening>>

Entry(name, irq) == [name |-> name, irq |-> irq]
device_register(name, irq) == devtab' = Append(devtab, Entry(name, irq))
intr_register_isr(irq, isr) == isrtab' = [isrtab EXCEPT ![irq] = isr]

\* The first serial device is the console's, and can not be opened.
uart_attach ==
    /\ status = "boot" /\ n <= Len(bus) /\ bus[n].kind = "ser"
    /\ IF n = 1
       THEN device_register("ser", None) /\ UNCHANGED <<heapVars, isrtab>>
       ELSE LET r == kmalloc(heap, UartSize)
            IN /\ heap' = r.h /\ blocks' = Append(blocks, Block(r, UartSize))
               /\ intr_register_isr(bus[n].irq, "uart_isr")
               /\ device_register("ser", bus[n].irq)
    /\ Attached

\* virtio_negotiate_features fails if one of these is not offered.
needed_features == {"RING_RESET", "INDIRECT_DESC"}

\* virtio_attach, of a block device or of none that there is a driver for.
virtio_attach ==
    /\ status = "boot" /\ n <= Len(bus) /\ bus[n].kind \in {"blk", "other"}
    /\ IF bus[n].kind = "other" \/ ~(needed_features \subseteq bus[n].offers)
       THEN UNCHANGED <<heapVars, isrtab, devtab>>
       ELSE LET dev == kmalloc(heap, BlkSize + blksz)
                blkbuf == kmalloc(dev.h, blksz)
            IN /\ heap' = blkbuf.h
               /\ blocks' = blocks \o <<Block(dev, BlkSize + blksz), Block(blkbuf, blksz)>>
               /\ intr_register_isr(bus[n].irq, "vioblk_isr")
               /\ device_register("blk", bus[n].irq)
    /\ Attached

\* main: intr_enable, when all devices are attached.
intr_enable ==
    /\ status = "boot" /\ n > Len(bus)
    /\ status' = "up"
    /\ UNCHANGED <<bootVars, heapVars, plicVars, driverVars, cardVars, opens, opening>>

------------------------------------------------------------------------------
(* Threads.  While a handler is under way, none runs. *)

Threads == status = "up" /\ claimed = None

kmalloc_later(size) ==
    /\ Threads /\ Len(blocks) < MaxAllocs
    /\ LET r == kmalloc(heap, size)
       IN heap' = r.h /\ blocks' = Append(blocks, Block(r, size))
    /\ UNCHANGED <<bootVars, status, plicVars, driverVars, cardVars, opens, opening>>

\* The instances of a name in devtab; and a count that takes all devices for it.
Counted(name, d) == Cardinality({e \in 1 .. d - 1 : devtab[e].irq # None})
Instance(name, d) == Cardinality({e \in 1 .. d - 1 : devtab[e].name = name})

\* intr_enable_irq and intr_disable_irq; and calls of them that are missing.
LeavesOff(irq) == UNCHANGED <<status, plic>>
intr_enable_irq(irq) ==
    IF isrtab[irq] = "none" THEN status' = "panic" /\ UNCHANGED plic
    ELSE /\ plic' = plic_enable_irq(plic, irq,
                        IF isrtab[irq] = "uart_isr" THEN UART_IRQ_PRIO ELSE VIOBLK_IRQ_PRIO)
         /\ UNCHANGED status
LeavesOn(irq) == plic' = plic
intr_disable_irq(irq) == plic' = plic_disable_irq(plic, irq)

\* uart_open and vioblk_open; a device that is open, or is the console, is busy.
device_open(name, instno) ==
    /\ Threads
    /\ \E d \in DOMAIN devtab :
          LET irq == devtab[d].irq
          IN /\ devtab[d].name = name /\ Instance(name, d) = instno
             /\ irq # None /\ ~opened[irq] /\ opens[irq] < MaxOpens
             /\ opened' = [opened EXCEPT ![irq] = TRUE]
             /\ avail' = [avail EXCEPT ![irq] = 0]
             /\ opens' = [opens EXCEPT ![irq] = @ + 1]
             /\ intr_enable_irq(irq)
             /\ opening' = [name |-> name, instno |-> instno, irq |-> irq]
    /\ UNCHANGED <<bootVars, heapVars, pending, claimed, handled, request, cardVars>>

\* uart_close and vioblk_close.  Of a serial device the line falls with ier.
Close(irq) ==
    /\ Threads /\ opened[irq] /\ request[irq] = "none"
    /\ opened' = [opened EXCEPT ![irq] = FALSE]
    /\ avail' = [avail EXCEPT ![irq] = 0]
    /\ line' = [line EXCEPT ![irq] = @ /\ isrtab[irq] # "uart_isr"]
    /\ intr_disable_irq(irq)
    /\ UNCHANGED <<bootVars, status, heapVars, pending, claimed, handled, request,
                   last, broken, events, opens, opening>>

\* The index of the ring, in 16 bits.
NextIdx(idx) == (idx + 1) % IDXMOD

\* vioblk_read or vioblk_write puts a request into the ring, notifies the device and
\* waits, with interrupts disabled.
Request(irq) ==
    /\ Threads /\ opened[irq] /\ isrtab[irq] = "vioblk_isr" /\ request[irq] = "none"
    /\ avail' = [avail EXCEPT ![irq] = NextIdx(@)]
    /\ request' = [request EXCEPT ![irq] = "sleeping"]
    /\ UNCHANGED <<bootVars, status, heapVars, plicVars, opened, cardVars, opens, opening>>

\* It goes on when it is woken.
Return(irq) ==
    /\ Threads /\ request[irq] = "woken"
    /\ request' = [request EXCEPT ![irq] = "none"]
    /\ UNCHANGED <<bootVars, status, heapVars, plicVars, opened, avail, cardVars, opens, opening>>

------------------------------------------------------------------------------
(* The devices and the controller *)

\* The device takes the request from the ring, unless the ring holds more requests
\* than it has room for.
Complete(irq) ==
    /\ request[irq] = "sleeping" /\ last[irq] # avail[irq] /\ ~broken[irq]
    /\ IF (avail[irq] - last[irq]) % IDXMOD = 1
       THEN /\ last' = [last EXCEPT ![irq] = avail[irq]]
            /\ line' = [line EXCEPT ![irq] = TRUE]
            /\ UNCHANGED broken
       ELSE broken' = [broken EXCEPT ![irq] = TRUE] /\ UNCHANGED <<last, line>>
    /\ UNCHANGED <<bootVars, status, heapVars, plicVars, driverVars, events, opens, opening>>

\* A character comes, or one has gone.
SerialEvent(irq) ==
    /\ opened[irq] /\ isrtab[irq] = "uart_isr" /\ ~line[irq] /\ events < MaxEvents
    /\ line' = [line EXCEPT ![irq] = TRUE]
    /\ events' = events + 1
    /\ UNCHANGED <<bootVars, status, heapVars, plicVars, driverVars, last, broken, opens, opening>>

\* The controller notes an interrupt once, until its handler has completed.
Note(irq) ==
    /\ line[irq] /\ irq \notin pending /\ claimed # irq
    /\ pending' = pending \cup {irq}
    /\ UNCHANGED <<bootVars, status, heapVars, plic, claimed, handled, driverVars, cardVars,
                   opens, opening>>

\* extern_intr_handler claims the interrupt.
Claim(irq) ==
    /\ Threads /\ Claims(plic, pending, irq)
    /\ claimed' = irq /\ pending' = pending \ {irq}
    /\ handled' = FALSE
    /\ UNCHANGED <<bootVars, status, heapVars, plic, driverVars, cardVars, opens, opening>>

\* The handler takes the cause of the interrupt away; and wakes without doing so.
WakeOnly(irq) == line' = line
Acknowledge(irq) == line' = [line EXCEPT ![irq] = FALSE]

\* extern_intr_handler calls the handler.  vioblk_isr broadcasts if the device says
\* that it has used a buffer.
Handle ==
    /\ claimed # None /\ ~handled
    /\ handled' = TRUE
    /\ IF isrtab[claimed] = "none"
       THEN status' = "panic" /\ UNCHANGED <<line, request>>
       ELSE /\ Acknowledge(claimed)
            /\ request' = [request EXCEPT ![claimed] =
                  IF line[claimed] /\ @ = "sleeping" THEN "woken" ELSE @]
            /\ UNCHANGED status
    /\ UNCHANGED <<bootVars, heapVars, plic, pending, claimed, opened, avail,
                   last, broken, events, opens, opening>>

\* plic_close_irq.
CloseIrq ==
    /\ status = "up" /\ handled /\ claimed # None
    /\ claimed' = None
    /\ UNCHANGED <<bootVars, status, heapVars, plic, pending, handled, driverVars, cardVars,
                   opens, opening>>

Next ==
    \/ uart_attach \/ virtio_attach \/ intr_enable
    \/ \E size \in Sizes : kmalloc_later(size)
    \/ \E name \in {"ser", "blk"}, instno \in Instances : device_open(name, instno)
    \/ \E irq \in Irqs : Close(irq) \/ Request(irq) \/ Return(irq)
    \/ \E irq \in Irqs : Complete(irq) \/ SerialEvent(irq) \/ Note(irq) \/ Claim(irq)
    \/ Handle \/ CloseIrq

Spec == Init /\ [][Next]_vars

\* A device answers, and a handler ends.  An interrupt that is pending is taken as
\* soon as no handler is under way, before a thread runs that would have another
\* device interrupt again: none is passed over for ever.
Fairness ==
    /\ \A irq \in Irqs : /\ WF_vars(Complete(irq)) /\ WF_vars(Note(irq))
                          /\ SF_vars(Claim(irq))
    /\ WF_vars(Handle) /\ WF_vars(CloseIrq)
FairSpec == Spec /\ Fairness

------------------------------------------------------------------------------
(* Properties *)

\* The variables keep their types: the tables of intr.c, device.c and plic.c.
TypeOK ==
    /\ status \in {"boot", "up", "panic"}
    /\ n \in 1 .. Len(bus) + 1
    /\ Len(devtab) <= NDEV
    /\ isrtab \in [Irqs -> {"none", "uart_isr", "vioblk_isr"}]
    /\ \A irq \in Irqs : Priority(plic, irq) \in {0, UART_IRQ_PRIO, VIOBLK_IRQ_PRIO}
    /\ pending \subseteq Irqs /\ claimed \in Irqs \cup {None}
    /\ opened \in [Irqs -> BOOLEAN]
    /\ avail \in [Irqs -> 0 .. IDXMOD - 1] /\ last \in [Irqs -> 0 .. IDXMOD - 1]
    /\ request \in [Irqs -> {"none", "sleeping", "woken"}]

\* The kernel image, the blocks kmalloc has given and what the heap has left have no
\* byte in common.
Bytes(b) == b.at .. b.at + b.size - 1
BlocksApart ==
    /\ \A i, j \in DOMAIN blocks : i # j => Bytes(blocks[i]) \cap Bytes(blocks[j]) = {}
    /\ \A i \in DOMAIN blocks : Bytes(blocks[i]) \cap (heap.start .. heap.end - 1) = {}

\* No interrupt comes that has no handler, and none is enabled without one: the
\* panics of intr_enable_irq and extern_intr_handler.
NoPanic == status # "panic"

\* The handler of a device does not run when the device is closed, whatever was
\* pending then: vioblk_close and uart_close.
ClosedQuiet == claimed # None => opened[claimed]

\* An interrupt that is served has the handler of a device that is open.
HandlersReady == TypeOK /\ NoPanic /\ ClosedQuiet

\* A caller is woken only when the device is done with its request: vioblk_read
\* does not look at the ring again.
WokenDone == \A irq \in Irqs : request[irq] = "woken" => last[irq] = avail[irq]

\* The k-th instance of a name is the k-th device of the kind that main found and
\* could attach: device_register and device_open.
Attachable(k, name) ==
    bus[k].kind = name /\ (name = "blk" => needed_features \subseteq bus[k].offers)
Before(k, name) == Cardinality({m \in 1 .. k - 1 : Attachable(m, name)})
OpensInstance ==
    opening.irq # None => \E k \in DOMAIN bus :
        /\ Attachable(k, opening.name) /\ bus[k].irq = opening.irq
        /\ Before(k, opening.name) = opening.instno

\* A caller that waits for the device is woken, whatever else interrupts.
RequestServed == \A irq \in Irqs : (request[irq] = "sleeping") ~> (request[irq] = "woken")

==============================================================================
