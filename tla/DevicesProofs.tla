----------------------------- MODULE DevicesProofs -----------------------------
(***************************************************************************)
(* Theorems about the interrupt controller's registers and about Devices,   *)
(* for every bus, every number of sources and every bound.                  *)
(***************************************************************************)
EXTENDS Devices, FiniteSetTheorems, TLAPS

------------------------------------------------------------------------------
(* The registers of the controller *)

\* A number is known by its quotient and its remainder, and quotients are in order.
LEMMA DivMod ==
    ASSUME NEW a \in Int, NEW c \in Int, NEW b \in Int, b > 0
    PROVE  /\ a \div b \in Int
           /\ 0 <= a => 0 <= a \div b
           /\ a <= c => a \div b <= c \div b
           /\ a \div b = c \div b /\ a % b = c % b => a = c
<1>1. a \div b \in Int /\ (0 <= a => 0 <= a \div b)
  BY SMT
<1>2. a <= c => a \div b <= c \div b
  BY SMT
<1>3. a \div b = c \div b /\ a % b = c % b => a = c
  BY SMT
<1> QED BY <1>1, <1>2, <1>3

\* A product grows with its factors.
LEMMA NextMultiple ==
    ASSUME NEW a \in Nat, NEW c \in Nat, NEW b \in Nat, a < c
    PROVE  a * b + b <= c * b
<1>1. PICK k \in Nat : c = a + 1 + k
  <2>1. c - a - 1 \in Nat /\ c = a + 1 + (c - a - 1)
    BY SMT
  <2> QED BY <2>1
<1>2. c * b = a * b + b + k * b
  BY <1>1, SMT
<1>3. a * b \in Nat /\ k * b \in Nat
  BY SMT
<1> QED BY <1>2, <1>3, SMT

\* The words of enable bits are apart: one source of one context is one bit of one word.
LEMMA EnableBitsApart ==
    ASSUME NEW c \in Contexts, NEW d \in Contexts, NEW s \in Sources, NEW t \in Sources,
           EnableAt(c, s) = EnableAt(d, t), EnableBit(s) = EnableBit(t)
    PROVE  c = d /\ s = t
<1> DEFINE S == s \div WordBits
           T == t \div WordBits
           L == (PLIC_SRCCNT - 1) \div WordBits
<1>1. /\ {PLIC_SRCCNT, PLIC_CTXCNT, WordBits, PLIC_ENCTX, BLCK_SIZE} \subseteq Nat \ {0}
      /\ L * 4 + 4 <= BLCK_SIZE
      /\ s \in 1 .. PLIC_SRCCNT - 1 /\ t \in 1 .. PLIC_SRCCNT - 1
      /\ c \in Nat /\ d \in Nat
  BY PlicAssumption DEF Sources, Contexts
<1>2. S \in Nat /\ T \in Nat /\ L \in Nat /\ S <= L /\ T <= L
  <2>1. /\ WordBits \in Int /\ WordBits > 0
        /\ s \in Int /\ t \in Int /\ PLIC_SRCCNT - 1 \in Int
        /\ 0 <= s /\ s <= PLIC_SRCCNT - 1 /\ 0 <= t /\ t <= PLIC_SRCCNT - 1
    BY <1>1, SMT
  <2>2. S \in Int /\ 0 <= S /\ S <= L
    BY <2>1, DivMod
  <2>3. T \in Int /\ 0 <= T /\ T <= L
    BY <2>1, DivMod
  <2>4. L \in Int
    BY <2>1, DivMod
  <2> QED BY <2>2, <2>3, <2>4, SMT
<1> DEFINE x == c * BLCK_SIZE
           y == d * BLCK_SIZE
<1>3. x \in Nat /\ y \in Nat /\ x + S * 4 = y + T * 4
  BY SMTT(30), <1>1, <1>2 DEF EnableAt
<1>4. c = d
  <2>1. CASE c < d
    <3>1. x + BLCK_SIZE <= y
      BY <1>1, <2>1, NextMultiple
    <3> HIDE DEF x, y, S, T, L
    <3> QED BY <1>1, <1>2, <1>3, <3>1, SMT
  <2>2. CASE d < c
    <3>1. y + BLCK_SIZE <= x
      BY <1>1, <2>2, NextMultiple
    <3> HIDE DEF x, y, S, T, L
    <3> QED BY <1>1, <1>2, <1>3, <3>1, SMT
  <2>3. c \in Nat /\ d \in Nat
    BY <1>1
  <2>4. c < d \/ d < c \/ c = d
    BY <2>3, SMT
  <2> QED BY <2>1, <2>2, <2>4
<1>5. S = T
  BY <1>2, <1>3, <1>4, SMT
<1>6. s % WordBits = t % WordBits
  BY DEF EnableBit
<1>7. WordBits \in Int /\ WordBits > 0 /\ s \in Int /\ t \in Int
  BY <1>1, SMT
<1>8. s = t
  BY <1>5, <1>6, <1>7, DivMod
<1> QED BY <1>4, <1>8

\* The words of priorities are apart from those of enable bits.
LEMMA PrioritiesApart ==
    ASSUME NEW c \in Contexts, NEW s \in Sources, NEW t \in Sources
    PROVE  PriorityAt(t) # EnableAt(c, s)
<1>1. /\ {PLIC_SRCCNT, PLIC_ENCTX, BLCK_SIZE, WordBits} \subseteq Nat \ {0}
      /\ PLIC_SRCCNT * 4 <= PLIC_ENCTX
      /\ s \in 1 .. PLIC_SRCCNT - 1 /\ t \in 1 .. PLIC_SRCCNT - 1 /\ c \in Nat
  BY PlicAssumption DEF Sources, Contexts
<1> DEFINE x == c * BLCK_SIZE
           S == s \div WordBits
<1>2. x \in Nat /\ S \in Nat
  BY <1>1, SMT
<1>3. t * 4 < PLIC_ENCTX + x + S * 4
  BY <1>1, <1>2, SMT
<1> QED BY <1>1, <1>2, <1>3, SMT DEF PriorityAt, EnableAt

\* Where the registers of a source are.
LEMMA RegisterOffsets ==
    ASSUME NEW s \in Sources
    PROVE  /\ PriorityAt(s) \in PriorityOffsets
           /\ \A c \in Contexts : EnableAt(c, s) \in EnableOffsets
           /\ \A t \in Sources : PriorityAt(s) = PriorityAt(t) => s = t
<1>1. s \in 0 .. PLIC_SRCCNT - 1
  BY PlicAssumption, SMT DEF Sources
<1>2. \A t \in Sources : s * 4 = t * 4 => s = t
  BY PlicAssumption, SMT DEF Sources
<1> QED BY <1>1, <1>2 DEF PriorityOffsets, EnableOffsets, PriorityAt

\* plic_enable_source_for_context enables one source for one context: no other
\* source or context, and no priority, is changed by the bit it sets in a word that
\* WordBits sources share.
THEOREM EnablesOneSource ==
    ASSUME NEW r, r = [a \in Offsets |-> r[a]],
           NEW c \in Contexts, NEW s \in Sources, NEW d \in Contexts, NEW t \in Sources
    PROVE  LET q == plic_enable_source_for_context(r, c, s)
           IN /\ EnabledFor(q, d, t) <=> EnabledFor(r, d, t) \/ (c = d /\ s = t)
              /\ Priority(q, t) = Priority(r, t)
<1> DEFINE q == [r EXCEPT ![EnableAt(c, s)] = @ \cup {EnableBit(s)}]
<1>1. plic_enable_source_for_context(r, c, s) = q
  BY DEF plic_enable_source_for_context
<1>2. EnableAt(c, s) \in Offsets /\ EnableAt(d, t) \in Offsets /\ PriorityAt(t) \in Offsets
  BY RegisterOffsets DEF Offsets
<1>3. Priority(q, t) = Priority(r, t)
  BY <1>2, PrioritiesApart DEF Priority
<1>4. CASE EnableAt(c, s) = EnableAt(d, t)
  <2>1. q[EnableAt(d, t)] = r[EnableAt(d, t)] \cup {EnableBit(s)}
    BY <1>2, <1>4
  <2>2. EnableBit(t) = EnableBit(s) <=> c = d /\ s = t
    BY <1>4, EnableBitsApart
  <2> QED BY <1>1, <1>3, <2>1, <2>2 DEF EnabledFor
<1>5. CASE EnableAt(c, s) # EnableAt(d, t)
  <2>1. q[EnableAt(d, t)] = r[EnableAt(d, t)]
    BY <1>2, <1>5
  <2> QED BY <1>1, <1>3, <1>5, <2>1 DEF EnabledFor
<1> QED BY <1>4, <1>5

\* Setting the priority of a source leaves that of the others.
LEMMA SetsOnePriority ==
    ASSUME NEW r, r = [a \in Offsets |-> r[a]], NEW s \in Sources, NEW level
    PROVE  LET q == plic_set_source_priority(r, s, level)
           IN /\ q = [a \in Offsets |-> q[a]]
              /\ \A t \in Sources : Priority(q, t) = IF t = s THEN level ELSE Priority(r, t)
<1> DEFINE q == [r EXCEPT ![PriorityAt(s)] = level]
<1>1. plic_set_source_priority(r, s, level) = q
  BY DEF plic_set_source_priority
<1>2. q = [a \in Offsets |-> q[a]]
  OBVIOUS
<1>3. ASSUME NEW t \in Sources
      PROVE  Priority(q, t) = IF t = s THEN level ELSE Priority(r, t)
  BY RegisterOffsets DEF Offsets, Priority
<1> QED BY <1>1, <1>2, <1>3

------------------------------------------------------------------------------
(* The inductive invariant *)

\* What TypeOK leaves out: the shape of the tables.
TablesOK ==
    /\ bus \in Buses
    /\ devtab \in Seq([name : {"ser", "blk"}, irq : Irqs \cup {None}])
    /\ Len(devtab) < n
    /\ plic = [a \in Offsets |-> plic[a]]

\* A device in devtab has its handler, and is enabled in the controller only while
\* it is open.
OpenedOK ==
    /\ \A d \in DOMAIN devtab : devtab[d].irq # None => isrtab[devtab[d].irq] # "none"
    /\ \A irq \in Irqs :
          /\ opened[irq] => isrtab[irq] # "none"
          /\ Priority(plic, irq) > 0 => opened[irq]

IInv == HandlersReady /\ TablesOK /\ OpenedOK

LEMMA BusFacts ==
    ASSUME bus \in Buses
    PROVE  /\ Len(bus) \in Nat /\ Len(bus) <= NDEV
           /\ \A k \in 1 .. Len(bus) : bus[k].irq \in Irqs
           /\ Irqs \subseteq Sources /\ None \notin Irqs
<1>1. bus \in Seq([irq : Nat, kind : {"ser", "blk", "other"}, offers : SUBSET STRING])
  BY DevicesAssumption
<1>2. Len(bus) \in Nat /\ DOMAIN bus = 1 .. Len(bus) /\ Len(bus) <= NDEV
  BY <1>1, DevicesAssumption
<1>3. \A k \in 1 .. Len(bus) : bus[k].irq \in Irqs
  BY <1>2 DEF Irqs
<1>4. None \notin Sources
  BY SMT DEF Sources, None
<1> QED BY <1>2, <1>3, <1>4, DevicesAssumption

LEMMA InitIInv == Init => IInv
<1> SUFFICES ASSUME Init PROVE IInv
  OBVIOUS
<1>1. /\ bus \in Buses /\ n = 1 /\ status = "boot" /\ devtab = <<>>
      /\ isrtab = [irq \in Irqs |-> "none"] /\ plic = plic_init
      /\ pending = {} /\ claimed = None
      /\ opened = [irq \in Irqs |-> FALSE] /\ request = [irq \in Irqs |-> "none"]
      /\ avail = [irq \in Irqs |-> 0] /\ last = [irq \in Irqs |-> 0]
  BY DEF Init
<1>2. Len(bus) \in Nat /\ NDEV \in Nat \ {0} /\ IDXMOD \in Nat \ {0}
  BY <1>1, BusFacts, DevicesAssumption
<1>3. \A irq \in Irqs : Priority(plic, irq) = 0
  <2> SUFFICES ASSUME NEW irq \in Irqs PROVE plic_init[PriorityAt(irq)] = 0
    BY <1>1 DEF Priority
  <2>1. PriorityAt(irq) \in PriorityOffsets
    BY DevicesAssumption, RegisterOffsets
  <2> QED BY <2>1 DEF plic_init, Offsets
<1>4. plic = [a \in Offsets |-> plic[a]]
  BY <1>1 DEF plic_init
<1>5. TypeOK
  <2>1. n \in 1 .. Len(bus) + 1 /\ Len(devtab) <= NDEV /\ 0 \in 0 .. IDXMOD - 1
    BY <1>1, <1>2, SMT
  <2> QED BY <1>1, <1>3, <2>1 DEF TypeOK
<1>6. NoPanic /\ ClosedQuiet
  BY <1>1 DEF NoPanic, ClosedQuiet
<1>7. TablesOK
  <2>1. Len(devtab) < n
    BY <1>1, SMT
  <2> QED BY <1>1, <1>4, <2>1 DEF TablesOK
<1>8. OpenedOK
  BY <1>1, <1>3, SMT DEF OpenedOK
<1> QED BY <1>5, <1>6, <1>7, <1>8 DEF IInv, HandlersReady

------------------------------------------------------------------------------
(* Steps *)

\* A step that leaves the tables, the controller's registers and who is open.
LEMMA TablesKept ==
    ASSUME IInv, UNCHANGED <<bootVars, status, plic, opened>>
    PROVE  NoPanic' /\ TablesOK' /\ OpenedOK'
<1>1. NoPanic'
  BY DEF IInv, HandlersReady, NoPanic
<1>2. TablesOK'
  BY DEF IInv, TablesOK, bootVars
<1>3. OpenedOK'
  BY DEF IInv, OpenedOK, bootVars, Priority
<1> QED BY <1>1, <1>2, <1>3

\* A device that main attaches and registers at the end of devtab.
LEMMA RegisterKeeps ==
    ASSUME IInv, n <= Len(bus), n' = n + 1,
           UNCHANGED <<bus, status, plicVars, driverVars, cardVars>>,
           NEW name \in {"ser", "blk"}, NEW isr \in {"uart_isr", "vioblk_isr"},
           \/ device_register(name, None) /\ UNCHANGED isrtab
           \/ intr_register_isr(bus[n].irq, isr) /\ device_register(name, bus[n].irq)
           \/ UNCHANGED <<devtab, isrtab>>
    PROVE  IInv'
<1> DEFINE Entries == [name : {"ser", "blk"}, irq : Irqs \cup {None}]
<1>1. /\ bus \in Buses /\ devtab \in Seq(Entries) /\ Len(devtab) < n
      /\ n \in 1 .. Len(bus) + 1
      /\ isrtab \in [Irqs -> {"none", "uart_isr", "vioblk_isr"}]
  BY DEF IInv, HandlersReady, TablesOK, TypeOK
<1>2. /\ Len(bus) \in Nat /\ Len(bus) <= NDEV /\ bus[n].irq \in Irqs
      /\ Irqs \subseteq Sources /\ None \notin Irqs
  <2>1. Len(bus) \in Nat /\ Len(bus) <= NDEV /\ \A k \in 1 .. Len(bus) : bus[k].irq \in Irqs
    BY <1>1, BusFacts
  <2>2. n \in 1 .. Len(bus)
    BY <1>1, <2>1, SMT
  <2> QED BY <1>1, <2>1, <2>2, BusFacts
<1>3. isrtab' \in [Irqs -> {"none", "uart_isr", "vioblk_isr"}]
  BY <1>1, <1>2 DEF intr_register_isr
<1>4. \A irq \in Irqs : isrtab[irq] # "none" => isrtab'[irq] # "none"
  BY <1>1, <1>2 DEF intr_register_isr
<1>5. /\ devtab' \in Seq(Entries) /\ Len(devtab') <= Len(devtab) + 1
      /\ \A d \in DOMAIN devtab' : devtab'[d].irq # None => isrtab'[devtab'[d].irq] # "none"
  <2>0. \A d \in DOMAIN devtab : devtab[d].irq # None =>
             devtab[d].irq \in Irqs /\ isrtab[devtab[d].irq] # "none"
    <3>1. \A d \in DOMAIN devtab : devtab[d] \in Entries
      <4> HIDE DEF Entries
      <4> QED BY <1>1, SMT
    <3>2. \A d \in DOMAIN devtab : devtab[d].irq \in Irqs \cup {None}
      BY <3>1
    <3> QED BY <3>2 DEF IInv, OpenedOK
  <2>1. CASE UNCHANGED <<devtab, isrtab>>
    BY <1>1, <2>0, <2>1, SMT
  <2>2. ASSUME NEW e \in Entries, devtab' = Append(devtab, e),
               e.irq # None => isrtab'[e.irq] # "none"
        PROVE  /\ devtab' \in Seq(Entries) /\ Len(devtab') <= Len(devtab) + 1
               /\ \A d \in DOMAIN devtab' :
                     devtab'[d].irq # None => isrtab'[devtab'[d].irq] # "none"
    <3>1. /\ devtab' \in Seq(Entries) /\ Len(devtab') = Len(devtab) + 1 /\ Len(devtab) \in Nat
          /\ DOMAIN devtab = 1 .. Len(devtab) /\ DOMAIN devtab' = 1 .. Len(devtab) + 1
          /\ \A d \in 1 .. Len(devtab) : devtab'[d] = devtab[d]
          /\ devtab'[Len(devtab) + 1] = e
      BY <1>1, <2>2, SMT
    <3>2. \A d \in DOMAIN devtab' : d \in DOMAIN devtab \/ d = Len(devtab) + 1
      BY SMTT(30), <3>1
    <3>3. \A d \in DOMAIN devtab' : devtab'[d].irq # None => isrtab'[devtab'[d].irq] # "none"
      BY ZenonT(30), <1>4, <2>0, <2>2, <3>1, <3>2
    <3> QED BY <3>1, <3>3, SMT
  <2>3. CASE device_register(name, None) /\ UNCHANGED isrtab
    <3>1. Entry(name, None) \in Entries /\ Entry(name, None).irq = None
      BY DEF Entry
    <3>2. devtab' = Append(devtab, Entry(name, None))
      BY <2>3 DEF device_register
    <3> HIDE DEF Entries
    <3> QED BY <2>2, <3>1, <3>2
  <2>4. CASE intr_register_isr(bus[n].irq, isr) /\ device_register(name, bus[n].irq)
    <3>1. Entry(name, bus[n].irq) \in Entries /\ Entry(name, bus[n].irq).irq = bus[n].irq
      BY <1>2 DEF Entry
    <3>2. isrtab'[bus[n].irq] # "none"
      BY <1>1, <1>2, <2>4 DEF intr_register_isr
    <3>3. devtab' = Append(devtab, Entry(name, bus[n].irq))
      BY <2>4 DEF device_register
    <3> HIDE DEF Entries
    <3> QED BY <2>2, <3>1, <3>2, <3>3
  <2> QED BY <2>1, <2>3, <2>4
<1>6. TablesOK'
  <2>1. Len(devtab') \in Nat /\ Len(devtab) \in Nat
    BY <1>1, <1>5
  <2>2. Len(devtab') < n'
    BY <1>1, <1>2, <1>5, <2>1, SMT
  <2> QED BY <1>5, <2>2 DEF IInv, TablesOK, plicVars
<1>7. OpenedOK'
  <2>1. \A irq \in Irqs : (opened[irq] => isrtab'[irq] # "none") /\ (Priority(plic, irq) > 0 => opened[irq])
    BY <1>4 DEF IInv, OpenedOK
  <2> QED BY <1>5, <2>1 DEF OpenedOK, plicVars, driverVars, Priority
<1>8. TypeOK'
  <2>1. n' \in 1 .. Len(bus) + 1 /\ Len(devtab') <= NDEV
    <3>1. Len(devtab') \in Nat /\ Len(devtab) \in Nat /\ NDEV \in Nat
      BY SMTT(30), <1>1, <1>5, DevicesAssumption
    <3> QED BY <1>1, <1>2, <1>5, <3>1, SMT
  <2> QED BY <1>3, <2>1 DEF IInv, HandlersReady, TypeOK, plicVars, driverVars, cardVars, Priority
<1>9. NoPanic' /\ ClosedQuiet'
  BY DEF IInv, HandlersReady, NoPanic, ClosedQuiet, plicVars, driverVars
<1> QED BY <1>6, <1>7, <1>8, <1>9 DEF IInv, HandlersReady

LEMMA AttachKeeps == ASSUME IInv, uart_attach \/ virtio_attach PROVE IInv'
<1>1. CASE uart_attach
  BY <1>1, RegisterKeeps DEF uart_attach, Attached
<1>2. CASE virtio_attach
  <2>1. n <= Len(bus) /\ n' = n + 1 /\ UNCHANGED <<bus, status, plicVars, driverVars, cardVars>>
    BY <1>2 DEF virtio_attach, Attached
  <2>2. \/ UNCHANGED <<devtab, isrtab>>
        \/ intr_register_isr(bus[n].irq, "vioblk_isr") /\ device_register("blk", bus[n].irq)
    BY <1>2 DEF virtio_attach
  <2> QED BY <2>1, <2>2, RegisterKeeps
<1> QED BY <1>1, <1>2

LEMMA EnableInterrupts == ASSUME IInv, intr_enable PROVE IInv'
<1>1. UNCHANGED <<bootVars, plicVars, driverVars, cardVars>> /\ status' = "up"
  BY DEF intr_enable
<1> QED
  BY <1>1 DEF IInv, HandlersReady, TypeOK, NoPanic, ClosedQuiet, TablesOK, OpenedOK,
              bootVars, plicVars, driverVars, cardVars, Priority

LEMMA AllocKeeps == ASSUME IInv, NEW size \in Sizes, kmalloc_later(size) PROVE IInv'
<1>1. UNCHANGED <<bootVars, status, plicVars, driverVars, cardVars>>
  BY DEF kmalloc_later
<1> QED
  BY <1>1 DEF IInv, HandlersReady, TypeOK, NoPanic, ClosedQuiet, TablesOK, OpenedOK,
              bootVars, plicVars, driverVars, cardVars, Priority

LEMMA OpenKeeps ==
    ASSUME IInv, NEW name \in {"ser", "blk"}, NEW instno \in Instances, device_open(name, instno)
    PROVE  IInv'
<1>1. PICK d \in DOMAIN devtab :
         /\ devtab[d].irq # None
         /\ opened' = [opened EXCEPT ![devtab[d].irq] = TRUE]
         /\ avail' = [avail EXCEPT ![devtab[d].irq] = 0]
         /\ intr_enable_irq(devtab[d].irq)
  BY DEF device_open
<1>2. UNCHANGED <<bootVars, pending, claimed, request, last>>
  BY DEF device_open, cardVars
<1> DEFINE irq == devtab[d].irq
           level == IF isrtab[irq] = "uart_isr" THEN UART_IRQ_PRIO ELSE VIOBLK_IRQ_PRIO
           Entries == [name : {"ser", "blk"}, irq : Irqs \cup {None}]
<1>3. irq \in Irqs
  <2>1. devtab \in Seq(Entries)
    BY DEF IInv, TablesOK
  <2>2. devtab[d] \in Entries
    <3> HIDE DEF Entries
    <3> QED BY <2>1, SMT
  <2> QED BY <1>1, <2>2
<1>4. isrtab[irq] # "none"
  BY <1>1 DEF IInv, OpenedOK
<1>5. irq \in Sources /\ Irqs \subseteq Sources
  BY <1>3, DevicesAssumption
<1>6. status' = status /\ plic' = plic_set_source_priority(plic, irq, level)
  BY <1>1, <1>4 DEF intr_enable_irq, plic_enable_irq
<1>7. /\ plic' = [a \in Offsets |-> plic'[a]]
      /\ \A t \in Sources : Priority(plic', t) = IF t = irq THEN level ELSE Priority(plic, t)
  <2>1. plic = [a \in Offsets |-> plic[a]]
    BY DEF IInv, TablesOK
  <2> HIDE DEF irq, level
  <2> QED BY <1>5, <1>6, <2>1, SetsOnePriority
<1> HIDE DEF irq
<1>8. opened \in [Irqs -> BOOLEAN] /\ avail \in [Irqs -> 0 .. IDXMOD - 1] /\ 0 \in 0 .. IDXMOD - 1
  <2>1. IDXMOD \in Nat \ {0}
    BY DevicesAssumption
  <2>2. 0 \in 0 .. IDXMOD - 1
    BY <2>1, SMT
  <2> QED BY <2>2 DEF IInv, HandlersReady, TypeOK
<1>9. opened' = [opened EXCEPT ![irq] = TRUE] /\ avail' = [avail EXCEPT ![irq] = 0]
  BY <1>1 DEF irq
<1>10. TypeOK'
  <2>1. opened' \in [Irqs -> BOOLEAN] /\ avail' \in [Irqs -> 0 .. IDXMOD - 1]
    BY <1>8, <1>9
  <2>2. \A t \in Irqs : Priority(plic', t) \in {0, UART_IRQ_PRIO, VIOBLK_IRQ_PRIO}
    BY <1>5, <1>7 DEF IInv, HandlersReady, TypeOK
  <2>3. \A t \in Irqs : Priority(plic, t)' \in {0, UART_IRQ_PRIO, VIOBLK_IRQ_PRIO}
    BY <2>2 DEF Priority
  <2> QED BY <1>2, <1>6, <2>1, <2>3 DEF IInv, HandlersReady, TypeOK, bootVars
<1>11. NoPanic' /\ ClosedQuiet'
  BY <1>2, <1>6, <1>8, <1>9 DEF IInv, HandlersReady, TypeOK, NoPanic, ClosedQuiet
<1>12. TablesOK'
  BY <1>2, <1>7 DEF IInv, TablesOK, bootVars
<1>13. OpenedOK'
  <2>1. \A t \in Irqs : opened'[t] => isrtab[t] # "none"
    BY <1>4, <1>8, <1>9 DEF IInv, OpenedOK, irq
  <2>2. \A t \in Irqs : Priority(plic', t) > 0 => opened'[t]
    BY <1>3, <1>5, <1>7, <1>8, <1>9 DEF IInv, OpenedOK
  <2> QED BY <1>2, <2>1, <2>2 DEF IInv, OpenedOK, bootVars, Priority
<1> QED BY <1>10, <1>11, <1>12, <1>13 DEF IInv, HandlersReady

LEMMA CloseKeeps == ASSUME IInv, NEW irq \in Irqs, Close(irq) PROVE IInv'
<1>1. /\ claimed = None
      /\ opened' = [opened EXCEPT ![irq] = FALSE] /\ avail' = [avail EXCEPT ![irq] = 0]
      /\ plic' = plic_disable_irq(plic, irq)
      /\ UNCHANGED <<bootVars, status, pending, claimed, request, last>>
  BY DEF Close, Threads, intr_disable_irq
<1>2. irq \in Sources /\ Irqs \subseteq Sources
  BY DevicesAssumption
<1>3. plic' = plic_set_source_priority(plic, irq, 0)
  <2>1. 0 < irq
    BY <1>2, SMT DEF Sources
  <2> QED BY <1>1, <2>1 DEF plic_disable_irq
<1>4. /\ plic' = [a \in Offsets |-> plic'[a]]
      /\ \A t \in Sources : Priority(plic', t) = IF t = irq THEN 0 ELSE Priority(plic, t)
  <2>1. plic = [a \in Offsets |-> plic[a]]
    BY DEF IInv, TablesOK
  <2> QED BY <1>2, <1>3, <2>1, SetsOnePriority
<1>5. opened \in [Irqs -> BOOLEAN] /\ avail \in [Irqs -> 0 .. IDXMOD - 1] /\ 0 \in 0 .. IDXMOD - 1
  <2>1. IDXMOD \in Nat \ {0}
    BY DevicesAssumption
  <2>2. 0 \in 0 .. IDXMOD - 1
    BY <2>1, SMT
  <2> QED BY <2>2 DEF IInv, HandlersReady, TypeOK
<1>6. TypeOK'
  <2>1. opened' \in [Irqs -> BOOLEAN] /\ avail' \in [Irqs -> 0 .. IDXMOD - 1]
    BY <1>1, <1>5
  <2>2. \A t \in Irqs : Priority(plic, t)' \in {0, UART_IRQ_PRIO, VIOBLK_IRQ_PRIO}
    BY <1>2, <1>4 DEF IInv, HandlersReady, TypeOK, Priority
  <2> QED BY <1>1, <2>1, <2>2 DEF IInv, HandlersReady, TypeOK, bootVars
<1>7. NoPanic' /\ ClosedQuiet'
  BY <1>1 DEF IInv, HandlersReady, NoPanic, ClosedQuiet
<1>8. TablesOK'
  BY <1>1, <1>4 DEF IInv, TablesOK, bootVars
<1>9. OpenedOK'
  <2>1. \A t \in Irqs : opened'[t] => isrtab[t] # "none"
    BY <1>1, <1>5 DEF IInv, OpenedOK
  <2>2. \A t \in Irqs : Priority(plic', t) > 0 => opened'[t]
    <3> SUFFICES ASSUME NEW t \in Irqs, Priority(plic', t) > 0 PROVE opened'[t]
      OBVIOUS
    <3>1. CASE t = irq
      BY <1>2, <1>4, <3>1, SMT
    <3>2. CASE t # irq
      BY <1>1, <1>2, <1>4, <1>5, <3>2 DEF IInv, OpenedOK
    <3> QED BY <3>1, <3>2
  <2> QED BY <1>1, <2>1, <2>2 DEF IInv, OpenedOK, bootVars, Priority
<1> QED BY <1>6, <1>7, <1>8, <1>9 DEF IInv, HandlersReady

\* The caller of a device, and the device: the controller is left alone.
LEMMA RequestsKeep ==
    ASSUME IInv, NEW irq \in Irqs,
           \/ Request(irq) \/ Return(irq) \/ Complete(irq) \/ SerialEvent(irq)
    PROVE  IInv'
<1>1. UNCHANGED <<bootVars, status, plicVars, opened>>
  BY DEF Request, Return, Complete, SerialEvent, driverVars
<1>2. NoPanic' /\ TablesOK' /\ OpenedOK'
  BY <1>1, TablesKept DEF plicVars
<1>3. ClosedQuiet'
  BY <1>1 DEF IInv, HandlersReady, ClosedQuiet, plicVars
<1>4. /\ request' \in [Irqs -> {"none", "sleeping", "woken"}]
      /\ avail' \in [Irqs -> 0 .. IDXMOD - 1] /\ last' \in [Irqs -> 0 .. IDXMOD - 1]
  <2>1. /\ request \in [Irqs -> {"none", "sleeping", "woken"}]
        /\ avail \in [Irqs -> 0 .. IDXMOD - 1] /\ last \in [Irqs -> 0 .. IDXMOD - 1]
    BY DEF IInv, HandlersReady, TypeOK
  <2>2. NextIdx(avail[irq]) \in 0 .. IDXMOD - 1
    <3>1. IDXMOD \in Nat \ {0} /\ avail[irq] \in 0 .. IDXMOD - 1
      BY <2>1, DevicesAssumption
    <3> QED BY <3>1, SMT DEF NextIdx
  <2>3. CASE Request(irq)
    BY <2>1, <2>2, <2>3 DEF Request, cardVars
  <2>4. CASE Return(irq)
    BY <2>1, <2>4 DEF Return, cardVars
  <2>5. CASE Complete(irq)
    BY <2>1, <2>5 DEF Complete, driverVars
  <2>6. CASE SerialEvent(irq)
    BY <2>1, <2>6 DEF SerialEvent, driverVars
  <2> QED BY <2>3, <2>4, <2>5, <2>6
<1>5. TypeOK'
  BY <1>1, <1>4 DEF IInv, HandlersReady, TypeOK, bootVars, plicVars, Priority
<1> QED BY <1>2, <1>3, <1>5 DEF IInv, HandlersReady

LEMMA NoteKeeps == ASSUME IInv, NEW irq \in Irqs, Note(irq) PROVE IInv'
<1>1. /\ pending' = pending \cup {irq}
      /\ UNCHANGED <<bootVars, status, plic, claimed, opened, avail, last, request>>
  BY DEF Note, driverVars, cardVars
<1>2. NoPanic' /\ TablesOK' /\ OpenedOK'
  BY <1>1, TablesKept
<1>3. TypeOK' /\ ClosedQuiet'
  BY <1>1 DEF IInv, HandlersReady, TypeOK, ClosedQuiet, bootVars, Priority
<1> QED BY <1>2, <1>3 DEF IInv, HandlersReady

\* What is claimed has a priority, and so is open.
LEMMA ClaimKeeps == ASSUME IInv, NEW irq \in Irqs, Claim(irq) PROVE IInv'
<1>1. /\ claimed' = irq /\ pending' = pending \ {irq}
      /\ Priority(plic, irq) > 0
      /\ UNCHANGED <<bootVars, status, plic, opened, avail, last, request>>
  BY DEF Claim, Claims, Claimable, driverVars, cardVars
<1>2. NoPanic' /\ TablesOK' /\ OpenedOK'
  BY <1>1, TablesKept
<1>3. opened[irq]
  BY <1>1 DEF IInv, OpenedOK
<1>4. TypeOK' /\ ClosedQuiet'
  BY <1>1, <1>3 DEF IInv, HandlersReady, TypeOK, ClosedQuiet, bootVars, Priority
<1> QED BY <1>2, <1>4 DEF IInv, HandlersReady

\* What is claimed is open, and so has a handler.
LEMMA HandleKeeps == ASSUME IInv, Handle PROVE IInv'
<1>1. claimed \in Irqs /\ opened[claimed]
  BY DEF IInv, HandlersReady, TypeOK, ClosedQuiet, Handle
<1>2. isrtab[claimed] # "none"
  BY <1>1 DEF IInv, OpenedOK
<1>3. /\ request' = [request EXCEPT ![claimed] =
                         IF line[claimed] /\ @ = "sleeping" THEN "woken" ELSE @]
      /\ UNCHANGED <<bootVars, status, plic, pending, claimed, opened, avail, last>>
  BY <1>2 DEF Handle
<1>4. NoPanic' /\ TablesOK' /\ OpenedOK'
  BY <1>3, TablesKept
<1>5. request' \in [Irqs -> {"none", "sleeping", "woken"}]
  BY <1>1, <1>3 DEF IInv, HandlersReady, TypeOK
<1>6. TypeOK' /\ ClosedQuiet'
  BY <1>3, <1>5 DEF IInv, HandlersReady, TypeOK, ClosedQuiet, bootVars, Priority
<1> QED BY <1>4, <1>6 DEF IInv, HandlersReady

LEMMA CloseIrqKeeps == ASSUME IInv, CloseIrq PROVE IInv'
<1>1. /\ claimed' = None
      /\ UNCHANGED <<bootVars, status, plic, pending, opened, avail, last, request>>
  BY DEF CloseIrq, driverVars, cardVars
<1>2. NoPanic' /\ TablesOK' /\ OpenedOK'
  BY <1>1, TablesKept
<1>3. TypeOK' /\ ClosedQuiet'
  BY <1>1 DEF IInv, HandlersReady, TypeOK, ClosedQuiet, bootVars, Priority
<1> QED BY <1>2, <1>3 DEF IInv, HandlersReady

------------------------------------------------------------------------------
(* The theorem *)

LEMMA NextIInv == ASSUME IInv, [Next]_vars PROVE IInv'
<1>1. CASE uart_attach \/ virtio_attach
  BY <1>1, AttachKeeps
<1>2. CASE intr_enable
  BY <1>2, EnableInterrupts
<1>3. CASE \E size \in Sizes : kmalloc_later(size)
  BY <1>3, AllocKeeps
<1>4. CASE \E name \in {"ser", "blk"}, instno \in Instances : device_open(name, instno)
  BY <1>4, OpenKeeps
<1>5. CASE \E irq \in Irqs : Close(irq)
  BY <1>5, CloseKeeps
<1>6. CASE \E irq \in Irqs : Request(irq) \/ Return(irq) \/ Complete(irq) \/ SerialEvent(irq)
  BY <1>6, RequestsKeep
<1>7. CASE \E irq \in Irqs : Note(irq)
  BY <1>7, NoteKeeps
<1>8. CASE \E irq \in Irqs : Claim(irq)
  BY <1>8, ClaimKeeps
<1>9. CASE Handle
  BY <1>9, HandleKeeps
<1>10. CASE CloseIrq
  BY <1>10, CloseIrqKeeps
<1>11. CASE UNCHANGED vars
  BY <1>11 DEF vars, bootVars, plicVars, driverVars, cardVars, IInv, HandlersReady, TypeOK,
               NoPanic, ClosedQuiet, TablesOK, OpenedOK, Priority
<1> QED
  BY <1>1, <1>2, <1>3, <1>4, <1>5, <1>6, <1>7, <1>8, <1>9, <1>10, <1>11 DEF Next

\* An interrupt that is served has the handler of a device that is open, through any
\* order of attaching, opening, closing and interrupts, and no panic of intr.c is
\* reached.
THEOREM HandlersAreReady == Spec => []HandlersReady
<1>1. IInv => HandlersReady
  BY DEF IInv
<1> QED BY <1>1, InitIInv, NextIInv, PTL DEF Spec

------------------------------------------------------------------------------
(* Requests *)

\* Only a block device that is open has a request.  Its line is up only from the
\* completion of the request to the handler, before any caller is woken.
RequestsOK ==
    /\ line \in [Irqs -> BOOLEAN]
    /\ \A irq \in Irqs :
          /\ request[irq] # "none" => opened[irq] /\ isrtab[irq] = "vioblk_isr"
          /\ line[irq] /\ isrtab[irq] # "uart_isr" =>
                request[irq] = "sleeping" /\ last[irq] = avail[irq]
          /\ status = "boot" => ~opened[irq] /\ ~line[irq]
    /\ WokenDone

LEMMA InitRequests == Init => RequestsOK
BY DEF Init, RequestsOK, WokenDone

LEMMA NextRequests == ASSUME IInv, RequestsOK, [Next]_vars PROVE RequestsOK'
<1>1. /\ isrtab \in [Irqs -> {"none", "uart_isr", "vioblk_isr"}]
      /\ opened \in [Irqs -> BOOLEAN] /\ line \in [Irqs -> BOOLEAN]
      /\ avail \in [Irqs -> 0 .. IDXMOD - 1] /\ last \in [Irqs -> 0 .. IDXMOD - 1]
      /\ request \in [Irqs -> {"none", "sleeping", "woken"}]
  BY DEF IInv, HandlersReady, TypeOK, RequestsOK
<1>2. CASE uart_attach \/ virtio_attach
  <2>1. /\ status = "boot" /\ status' = status
        /\ UNCHANGED <<opened, avail, request, last, line>>
    BY <1>2 DEF uart_attach, virtio_attach, Attached, driverVars, cardVars
  <2>2. \A irq \in Irqs : ~opened[irq] /\ ~line[irq] /\ request[irq] = "none"
    BY <1>1, <2>1 DEF RequestsOK
  <2> QED BY <1>1, <2>1, <2>2 DEF RequestsOK, WokenDone
<1>3. CASE intr_enable
  <2>1. status' = "up" /\ UNCHANGED <<isrtab, opened, avail, request, last, line>>
    BY <1>3 DEF intr_enable, bootVars, driverVars, cardVars
  <2> QED BY <2>1 DEF RequestsOK, WokenDone
<1>4. CASE \E size \in Sizes : kmalloc_later(size)
  <2>1. UNCHANGED <<status, isrtab, opened, avail, request, last, line>>
    BY <1>4 DEF kmalloc_later, bootVars, driverVars, cardVars
  <2> QED BY <2>1 DEF RequestsOK, WokenDone
<1>5. CASE \E name \in {"ser", "blk"}, instno \in Instances : device_open(name, instno)
  <2>1. PICK d \in DOMAIN devtab :
          /\ devtab[d].irq # None /\ ~opened[devtab[d].irq]
          /\ opened' = [opened EXCEPT ![devtab[d].irq] = TRUE]
          /\ avail' = [avail EXCEPT ![devtab[d].irq] = 0]
          /\ intr_enable_irq(devtab[d].irq)
    BY <1>5 DEF device_open
  <2> DEFINE irq == devtab[d].irq
  <2>2. status = "up" /\ UNCHANGED <<isrtab, request, last, line>>
    BY <1>5 DEF device_open, Threads, bootVars, cardVars
  <2>3. irq \in Irqs
    <3> DEFINE Entries == [name : {"ser", "blk"}, irq : Irqs \cup {None}]
    <3>1. devtab \in Seq(Entries) BY DEF IInv, TablesOK
    <3>2. devtab[d] \in Entries
      <4> HIDE DEF Entries
      <4> QED BY <3>1, SMT
    <3> QED BY <2>1, <3>2
  <2>4. status' \in {"up", "panic"} BY <2>1, <2>2 DEF intr_enable_irq
  <2>5. isrtab[irq] # "none" BY <2>1 DEF IInv, OpenedOK
  <2> HIDE DEF irq
  <2>6. /\ opened'[irq] /\ \A t \in Irqs : t # irq => opened'[t] = opened[t] /\ avail'[t] = avail[t]
        /\ ~opened[irq]
    BY <1>1, <2>1, <2>3 DEF irq
  <2>7. request[irq] = "none" /\ ~(line[irq] /\ isrtab[irq] # "uart_isr")
    BY <1>1, <2>3, <2>6 DEF RequestsOK
  <2> QED BY <1>1, <2>2, <2>3, <2>4, <2>6, <2>7 DEF RequestsOK, WokenDone
<1>6. ASSUME NEW irq \in Irqs, Close(irq) PROVE RequestsOK'
  <2>1. /\ status = "up" /\ request[irq] = "none"
        /\ opened' = [opened EXCEPT ![irq] = FALSE]
        /\ avail' = [avail EXCEPT ![irq] = 0]
        /\ line' = [line EXCEPT ![irq] = @ /\ isrtab[irq] # "uart_isr"]
        /\ UNCHANGED <<status, isrtab, request, last>>
    BY <1>6 DEF Close, Threads, bootVars
  <2>2. /\ line' \in [Irqs -> BOOLEAN]
        /\ \A t \in Irqs : t # irq => /\ line'[t] = line[t] /\ opened'[t] = opened[t]
                                      /\ avail'[t] = avail[t]
    BY <1>1, <2>1
  <2>3. ~line'[irq]
    <3>1. ~(line[irq] /\ isrtab[irq] # "uart_isr") BY <2>1 DEF RequestsOK
    <3> QED BY <1>1, <2>1, <3>1
  <2> QED BY <2>1, <2>2, <2>3 DEF RequestsOK, WokenDone
<1>7. ASSUME NEW irq \in Irqs, Request(irq) PROVE RequestsOK'
  <2>1. /\ status = "up" /\ opened[irq] /\ isrtab[irq] = "vioblk_isr" /\ request[irq] = "none"
        /\ request' = [request EXCEPT ![irq] = "sleeping"]
        /\ avail' = [avail EXCEPT ![irq] = NextIdx(@)]
        /\ UNCHANGED <<status, isrtab, opened, last, line>>
    BY <1>7 DEF Request, Threads, bootVars, cardVars
  <2>2. /\ request'[irq] = "sleeping"
        /\ \A t \in Irqs : t # irq => request'[t] = request[t] /\ avail'[t] = avail[t]
    BY <1>1, <2>1
  <2>3. ~line[irq] BY <2>1 DEF RequestsOK
  <2> QED BY <2>1, <2>2, <2>3 DEF RequestsOK, WokenDone
<1>8. ASSUME NEW irq \in Irqs, Return(irq) PROVE RequestsOK'
  <2>1. /\ request[irq] = "woken" /\ request' = [request EXCEPT ![irq] = "none"]
        /\ UNCHANGED <<status, isrtab, opened, avail, last, line>>
    BY <1>8 DEF Return, bootVars, cardVars
  <2>2. request'[irq] = "none" /\ \A t \in Irqs : t # irq => request'[t] = request[t]
    BY <1>1, <2>1
  <2>3. ~(line[irq] /\ isrtab[irq] # "uart_isr") BY <2>1 DEF RequestsOK
  <2> QED BY <2>1, <2>2, <2>3 DEF RequestsOK, WokenDone
<1>9. ASSUME NEW irq \in Irqs, Complete(irq) PROVE RequestsOK'
  <2>1. /\ request[irq] = "sleeping"
        /\ UNCHANGED <<status, isrtab, opened, avail, request>>
        /\ \/ last' = [last EXCEPT ![irq] = avail[irq]] /\ line' = [line EXCEPT ![irq] = TRUE]
           \/ UNCHANGED <<last, line>>
    BY <1>9 DEF Complete, bootVars, driverVars
  <2>2. status # "boot" BY <1>1, <2>1 DEF RequestsOK
  <2>3. CASE UNCHANGED <<last, line>> BY <2>1, <2>3 DEF RequestsOK, WokenDone
  <2>4. CASE last' = [last EXCEPT ![irq] = avail[irq]] /\ line' = [line EXCEPT ![irq] = TRUE]
    <3>1. /\ line' \in [Irqs -> BOOLEAN] /\ last'[irq] = avail[irq]
          /\ \A t \in Irqs : t # irq => line'[t] = line[t] /\ last'[t] = last[t]
      BY <1>1, <2>4
    <3> QED BY <2>1, <2>2, <3>1 DEF RequestsOK, WokenDone
  <2> QED BY <2>1, <2>3, <2>4
<1>10. ASSUME NEW irq \in Irqs, SerialEvent(irq) PROVE RequestsOK'
  <2>1. /\ opened[irq] /\ isrtab[irq] = "uart_isr" /\ line' = [line EXCEPT ![irq] = TRUE]
        /\ UNCHANGED <<status, isrtab, opened, avail, request, last>>
    BY <1>10 DEF SerialEvent, bootVars, driverVars
  <2>2. line' \in [Irqs -> BOOLEAN] /\ \A t \in Irqs : t # irq => line'[t] = line[t]
    BY <1>1, <2>1
  <2> QED BY <2>1, <2>2 DEF RequestsOK, WokenDone
<1>11. ASSUME NEW irq \in Irqs, Note(irq) \/ Claim(irq) PROVE RequestsOK'
  <2>1. UNCHANGED <<status, isrtab, opened, avail, request, last, line>>
    BY <1>11 DEF Note, Claim, bootVars, driverVars, cardVars
  <2> QED BY <2>1 DEF RequestsOK, WokenDone
<1>12. CASE Handle
  <2>1. claimed \in Irqs /\ opened[claimed] /\ isrtab[claimed] # "none"
    BY <1>12 DEF Handle, IInv, HandlersReady, TypeOK, ClosedQuiet, OpenedOK
  <2> DEFINE x == claimed
  <2>2. /\ line' = [line EXCEPT ![x] = FALSE]
        /\ request' = [request EXCEPT ![x] =
                          IF line[x] /\ @ = "sleeping" THEN "woken" ELSE @]
        /\ UNCHANGED <<status, isrtab, opened, avail, last>>
    BY <1>12, <2>1 DEF Handle, Acknowledge, bootVars
  <2> HIDE DEF x
  <2>3. x \in Irqs BY <2>1 DEF x
  <2>4. /\ line' \in [Irqs -> BOOLEAN] /\ ~line'[x]
        /\ request'[x] = IF line[x] /\ request[x] = "sleeping" THEN "woken" ELSE request[x]
        /\ \A t \in Irqs : t # x => line'[t] = line[t] /\ request'[t] = request[t]
    BY <1>1, <2>2, <2>3
  <2>5. request'[x] = "woken" => last[x] = avail[x]
    <3>1. CASE line[x] /\ request[x] = "sleeping"
      BY <2>3, <3>1 DEF RequestsOK
    <3>2. CASE ~(line[x] /\ request[x] = "sleeping")
      BY <2>3, <2>4, <3>2 DEF RequestsOK, WokenDone
    <3> QED BY <3>1, <3>2
  <2>6. request'[x] # "none" => request[x] # "none" BY <2>4
  <2> QED BY <2>2, <2>3, <2>4, <2>5, <2>6 DEF RequestsOK, WokenDone
<1>13. CASE CloseIrq
  <2>1. UNCHANGED <<status, isrtab, opened, avail, request, last, line>>
    BY <1>13 DEF CloseIrq, bootVars, driverVars, cardVars
  <2> QED BY <2>1 DEF RequestsOK, WokenDone
<1>14. CASE UNCHANGED vars
  <2>1. UNCHANGED <<status, isrtab, opened, avail, request, last, line>>
    BY <1>14 DEF vars, bootVars, driverVars, cardVars
  <2> QED BY <2>1 DEF RequestsOK, WokenDone
<1> QED
  BY <1>2, <1>3, <1>4, <1>5, <1>6, <1>7, <1>8, <1>9, <1>10, <1>11, <1>12, <1>13, <1>14 DEF Next

\* A caller of a block device is woken only when the device has come to the end of
\* the ring: vioblk_isr broadcasts on any interrupt, and vioblk_read does not look.
THEOREM WokenWhenDone == Spec => []WokenDone
<1>1. RequestsOK => WokenDone BY DEF RequestsOK
<1> QED BY <1>1, InitIInv, NextIInv, InitRequests, NextRequests, PTL DEF Spec

------------------------------------------------------------------------------
(* Instances *)

Listed(name, d) == {e \in 1 .. d - 1 : devtab[e].name = name}
FoundBefore(k, name) == {m \in 1 .. k - 1 : Attachable(m, name)}

\* There is an entry for each device that main found and could attach, in order.
InstancesOK ==
    /\ \A name \in {"ser", "blk"} :
          Cardinality(Listed(name, Len(devtab) + 1)) = Before(n, name)
    /\ \A d \in DOMAIN devtab : \E k \in 1 .. n - 1, name \in {"ser", "blk"} :
          /\ Attachable(k, name) /\ devtab[d].name = name
          /\ devtab[d].irq \in {None, bus[k].irq}
          /\ Instance(name, d) = Before(k, name)
    /\ OpensInstance

LEMMA CountOneMore ==
    ASSUME NEW m \in Nat, NEW S \in SUBSET (1 .. m)
    PROVE  /\ IsFiniteSet(S) /\ Cardinality(S) \in Nat
           /\ Cardinality(S \cup {m + 1}) = Cardinality(S) + 1
<1>1. IsFiniteSet(1 .. m) BY FS_Interval
<1>2. IsFiniteSet(S) /\ Cardinality(S) \in Nat BY <1>1, FS_Subset, FS_CardinalityType
<1>3. m + 1 \notin S
  <2>1. m + 1 \notin 1 .. m BY SMT
  <2> QED BY <2>1
<1> QED BY <1>2, <1>3, FS_AddElement

LEMMA InitInstances == Init => InstancesOK
<1> SUFFICES ASSUME Init PROVE InstancesOK OBVIOUS
<1>1. n = 1 /\ devtab = <<>> /\ opening.irq = None BY DEF Init
<1>2. Len(devtab) = 0 /\ DOMAIN devtab = {} BY <1>1
<1>3. \A name : Listed(name, Len(devtab) + 1) = {} /\ FoundBefore(n, name) = {}
  <2>1. 1 .. (Len(devtab) + 1) - 1 = {} /\ 1 .. n - 1 = {} BY <1>1, <1>2, SMT
  <2> QED BY <2>1 DEF Listed, FoundBefore
<1>4. \A name : Cardinality(Listed(name, Len(devtab) + 1)) = Before(n, name)
  BY <1>3 DEF Before, FoundBefore
<1> QED BY <1>1, <1>2, <1>4 DEF InstancesOK, OpensInstance

\* What main attaches is the next of its kind, in devtab as on the bus.
LEMMA AttachInstances ==
    ASSUME IInv, InstancesOK, uart_attach \/ virtio_attach
    PROVE  InstancesOK'
<1> DEFINE Entries == [name : {"ser", "blk"}, irq : Irqs \cup {None}]
           len == Len(devtab)
<1>1. /\ devtab \in Seq(Entries) /\ n \in 1 .. Len(bus) + 1 /\ n <= Len(bus)
      /\ bus \in Buses /\ Len(bus) \in Nat
      /\ n' = n + 1 /\ UNCHANGED <<bus, opening>>
  <2>1. devtab \in Seq(Entries) /\ n \in 1 .. Len(bus) + 1 /\ bus \in Buses
    BY DEF IInv, HandlersReady, TypeOK, TablesOK
  <2> QED BY <2>1, BusFacts DEF uart_attach, virtio_attach, Attached
<1>2. len \in Nat /\ DOMAIN devtab = 1 .. len /\ n \in Nat \ {0}
  <2> HIDE DEF Entries
  <2> QED BY <1>1, SMT
<1>3. \A k, name : Attachable(k, name)' <=> Attachable(k, name) BY <1>1 DEF Attachable
<1>4. \A k, name : Before(k, name)' = Before(k, name)
  BY <1>3 DEF Before
<1>5. OpensInstance' BY <1>1, <1>3, <1>4 DEF OpensInstance, InstancesOK
<1>6. \/ /\ devtab' = devtab
         /\ \A name \in {"ser", "blk"} : ~Attachable(n, name)
      \/ \E name \in {"ser", "blk"}, irq \in {None, bus[n].irq} :
            Attachable(n, name) /\ devtab' = Append(devtab, Entry(name, irq))
  BY DEF uart_attach, virtio_attach, device_register, Attachable
<1>7. \A name : /\ Attachable(n, name) => FoundBefore(n + 1, name) = FoundBefore(n, name) \cup {n}
                /\ ~Attachable(n, name) => FoundBefore(n + 1, name) = FoundBefore(n, name)
  <2>1. 1 .. (n + 1) - 1 = (1 .. n - 1) \cup {n} BY <1>2, SMT
  <2> QED BY <2>1 DEF FoundBefore
<1>8. \A name : /\ Attachable(n, name) => Before(n + 1, name) = Before(n, name) + 1
                /\ ~Attachable(n, name) => Before(n + 1, name) = Before(n, name)
  <2> TAKE name
  <2>1. FoundBefore(n, name) \in SUBSET (1 .. n - 1) BY DEF FoundBefore
  <2>2. n - 1 \in Nat /\ (n - 1) + 1 = n BY <1>2, SMT
  <2>3. Cardinality(FoundBefore(n, name) \cup {(n - 1) + 1}) = Cardinality(FoundBefore(n, name)) + 1
    BY <2>1, <2>2, CountOneMore
  <2> QED BY <1>7, <2>2, <2>3 DEF Before, FoundBefore
<1>9. CASE devtab' = devtab /\ \A name \in {"ser", "blk"} : ~Attachable(n, name)
  <2>1. \A name \in {"ser", "blk"} :
          Cardinality(Listed(name, Len(devtab) + 1))' = Before(n, name)'
    <3> TAKE name \in {"ser", "blk"}
    <3>1. Before(n, name)' = Before(n + 1, name) BY <1>1, <1>3 DEF Before
    <3>2. Listed(name, Len(devtab) + 1)' = Listed(name, Len(devtab) + 1)
      BY <1>9 DEF Listed
    <3> QED BY <1>8, <1>9, <3>1, <3>2 DEF InstancesOK
  <2>2. \A d \in DOMAIN devtab' : \E k \in 1 .. n' - 1, name \in {"ser", "blk"} :
          /\ Attachable(k, name) /\ devtab'[d].name = name
          /\ devtab'[d].irq \in {None, bus'[k].irq}
          /\ Instance(name, d)' = Before(k, name)
    <3> TAKE d \in DOMAIN devtab'
    <3>1. PICK k \in 1 .. n - 1, name \in {"ser", "blk"} :
            /\ Attachable(k, name) /\ devtab[d].name = name
            /\ devtab[d].irq \in {None, bus[k].irq}
            /\ Instance(name, d) = Before(k, name)
      BY <1>9 DEF InstancesOK
    <3>2. k \in 1 .. n' - 1 BY <1>1, <1>2, SMT
    <3>3. Instance(name, d)' = Instance(name, d) BY <1>9 DEF Instance
    <3> QED BY <1>1, <1>9, <3>1, <3>2, <3>3
  <2> QED BY <1>3, <1>4, <1>5, <2>1, <2>2 DEF InstancesOK
<1>10. ASSUME NEW name \in {"ser", "blk"}, NEW irq \in {None, bus[n].irq},
              Attachable(n, name), devtab' = Append(devtab, Entry(name, irq))
       PROVE  InstancesOK'
  <2>1. /\ Len(devtab') = len + 1 /\ DOMAIN devtab' = 1 .. len + 1
        /\ devtab'[len + 1] = Entry(name, irq)
        /\ \A d \in 1 .. len : devtab'[d] = devtab[d]
    <3> HIDE DEF Entries
    <3> QED BY <1>1, <1>10, SMT
  <2> HIDE DEF len
  <2>2. \A other \in {"ser", "blk"} : Attachable(n, other) <=> other = name
    BY <1>10 DEF Attachable
  <2>3. \A other : \A d \in 1 .. len + 1 :
          {e \in 1 .. d - 1 : devtab'[e].name = other} = Listed(other, d)
    <3> TAKE other
    <3> TAKE d \in 1 .. len + 1
    <3>1. \A e \in 1 .. d - 1 : e \in 1 .. len BY <1>2, SMT
    <3> QED BY <2>1, <3>1 DEF Listed
  <2>4. \A other \in {"ser", "blk"} :
          Cardinality({e \in 1 .. (len + 2) - 1 : devtab'[e].name = other})
            = Before(n + 1, other)
    <3> TAKE other \in {"ser", "blk"}
    <3> DEFINE S == Listed(other, len + 1)
               S2 == {e \in 1 .. (len + 2) - 1 : devtab'[e].name = other}
    <3>1. 1 .. (len + 2) - 1 = (1 .. (len + 1) - 1) \cup {len + 1} /\ (len + 1) - 1 = len
      BY <1>2, SMT
    <3>2. \A e \in 1 .. (len + 1) - 1 : devtab'[e].name = devtab[e].name
      BY <2>1, <3>1
    <3>3. S2 = IF other = name THEN S \cup {len + 1} ELSE S
      BY <2>1, <3>1, <3>2 DEF Listed, Entry
    <3>4. S \in SUBSET (1 .. len) BY <3>1 DEF Listed
    <3>5. Cardinality(S) = Before(n, other) BY DEF InstancesOK, len
    <3> HIDE DEF S, S2
    <3>6. Cardinality(S \cup {len + 1}) = Cardinality(S) + 1
      BY <1>2, <3>4, CountOneMore
    <3>7. Cardinality(S2) = Before(n + 1, other)
      BY <1>8, <2>2, <3>3, <3>5, <3>6
    <3> QED BY <3>7 DEF S2
  <2>5. \A other \in {"ser", "blk"} :
          Cardinality(Listed(other, Len(devtab) + 1))' = Before(n, other)'
    <3> TAKE other \in {"ser", "blk"}
    <3>1. Before(n, other)' = Before(n + 1, other) BY <1>1, <1>3 DEF Before
    <3>2. Len(devtab') + 1 = len + 2 BY <1>2, <2>1, SMT
    <3>3. Listed(other, Len(devtab) + 1)' = {e \in 1 .. (len + 2) - 1 : devtab'[e].name = other}
      BY <3>2 DEF Listed
    <3> QED BY <2>4, <3>1, <3>3
  <2>6. \A d \in DOMAIN devtab' : \E k \in 1 .. n' - 1, other \in {"ser", "blk"} :
          /\ Attachable(k, other) /\ devtab'[d].name = other
          /\ devtab'[d].irq \in {None, bus'[k].irq}
          /\ Instance(other, d)' = Before(k, other)
    <3> TAKE d \in DOMAIN devtab'
    <3>1. d \in 1 .. len + 1 /\ (d \in 1 .. len \/ d = len + 1) BY <1>2, <2>1, SMT
    <3>2. \A other : Instance(other, d)' = Cardinality(Listed(other, d))
      BY <2>3, <3>1 DEF Instance
    <3>3. CASE d \in 1 .. len
      <4>1. PICK k \in 1 .. n - 1, other \in {"ser", "blk"} :
              /\ Attachable(k, other) /\ devtab[d].name = other
              /\ devtab[d].irq \in {None, bus[k].irq}
              /\ Instance(other, d) = Before(k, other)
        BY <1>2, <3>3 DEF InstancesOK, len
      <4>2. k \in 1 .. n' - 1 BY <1>1, <1>2, SMT
      <4>3. devtab'[d] = devtab[d] BY <2>1, <3>3
      <4>4. Instance(other, d)' = Instance(other, d)
        BY <3>2 DEF Instance, Listed
      <4> QED BY <1>1, <4>1, <4>2, <4>3, <4>4
    <3>4. CASE d = len + 1
      <4>1. devtab'[d] = Entry(name, irq) BY <2>1, <3>4
      <4>2. devtab'[d].name = name /\ devtab'[d].irq = irq BY <4>1 DEF Entry
      <4>3. n \in 1 .. n' - 1 BY <1>1, <1>2, SMT
      <4>4. Instance(name, d)' = Before(n, name)
        <5>1. Cardinality(Listed(name, len + 1)) = Before(n, name) BY DEF InstancesOK, len
        <5> QED BY <3>2, <3>4, <5>1
      <4> QED BY <1>1, <1>10, <4>2, <4>3, <4>4
    <3> QED BY <3>1, <3>3, <3>4
  <2> QED BY <1>3, <1>4, <1>5, <2>5, <2>6 DEF InstancesOK
<1> QED BY <1>6, <1>9, <1>10

LEMMA InstancesKept ==
    ASSUME InstancesOK, UNCHANGED <<bus, n, devtab>>, OpensInstance' PROVE InstancesOK'
<1>1. \A k, name : (Attachable(k, name)' <=> Attachable(k, name)) BY DEF Attachable
<1>2. \A k, name : Before(k, name)' = Before(k, name) BY <1>1 DEF Before
<1>3. \A d, name : Instance(name, d)' = Instance(name, d) BY DEF Instance
<1>4. \A name : Listed(name, Len(devtab) + 1)' = Listed(name, Len(devtab) + 1) BY DEF Listed
<1>5. \A name : Before(n, name)' = Before(n, name) BY <1>1 DEF Before
<1> QED BY <1>1, <1>2, <1>3, <1>4, <1>5 DEF InstancesOK

LEMMA NextInstances == ASSUME IInv, InstancesOK, [Next]_vars PROVE InstancesOK'
<1>1. ASSUME UNCHANGED <<bus, n, devtab, opening>> PROVE InstancesOK'
  <2>1. OpensInstance'
    <3>1. OpensInstance BY DEF InstancesOK
    <3> QED BY <1>1, <3>1 DEF OpensInstance, Attachable, Before
  <2> QED BY <1>1, <2>1, InstancesKept
<1>2. CASE uart_attach \/ virtio_attach BY <1>2, AttachInstances
<1>3. CASE \E name \in {"ser", "blk"}, instno \in Instances : device_open(name, instno)
  <2>1. PICK name \in {"ser", "blk"}, instno \in Instances : device_open(name, instno)
    BY <1>3
  <2>2. PICK d \in DOMAIN devtab :
          /\ devtab[d].name = name /\ Instance(name, d) = instno /\ devtab[d].irq # None
          /\ opening' = [name |-> name, instno |-> instno, irq |-> devtab[d].irq]
    BY <2>1 DEF device_open
  <2>3. UNCHANGED <<bus, n, devtab>> BY <2>1 DEF device_open, bootVars
  <2>4. PICK k \in 1 .. n - 1 :
          /\ Attachable(k, name) /\ devtab[d].irq \in {None, bus[k].irq}
          /\ Instance(name, d) = Before(k, name)
    BY <2>2 DEF InstancesOK
  <2>5. k \in DOMAIN bus
    <3>1. /\ n \in 1 .. Len(bus) + 1 /\ Len(bus) \in Nat /\ DOMAIN bus = 1 .. Len(bus)
      <4>1. bus \in Seq([irq : Nat, kind : {"ser", "blk", "other"}, offers : SUBSET STRING])
        BY DevicesAssumption DEF IInv, TablesOK
      <4> QED BY <4>1 DEF IInv, HandlersReady, TypeOK
    <3> QED BY <3>1, SMT
  <2>6. OpensInstance'
    <3>1. /\ opening'.name = name /\ opening'.instno = instno /\ opening'.irq = bus[k].irq
      BY <2>2, <2>4
    <3>2. Attachable(k, name)' /\ Before(k, name)' = instno
      BY <2>2, <2>3, <2>4 DEF Attachable, Before
    <3>3. Attachable(k, opening.name)' /\ Before(k, opening.name)' = opening'.instno
      BY <3>1, <3>2 DEF Attachable, Before
    <3> QED BY <2>3, <2>5, <3>1, <3>3 DEF OpensInstance
  <2> QED BY <2>3, <2>6, InstancesKept
<1>4. CASE \/ intr_enable \/ \E size \in Sizes : kmalloc_later(size)
           \/ \E irq \in Irqs : Close(irq) \/ Request(irq) \/ Return(irq)
           \/ \E irq \in Irqs : Complete(irq) \/ SerialEvent(irq) \/ Note(irq) \/ Claim(irq)
           \/ Handle \/ CloseIrq
  <2>1. UNCHANGED <<bus, n, devtab, opening>>
    BY <1>4 DEF intr_enable, kmalloc_later, Close, Request, Return, Complete, SerialEvent,
                Note, Claim, Handle, CloseIrq, bootVars
  <2> QED BY <1>1, <2>1
<1>5. CASE UNCHANGED vars BY <1>1, <1>5 DEF vars, bootVars
<1> QED BY <1>2, <1>3, <1>4, <1>5 DEF Next

\* The k-th instance of a name is the k-th device of its kind that main found and
\* could attach, on every bus: device_register numbers them, device_open counts.
THEOREM InstancesInOrder == Spec => []OpensInstance
<1>1. InstancesOK => OpensInstance BY DEF InstancesOK
<1> QED BY <1>1, InitIInv, NextIInv, InitInstances, NextInstances, PTL DEF Spec

------------------------------------------------------------------------------
(* The heap *)

\* A number is below the next multiple of what divides it.
LEMMA Above ==
    ASSUME NEW a \in Int, NEW b \in Int, b > 0
    PROVE  a < (a \div b + 1) * b
BY SMT

\* What is rounded up does not grow past a page.
LEMMA RoundedFits ==
    ASSUME NEW size \in 1 .. PAGE_SIZE
    PROVE  Rounded(size) \in 1 .. PAGE_SIZE /\ size <= Rounded(size)
<1> DEFINE k == (size + Grain - 1) \div Grain
           c == PAGE_SIZE \div Grain
<1>1. PAGE_SIZE \in Nat \ {0} /\ Grain \in Nat \ {0} /\ PAGE_SIZE % Grain = 0
  BY HeapAssumption
<1>2. /\ size \in Int /\ PAGE_SIZE \in Int /\ Grain \in Int /\ Grain > 0
      /\ 1 <= size /\ size <= PAGE_SIZE
  BY <1>1, SMT
<1>3. PAGE_SIZE = c * Grain + (PAGE_SIZE % Grain)
  BY <1>2, SMT
<1>4. c \in Int
  BY <1>2, DivMod
<1>5. k \in Int
  BY <1>2, SMT
<1>6. size <= c * Grain
  BY <1>1, <1>2, <1>3, <1>4, SMT
<1>7. 0 < c
  BY <1>2, <1>4, <1>6, SMT
<1>8. k <= c
  BY <1>2, <1>4, <1>6, <1>7, SMT
<1>9. size + Grain - 1 < (k + 1) * Grain
  <2>1. size + Grain - 1 \in Int
    BY <1>2, SMT
  <2> QED BY <1>2, <2>1, Above
<1> HIDE DEF k, c
<1>10. (k + 1) * Grain = k * Grain + Grain /\ k * Grain \in Int
  BY <1>2, <1>5, SMT
<1>11. k * Grain <= c * Grain /\ c * Grain = PAGE_SIZE
  <2>1. c * Grain = PAGE_SIZE
    BY <1>1, <1>2, <1>3, <1>4, SMT
  <2>2. (c - k) * Grain >= 0
    BY <1>2, <1>4, <1>5, <1>8, SMT
  <2>3. (c - k) * Grain = c * Grain - k * Grain
    BY <1>2, <1>4, <1>5, SMT
  <2> QED BY <1>2, <1>10, <2>1, <2>2, <2>3, SMT
<1>12. Rounded(size) = k * Grain
  BY DEF Rounded, k
<1> QED BY <1>2, <1>9, <1>10, <1>11, <1>12, SMT

\* A heap is a piece of a page that has been given, and below the next one.
HeapOK(h) ==
    /\ h \in [start : Nat, end : Nat, page : Nat]
    /\ h.start <= h.end /\ h.end <= h.page * PAGE_SIZE

\* Where a block of size bytes at a place lies: apart from the heap, on given pages.
Outside(h, at, size) ==
    /\ at \in Nat /\ size \in Nat /\ at + size <= h.page * PAGE_SIZE
    /\ at + size <= h.start \/ h.end <= at

\* kmalloc gives what no one else has: its block is apart from the heap that is left,
\* and whatever was apart from the heap stays so and is apart from the block.
THEOREM KmallocGivesAnew ==
    ASSUME NEW h, HeapOK(h), NEW size \in 1 .. PAGE_SIZE
    PROVE  LET r == kmalloc(h, size)
               s == Rounded(size)
           IN /\ HeapOK(r.h) /\ Outside(r.h, r.at, s)
              /\ \A at, sz : Outside(h, at, sz) =>
                    Outside(r.h, at, sz) /\ (at + sz <= r.at \/ r.at + s <= at)
<1> DEFINE r == kmalloc(h, size)
           s == Rounded(size)
           block == h.page * PAGE_SIZE
           next == (h.page + 1) * PAGE_SIZE
<1>1. s \in Nat /\ 0 < s /\ s <= PAGE_SIZE /\ PAGE_SIZE \in Nat
  BY RoundedFits, HeapAssumption, SMT
<1>2. h.start \in Nat /\ h.end \in Nat /\ h.page \in Nat /\ h.start <= h.end /\ h.end <= block
  BY DEF HeapOK
<1>3. block \in Nat /\ next = block + PAGE_SIZE
  BY <1>1, <1>2, SMT
<1>4. CASE Fits(h, s)
  <2>1. r = [h |-> [h EXCEPT !.end = @ - s], at |-> h.end - s]
    BY <1>4 DEF kmalloc
  <2>2. /\ r.h.start = h.start /\ r.h.end = h.end - s /\ r.h.page = h.page
        /\ r.at = h.end - s /\ s <= h.end - h.start
        /\ r.h = [start |-> h.start, end |-> h.end - s, page |-> h.page]
    BY <1>4, <2>1 DEF HeapOK, Fits
  <2> HIDE DEF r, s, block
  <2>3. HeapOK(r.h)
    BY <1>1, <1>2, <2>2, SMT DEF HeapOK, block
  <2>4. Outside(r.h, r.at, s)
    BY <1>1, <1>2, <1>3, <2>2, SMT DEF Outside, block
  <2>5. ASSUME NEW at, NEW sz, Outside(h, at, sz)
        PROVE  Outside(r.h, at, sz) /\ (at + sz <= r.at \/ r.at + s <= at)
    BY <1>1, <1>2, <2>2, <2>5, SMT DEF Outside
  <2> QED BY <2>3, <2>4, <2>5 DEF r, s
<1>5. CASE ~Fits(h, s) /\ Replaces(h, s)
  <2>1. r = [h |-> [start |-> block, end |-> block + PAGE_SIZE - s, page |-> h.page + 1],
             at |-> block + PAGE_SIZE - s]
    BY <1>5 DEF kmalloc, NewPage
  <2>2. /\ r.h.start = block /\ r.h.end = block + PAGE_SIZE - s /\ r.h.page = h.page + 1
        /\ r.at = block + PAGE_SIZE - s /\ r.h.page * PAGE_SIZE = next
        /\ r.h = [start |-> block, end |-> block + PAGE_SIZE - s, page |-> h.page + 1]
    BY <2>1
  <2> HIDE DEF r, s, next
  <2>3. HeapOK(r.h)
    BY <1>1, <1>2, <1>3, <2>2, SMT DEF HeapOK
  <2>4. Outside(r.h, r.at, s)
    BY <1>1, <1>2, <1>3, <2>2, SMT DEF Outside
  <2>5. ASSUME NEW at, NEW sz, Outside(h, at, sz)
        PROVE  Outside(r.h, at, sz) /\ (at + sz <= r.at \/ r.at + s <= at)
    <3>1. at \in Nat /\ sz \in Nat /\ at + sz <= block
      BY <2>5 DEF Outside
    <3> HIDE DEF block
    <3> QED BY <1>1, <1>3, <2>2, <3>1, SMT DEF Outside
  <2> QED BY <2>3, <2>4, <2>5 DEF r, s
<1>6. CASE ~Fits(h, s) /\ ~Replaces(h, s)
  <2>1. r = [h |-> [h EXCEPT !.page = @ + 1], at |-> block]
    BY <1>6 DEF kmalloc, NewPage
  <2>2. /\ r.h.start = h.start /\ r.h.end = h.end /\ r.h.page = h.page + 1
        /\ r.at = block /\ r.h.page * PAGE_SIZE = next
        /\ r.h = [start |-> h.start, end |-> h.end, page |-> h.page + 1]
    BY <2>1 DEF HeapOK
  <2> HIDE DEF r, s, next
  <2>3. HeapOK(r.h)
    BY <1>1, <1>2, <1>3, <2>2, SMT DEF HeapOK
  <2>4. Outside(r.h, r.at, s)
    BY <1>1, <1>2, <1>3, <2>2, SMT DEF Outside
  <2>5. ASSUME NEW at, NEW sz, Outside(h, at, sz)
        PROVE  Outside(r.h, at, sz) /\ (at + sz <= r.at \/ r.at + s <= at)
    <3>1. at \in Nat /\ sz \in Nat /\ at + sz <= block /\ (at + sz <= h.start \/ h.end <= at)
      BY <2>5 DEF Outside
    <3> HIDE DEF block
    <3> QED BY <1>1, <1>2, <1>3, <2>2, <3>1, SMT DEF Outside
  <2> QED BY <2>3, <2>4, <2>5 DEF r, s
<1> QED BY <1>4, <1>5, <1>6

\* The heap h and the blocks bs that were given before, in turn.
GivenApart(h, bs) ==
    /\ HeapOK(h)
    /\ bs \in Seq([at : Nat, size : Nat])
    /\ \A i \in DOMAIN bs : Outside(h, bs[i].at, bs[i].size)
    /\ \A i, j \in DOMAIN bs : i < j => \/ bs[i].at + bs[i].size <= bs[j].at
                                        \/ bs[j].at + bs[j].size <= bs[i].at

\* One more block of the heap is apart from all that were given.
LEMMA OneMore ==
    ASSUME NEW h, NEW bs, GivenApart(h, bs), NEW size \in 1 .. PAGE_SIZE
    PROVE  GivenApart(kmalloc(h, size).h, Append(bs, Block(kmalloc(h, size), size)))
<1> DEFINE r == kmalloc(h, size)
           b == Block(r, size)
           more == Append(bs, b)
<1>1. HeapOK(h) /\ bs \in Seq([at : Nat, size : Nat])
  BY DEF GivenApart
<1>2. /\ HeapOK(r.h) /\ Outside(r.h, b.at, b.size)
      /\ \A at, sz : Outside(h, at, sz) =>
            Outside(r.h, at, sz) /\ (at + sz <= b.at \/ b.at + b.size <= at)
  BY <1>1, KmallocGivesAnew DEF Block
<1>3. b \in [at : Nat, size : Nat]
  BY <1>2 DEF Block, Outside
<1> HIDE DEF r, b
<1>4. /\ more \in Seq([at : Nat, size : Nat])
      /\ Len(more) = Len(bs) + 1 /\ Len(bs) \in Nat
      /\ DOMAIN bs = 1 .. Len(bs) /\ DOMAIN more = 1 .. Len(bs) + 1
      /\ more[Len(bs) + 1] = b
      /\ \A i \in 1 .. Len(bs) : more[i] = bs[i]
  BY <1>1, <1>3
<1> HIDE DEF more
<1>5. \A i \in DOMAIN more : Outside(r.h, more[i].at, more[i].size)
  <2> SUFFICES ASSUME NEW i \in DOMAIN more
               PROVE  Outside(r.h, more[i].at, more[i].size)
    OBVIOUS
  <2>1. CASE i \in 1 .. Len(bs)
    BY <1>2, <1>4, <2>1 DEF GivenApart
  <2>2. CASE i = Len(bs) + 1
    BY <1>2, <1>4, <2>2
  <2>3. i \in 1 .. Len(bs) \/ i = Len(bs) + 1
    BY <1>4, SMT
  <2> QED BY <2>1, <2>2, <2>3
<1>6. ASSUME NEW i \in DOMAIN more, NEW j \in DOMAIN more, i < j
      PROVE  \/ more[i].at + more[i].size <= more[j].at
             \/ more[j].at + more[j].size <= more[i].at
  <2>1. i \in 1 .. Len(bs) /\ (j \in 1 .. Len(bs) \/ j = Len(bs) + 1)
    BY <1>4, <1>6, SMT
  <2>2. CASE j \in 1 .. Len(bs)
    BY <1>4, <1>6, <2>1, <2>2 DEF GivenApart
  <2>3. CASE j = Len(bs) + 1
    <3>1. Outside(h, bs[i].at, bs[i].size)
      BY <1>4, <2>1 DEF GivenApart
    <3> QED BY <1>2, <1>4, <2>1, <2>3, <3>1
  <2> QED BY <2>1, <2>2, <2>3
<1>7. GivenApart(r.h, more)
  BY <1>2, <1>4, <1>5, <1>6 DEF GivenApart
<1> QED BY <1>7 DEF r, b, more

LEMMA InitApart == Init => GivenApart(heap, blocks)
<1> SUFFICES ASSUME Init PROVE GivenApart(heap, blocks)
  OBVIOUS
<1>1. PICK left \in HeapSizes :
         /\ heap = heap_init(PAGE_SIZE - left, PAGE_SIZE)
         /\ blocks = <<[at |-> 0, size |-> PAGE_SIZE - left]>>
  BY DEF Init
<1>2. PAGE_SIZE \in Nat \ {0} /\ left \in 1 .. PAGE_SIZE
  BY <1>1, HeapAssumption, DevicesAssumption
<1>3. PAGE_SIZE \div PAGE_SIZE = 1
  BY <1>2, SMT
<1>4. heap = [start |-> PAGE_SIZE - left, end |-> PAGE_SIZE, page |-> 1]
  BY <1>1, <1>3 DEF heap_init
<1>5. /\ PAGE_SIZE - left \in Nat /\ PAGE_SIZE - left <= PAGE_SIZE
      /\ 1 * PAGE_SIZE = PAGE_SIZE /\ 0 + (PAGE_SIZE - left) = PAGE_SIZE - left
  BY <1>2, SMT
<1>6. HeapOK(heap) /\ Outside(heap, 0, PAGE_SIZE - left)
  BY <1>2, <1>4, <1>5 DEF HeapOK, Outside
<1>7. /\ blocks \in Seq([at : Nat, size : Nat]) /\ DOMAIN blocks = {1}
      /\ blocks[1].at = 0 /\ blocks[1].size = PAGE_SIZE - left
  BY <1>1, <1>5
<1>8. \A i, j \in DOMAIN blocks : ~(i < j)
  BY <1>7
<1> QED BY <1>6, <1>7, <1>8 DEF GivenApart

LEMMA NextApart == ASSUME GivenApart(heap, blocks), [Next]_vars
                   PROVE  GivenApart(heap, blocks)'
<1>1. CASE uart_attach /\ n # 1
  <2>1. UartSize \in 1 .. PAGE_SIZE
    BY DevicesAssumption
  <2> QED BY <1>1, <2>1, OneMore DEF uart_attach
<1>2. CASE virtio_attach /\ ~UNCHANGED heapVars
  <2> DEFINE dev == kmalloc(heap, BlkSize + blksz)
             blkbuf == kmalloc(dev.h, blksz)
             first == Append(blocks, Block(dev, BlkSize + blksz))
             second == Append(first, Block(blkbuf, blksz))
  <2>1. BlkSize + blksz \in 1 .. PAGE_SIZE /\ blksz \in 1 .. PAGE_SIZE
    BY DevicesAssumption
  <2>2. GivenApart(dev.h, first)
    BY <2>1, OneMore
  <2>3. GivenApart(blkbuf.h, second)
    BY <2>1, <2>2, OneMore
  <2>4. heap' = blkbuf.h /\ blocks' = second
    BY <1>2 DEF virtio_attach, heapVars
  <2> QED BY <2>3, <2>4
<1>3. CASE \E size \in Sizes : kmalloc_later(size)
  <2>1. PICK size \in Sizes : kmalloc_later(size)
    BY <1>3
  <2>2. size \in 1 .. PAGE_SIZE
    BY DevicesAssumption
  <2> QED BY <2>1, <2>2, OneMore DEF kmalloc_later
<1>4. CASE UNCHANGED heapVars
  BY <1>4 DEF heapVars, GivenApart
<1>5. uart_attach => n # 1 \/ UNCHANGED heapVars
  BY DEF uart_attach
<1>6. intr_enable => UNCHANGED heapVars
  BY DEF intr_enable
<1>7. (\E name \in {"ser", "blk"}, instno \in Instances : device_open(name, instno))
         => UNCHANGED heapVars
  BY DEF device_open, heapVars
<1>8. ASSUME NEW irq \in Irqs
      PROVE  /\ Close(irq) \/ Request(irq) \/ Return(irq) => UNCHANGED heapVars
             /\ Complete(irq) \/ SerialEvent(irq) \/ Note(irq) \/ Claim(irq)
                   => UNCHANGED heapVars
  BY DEF Close, Request, Return, Complete, SerialEvent, Note, Claim, heapVars
<1>9. Handle \/ CloseIrq => UNCHANGED heapVars
  BY DEF Handle, CloseIrq, heapVars
<1>10. UNCHANGED vars => UNCHANGED heapVars
  BY DEF vars
<1> QED BY <1>1, <1>2, <1>3, <1>4, <1>5, <1>6, <1>7, <1>8, <1>9, <1>10 DEF Next

\* No byte is given twice: the kernel image, whatever was allocated while devices were
\* attached and since, and what the heap has left have no byte in common.
THEOREM GivenOnce == Spec => []BlocksApart
<1>1. ASSUME GivenApart(heap, blocks) PROVE BlocksApart
  <2>1. \A i \in DOMAIN blocks : /\ blocks[i].at \in Nat /\ blocks[i].size \in Nat
                                 /\ \/ blocks[i].at + blocks[i].size <= heap.start
                                    \/ heap.end <= blocks[i].at
    BY <1>1 DEF GivenApart, Outside
  <2>2. heap.start \in Nat /\ heap.end \in Nat /\ DOMAIN blocks \subseteq Int
    BY <1>1 DEF GivenApart, HeapOK
  <2>3. ASSUME NEW i \in DOMAIN blocks, NEW j \in DOMAIN blocks, i # j
        PROVE  \/ blocks[i].at + blocks[i].size <= blocks[j].at
               \/ blocks[j].at + blocks[j].size <= blocks[i].at
    <3>1. i < j \/ j < i
      BY <2>2, <2>3, SMT
    <3> QED BY <1>1, <3>1 DEF GivenApart
  <2>4. ASSUME NEW i \in DOMAIN blocks, NEW j \in DOMAIN blocks, i # j
        PROVE  Bytes(blocks[i]) \cap Bytes(blocks[j]) = {}
    BY <2>1, <2>3, <2>4 DEF Bytes
  <2>5. ASSUME NEW i \in DOMAIN blocks
        PROVE  Bytes(blocks[i]) \cap (heap.start .. heap.end - 1) = {}
    BY <2>1, <2>2 DEF Bytes
  <2> QED BY <2>4, <2>5 DEF BlocksApart
<1> QED BY <1>1, InitApart, NextApart, PTL DEF Spec

==============================================================================
