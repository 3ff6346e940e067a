---------------------------------- MODULE Plic ----------------------------------
(***************************************************************************)
(* The interrupt controller as plic.c programs it: its registers are words  *)
(* at offsets from PLIC_IOBASE.  A priority is a word of its own; a word of  *)
(* enable bits is the set of those that are on.                             *)
(*                                                                         *)
(* r is the memory of the registers; a function named after one of plic.c   *)
(* gives the memory after the call.                                         *)
(***************************************************************************)
EXTENDS Integers

CONSTANTS
    PLIC_SRCCNT, PLIC_CTXCNT,
    WordBits,           \* 32
    PLIC_ENCTX,         \* 0x2000: where the words of enable bits are,
    BLCK_SIZE           \* 0x80: and how many bytes those of a context take

\* The registers of the manual do not overlap: 0x400 sources, 0x20 words a context.
ASSUME PlicAssumption ==
    /\ {PLIC_SRCCNT, PLIC_CTXCNT, WordBits, PLIC_ENCTX, BLCK_SIZE} \subseteq Nat \ {0}
    /\ PLIC_SRCCNT * 4 <= PLIC_ENCTX
    /\ ((PLIC_SRCCNT - 1) \div WordBits) * 4 + 4 <= BLCK_SIZE

Sources == 1 .. PLIC_SRCCNT - 1
Contexts == 0 .. PLIC_CTXCNT - 1

PriorityAt(srcno) == srcno * 4
EnableAt(ctxno, srcno) == PLIC_ENCTX + ctxno * BLCK_SIZE + (srcno \div WordBits) * 4
EnableBit(srcno) == srcno % WordBits

PriorityOffsets == {PriorityAt(s) : s \in 0 .. PLIC_SRCCNT - 1}
EnableOffsets == {EnableAt(c, s) : c \in Contexts, s \in 0 .. PLIC_SRCCNT - 1}

Offsets == PriorityOffsets \cup EnableOffsets

plic_set_source_priority(r, srcno, level) ==
    IF srcno \in Sources THEN [r EXCEPT ![PriorityAt(srcno)] = level] ELSE r

plic_enable_source_for_context(r, ctxno, srcno) ==
    IF ctxno \in Contexts /\ srcno \in Sources
    THEN [r EXCEPT ![EnableAt(ctxno, srcno)] = @ \cup {EnableBit(srcno)}] ELSE r

\* Every source is disabled by its priority, and enabled for context 1, S mode of
\* hart 0: what the loop over plic_set_source_priority and
\* plic_enable_source_for_context leaves in registers that read 0.
plic_init ==
    [a \in Offsets |->
        IF a \in PriorityOffsets THEN 0
        ELSE {EnableBit(s) : s \in {x \in Sources : EnableAt(1, x) = a}}]

plic_enable_irq(r, irqno, prio) == plic_set_source_priority(r, irqno, prio)
plic_disable_irq(r, irqno) == IF 0 < irqno THEN plic_set_source_priority(r, irqno, 0) ELSE r

Priority(r, srcno) == r[PriorityAt(srcno)]
EnabledFor(r, ctxno, srcno) == EnableBit(srcno) \in r[EnableAt(ctxno, srcno)]

\* plic_claim_irq of context 1, whose threshold stays 0: the source of the highest
\* priority, and the first of these; or none.
Claimable(r, pending) == {s \in pending : EnabledFor(r, 1, s) /\ Priority(r, s) > 0}
Claims(r, pending, srcno) ==
    /\ srcno \in Claimable(r, pending)
    /\ \A other \in Claimable(r, pending) \ {srcno} :
          \/ Priority(r, other) < Priority(r, srcno)
          \/ Priority(r, other) = Priority(r, srcno) /\ srcno < other

==============================================================================
