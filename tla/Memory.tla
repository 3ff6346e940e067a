-------------------------------- MODULE Memory --------------------------------
(***************************************************************************)
(* Virtual memory, memory.c, with what uses it: elf_load, process_exec,     *)
(* process_fork and process_exit, and the page faults of excp.c.            *)
(*                                                                         *)
(* A page table has two entries: entry 0 of a root is the identity mapping  *)
(* of the kernel, entry 1 the user range, which so has four pages.  Memory  *)
(* is a function of frames, each a page table and PGSIZE words of data.     *)
(* Code that runs in a process's space has it active (Threads shows that).  *)
(* It is not preempted; elf_load sleeps in ioread, between two segments.    *)
(***************************************************************************)
EXTENDS Integers, Sequences, SequencesExt, FiniteSets

CONSTANTS
    Procs, Main,
    PoolSize,       \* pages on the free list after memory_init
    PAGE_SIZE,
    USER_START,     \* the first user address, from which all others are counted
    ADDR_MOD,       \* how many addresses there are: sums of them wrap there
    Images,         \* what files hold: whether the header is accepted, segments
    StoreAt,        \* where user code stores (the bound of the model)
    MaxCalls,       \* execs and forks in a behaviour (the bound of the model)
    Null

ASSUME MemoryAssumption ==
    /\ Main \in Procs
    /\ MaxCalls \in Nat /\ PoolSize \in Nat \ {0} /\ PAGE_SIZE \in Nat \ {0}
    /\ USER_START \in Nat /\ ADDR_MOD \in Nat
    /\ USER_START + PAGE_SIZE * 5 <= ADDR_MOD     \* the user range, and a page

VARIABLES
    status,     \* "running", "halted", or the reason of a panic
    mem,        \* the frames' contents
    free_list,
    pc,         \* "none": no process; "user"; "loading"
    mtag,       \* the root page table of each process
    image, idx, \* what is being loaded, and the next segment
    stacks,     \* pages that hold kernel stacks
    dead,       \* the roots of processes that have exited
    calls       \* execs and forks so far

vars == <<status, mem, free_list, pc, mtag, image, idx, stacks, dead, calls>>

PTE_CNT == 2
UserPages == 0 .. PTE_CNT * PTE_CNT - 1
USER_END == PAGE_SIZE * PTE_CNT * PTE_CNT
Addrs == 0 .. USER_END - 1

\* Address arithmetic is unsigned: what a sum of addresses comes to.
Wrapped(a) == ((a + USER_START) % ADDR_MOD) - USER_START

\* Any header: an address, sizes, the data, and how many words ioread finds of it.
Headers == [vaddr : -USER_START .. ADDR_MOD - USER_START - 1, filesz : 0 .. ADDR_MOD - 1,
            memsz : 0 .. ADDR_MOD - 1, rest : Nat, data : Int]

\* What a file holds is not Null, which is what no program stores.
ASSUME ImagesAssumption ==
    /\ \A im \in Images : im.segs \in Seq(Headers)
    /\ StoreAt \subseteq Addrs
    /\ Null \notin Procs \cup Int

Pool == 1 .. PoolSize
main_pt2 == 0                   \* page tables in the kernel's image
main_pt1 == -1
NoFrame == -2                   \* what memory_alloc_page would return after its panic
Frames == Pool \cup {main_pt2, main_pt1, NoFrame}

null_pte == [ppn |-> NoFrame, flags |-> {}]
leaf_pte(pp, flags) == [ppn |-> pp, flags |-> flags \cup {"V"}]
ptab_pte(pt, flags) == [ppn |-> pt, flags |-> flags \cup {"V"}]
Zeroed == [pte |-> [i \in 0 .. PTE_CNT - 1 |-> null_pte],
           data |-> [i \in 0 .. PAGE_SIZE - 1 |-> 0]]

verify_flags(flags) == "V" \in flags /\ ("W" \in flags => "R" \in flags)
IsTable(e) == verify_flags(e.flags) /\ e.flags \cap {"R", "W", "X"} = {}

------------------------------------------------------------------------------
(* The page pool.  The operators work on m: the frames' contents, the free  *)
(* list, the page allocated last, and whether there was always one.         *)

Now == [mem |-> mem, free |-> free_list, page |-> NoFrame, ok |-> TRUE]

memory_alloc_page(m) ==
    IF m.free = <<>> THEN [m EXCEPT !.page = NoFrame, !.ok = FALSE]
    ELSE LET pp == Head(m.free)
         IN [m EXCEPT !.page = pp, !.free = Tail(@), !.mem[pp] = Zeroed]

\* What a page on the list holds: its link, and what it held (not told apart).
Junk == [Zeroed EXCEPT !.data = [i \in DOMAIN @ |-> Null]]
memory_free_page(m, pp) == [m EXCEPT !.free = <<pp>> \o @, !.mem[pp] = Junk]

\* What m says becomes the state, or the panic the end of it.
Commit(m) ==
    IF m.ok THEN mem' = m.mem /\ free_list' = m.free /\ status' = status
    ELSE status' = "out of memory" /\ UNCHANGED <<mem, free_list>>

------------------------------------------------------------------------------
(* Page tables *)

VPN1(page) == page \div PTE_CNT
VPN0(page) == page % PTE_CNT

\* walk_pt that does not create: the page table and index of a page's entry.
walk_pt(m, root, page) ==
    LET e2 == m.mem[root].pte[1]
        e1 == m.mem[e2.ppn].pte[VPN1(page)]
        e0 == m.mem[e1.ppn].pte[VPN0(page)]
    IN IF IsTable(e2) /\ IsTable(e1) /\ verify_flags(e0.flags)
       THEN {<<e1.ppn, VPN0(page)>>} ELSE {}

\* walk_pt that creates.  What is not a table is replaced by one; m.page names
\* the table or page the entry refers to.
Table(m, pt, i) ==
    IF IsTable(m.mem[pt].pte[i]) THEN [m EXCEPT !.page = m.mem[pt].pte[i].ppn]
    ELSE LET a == memory_alloc_page(m)
         IN [a EXCEPT !.mem[pt].pte[i] = ptab_pte(a.page, {})]
Leaf(m, pt, i) ==
    IF verify_flags(m.mem[pt].pte[i].flags) THEN m
    ELSE LET a == memory_alloc_page(m)
         IN [a EXCEPT !.mem[pt].pte[i] = leaf_pte(a.page, {"R"})]
walk_pt_create(m, root, page) ==
    LET m1 == Table(m, root, 1)
        m0 == Table(m1, m1.page, VPN1(page))
    IN Leaf(m0, m0.page, VPN0(page))

memory_set_page_flags(m, root, page, flags) ==
    IF walk_pt(m, root, page) = {} THEN m
    ELSE LET at == CHOOSE x \in walk_pt(m, root, page) : TRUE
         IN [m EXCEPT !.mem[at[1]].pte[at[2]] = leaf_pte(@.ppn, flags)]

memory_alloc_and_map_page(m, root, page, flags) ==
    memory_set_page_flags(walk_pt_create(m, root, page), root, page, flags)

\* From vma to the end in steps of a page, wherever in its page vma is, and no page
\* if the end wraps; and whole pages only.
Stepped(vma, steps) == [k \in 1 .. steps |-> (vma + (k - 1) * PAGE_SIZE) \div PAGE_SIZE]
Ahead(vma, end) == IF end > vma THEN end - vma ELSE 0
WholePages(vma, size) == Stepped(vma, Ahead(vma, Wrapped(vma + size)) \div PAGE_SIZE)
RangePages(vma, size) ==
    Stepped(vma, (Ahead(vma, Wrapped(vma + size)) + PAGE_SIZE - 1) \div PAGE_SIZE)
memory_alloc_and_map_range(m, root, vma, size, flags) ==
    FoldLeft(LAMBDA n, page : memory_alloc_and_map_page(n, root, page, flags),
             m, RangePages(vma, size))

\* unmap_user_page; and one that keeps the page.
UnmapKeepsPage(m, pt, i) == [m EXCEPT !.mem[pt].pte[i] = null_pte]
unmap_user_page(m, pt, i) ==
    IF "U" \notin m.mem[pt].pte[i].flags THEN m
    ELSE [memory_free_page(m, m.mem[pt].pte[i].ppn) EXCEPT !.mem[pt].pte[i] = null_pte]

memory_unmap_and_free_user(m, root) ==
    FoldLeft(LAMBDA n, page :
                IF walk_pt(n, root, page) = {} THEN n
                ELSE LET at == CHOOSE x \in walk_pt(n, root, page) : TRUE
                     IN unmap_user_page(n, at[1], at[2]),
             m, [k \in 1 .. Cardinality(UserPages) |-> k - 1])

------------------------------------------------------------------------------
(* memory_space_clone *)

\* Entries that the copy shares: those of the kernel.
Shares(e) == "G" \in e.flags

\* A new table with a copy of each valid entry of pt; those that are not shared
\* and of which Deep holds refer to a copy of their own that Sub makes.
CloneTable(m, pt, Deep(_), Sub(_, _)) ==
    LET a == memory_alloc_page(m)
        Entry(n, i) ==
            LET e == m.mem[pt].pte[i]
                s == Sub(n, e.ppn)
            IN IF ~verify_flags(e.flags) THEN n
               ELSE IF Shares(e) \/ ~Deep(e) THEN [n EXCEPT !.mem[a.page].pte[i] = e]
               ELSE [s EXCEPT !.mem[a.page].pte[i] = [e EXCEPT !.ppn = s.page]]
        done == FoldLeft(Entry, a, [k \in 1 .. PTE_CNT |-> k - 1])
    IN [done EXCEPT !.page = a.page]

\* A page; and a page that the child shares.
SharePage(m, pp) == [m EXCEPT !.page = pp]
ClonePage(m, pp) ==
    LET a == memory_alloc_page(m)
    IN [a EXCEPT !.mem[a.page].data = m.mem[pp].data]
ClonePt0(m, pt) == CloneTable(m, pt, LAMBDA e : TRUE, ClonePage)
ClonePt1(m, pt) == CloneTable(m, pt, IsTable, ClonePt0)
memory_space_clone(m, root) == CloneTable(m, root, IsTable, ClonePt1)

------------------------------------------------------------------------------
(* Processes *)

\* After memory_init: the kernel's half of the main space, and a process in it
\* that main has started to load.
Init ==
    /\ status = "running"
    /\ mem = [f \in Frames |->
          IF f = main_pt2 THEN [Zeroed EXCEPT !.pte[0] = ptab_pte(main_pt1, {"G"})]
          ELSE IF f = main_pt1
          THEN [Zeroed EXCEPT !.pte = [i \in DOMAIN @ |-> leaf_pte(f, {"R", "W", "G"})]]
          ELSE Junk]
    /\ free_list = [i \in 1 .. PoolSize |-> PoolSize + 1 - i]
    /\ pc = [p \in Procs |-> IF p = Main THEN "loading" ELSE "none"]
    /\ mtag = [p \in Procs |-> IF p = Main THEN main_pt2 ELSE NoFrame]
    /\ \E im \in {x \in Images : x.header} : image = [p \in Procs |-> IF p = Main THEN im ELSE Null]
    /\ idx = [p \in Procs |-> 1]
    /\ stacks = {} /\ dead = {} /\ calls = 0

Running(p, l) == status = "running" /\ pc[p] = l

Panic(reason) ==
    /\ status' = reason
    /\ UNCHANGED <<mem, free_list, pc, mtag, image, idx, stacks, dead, calls>>

\* The entry that translates an address, as a set.
Entry(p, a) == {mem[x[1]].pte[x[2]] : x \in walk_pt(Now, mtag[p], a \div PAGE_SIZE)}
Frame(p, a) == {e.ppn : e \in Entry(p, a)}

\* A store of a user program, or of a system call into its buffer.
Store(p, a, v) ==
    /\ Running(p, "user")
    /\ \E e \in Entry(p, a) :
          /\ {"U", "W"} \subseteq e.flags
          /\ mem' = [mem EXCEPT ![e.ppn].data[a % PAGE_SIZE] = v]
    /\ UNCHANGED <<status, free_list, pc, mtag, image, idx, stacks, dead, calls>>

\* umode_excp_handler: a store page fault maps the page.
PageFault(p, a) ==
    /\ Running(p, "user")
    /\ Entry(p, a) = {}
    /\ Commit(memory_alloc_and_map_page(Now, mtag[p], a \div PAGE_SIZE, {"U", "R", "W"}))
    /\ UNCHANGED <<pc, mtag, image, idx, stacks, dead, calls>>

\* Any other fault panics: a load, a store outside the user range, and a system
\* call that finds the buffer it was given not mapped.
OtherFault(p) ==
    /\ Running(p, "user")
    /\ Panic("fault")

\* process_exec, up to the checks of the header in elf_load.
Exec(p, im) ==
    /\ Running(p, "user") /\ calls < MaxCalls
    /\ LET m == memory_unmap_and_free_user(Now, mtag[p])
       IN IF im.header THEN Commit(m) ELSE Panic("elf_load")
    /\ im.header =>
          /\ pc' = [pc EXCEPT ![p] = "loading"]
          /\ image' = [image EXCEPT ![p] = im]
          /\ idx' = [idx EXCEPT ![p] = 1]
          /\ calls' = calls + 1
          /\ UNCHANGED <<mtag, stacks, dead>>

\* The bounds of elf_load.
InUserRange(seg) == seg.vaddr >= 0 /\ Wrapped(seg.vaddr + seg.memsz) < USER_END

\* What its ioread writes, and its memset: the size of the data is not compared with
\* the size in memory, so the rest to clear may come to nearly all of memory.
ReadRun(seg) ==
    [from |-> seg.vaddr, count |-> IF seg.filesz < seg.rest THEN seg.filesz ELSE seg.rest,
     word |-> seg.data]
ClearRun(seg) ==
    [from |-> Wrapped(seg.vaddr + seg.filesz), count |-> (seg.memsz - seg.filesz) % ADDR_MOD,
     word |-> 0]
Touched(run) == run.from .. run.from + run.count - 1

\* Writing a run.  It faults on what is not mapped; one that leaves the user range
\* faults or overwrites the kernel, and is taken for a fault too.
Filled(m, root, run) ==
    IF ~(Touched(run) \subseteq Addrs) THEN [m EXCEPT !.page = NoFrame]
    ELSE FoldLeft(LAMBDA n, a :
             IF walk_pt(n, root, a \div PAGE_SIZE) = {} THEN [n EXCEPT !.page = NoFrame]
             ELSE LET at == CHOOSE x \in walk_pt(n, root, a \div PAGE_SIZE) : TRUE
                  IN [n EXCEPT !.mem[n.mem[at[1]].pte[at[2]].ppn].data[a % PAGE_SIZE] = run.word],
             [m EXCEPT !.page = main_pt2],
             [k \in 1 .. run.count |-> run.from + k - 1])

\* One program header of elf_load.  Those that are not PT_LOAD do nothing; one that
\* cannot be read ends as one out of bounds.
LoadSegment(p) ==
    /\ Running(p, "loading")
    /\ idx[p] <= Len(image[p].segs)
    /\ LET seg == image[p].segs[idx[p]]
           mapped == memory_alloc_and_map_range(Now, mtag[p], seg.vaddr, seg.memsz,
                                                {"R", "W", "X", "U"})
           read == Filled(mapped, mtag[p], ReadRun(seg))
           cleared == Filled(read, mtag[p], ClearRun(seg))
       IN IF ~InUserRange(seg) THEN Panic("elf_load")
          ELSE IF mapped.ok /\ NoFrame \in {read.page, cleared.page}
          THEN Panic("fault in elf_load")
          ELSE /\ Commit(cleared)
               /\ idx' = [idx EXCEPT ![p] = @ + 1]
               /\ UNCHANGED <<pc, mtag, image, stacks, dead, calls>>

\* thread_jump_to_user
Loaded(p) ==
    /\ Running(p, "loading")
    /\ idx[p] > Len(image[p].segs)
    /\ pc' = [pc EXCEPT ![p] = "user"]
    /\ image' = [image EXCEPT ![p] = Null]
    /\ idx' = [idx EXCEPT ![p] = 1]
    /\ UNCHANGED <<status, mem, free_list, mtag, stacks, dead, calls>>

\* process_fork, with the stack page of thread_fork_to_user.
Fork(p, q) ==
    /\ Running(p, "user") /\ pc[q] = "none"
    /\ LET c == memory_space_clone(Now, mtag[p])
           s == memory_alloc_page(c)
       IN /\ Commit(s)
          /\ stacks' = IF s.ok THEN stacks \cup {s.page} ELSE stacks
          /\ mtag' = [mtag EXCEPT ![q] = IF s.ok THEN c.page ELSE NoFrame]
    /\ pc' = [pc EXCEPT ![q] = "user"]
    /\ calls < MaxCalls /\ calls' = calls + 1
    /\ UNCHANGED <<image, idx, dead>>

\* process_exit: the page tables stay, and the stack (see Threads).
Exit(p) ==
    /\ Running(p, "user")
    /\ IF p = Main THEN Panic("halted")
       ELSE /\ Commit(memory_unmap_and_free_user(Now, mtag[p]))
            /\ dead' = dead \cup {mtag[p]}
            /\ mtag' = [mtag EXCEPT ![p] = NoFrame]
            /\ pc' = [pc EXCEPT ![p] = "none"]
            /\ UNCHANGED <<image, idx, stacks, calls>>

Stopped == status # "running" /\ UNCHANGED vars

Next ==
    \/ Stopped
    \/ \E p \in Procs :
          \/ \E a \in StoreAt : PageFault(p, a) \/ \E v \in {p} : Store(p, a, v)
          \/ OtherFault(p) \/ LoadSegment(p) \/ Loaded(p) \/ Exit(p)
          \/ \E im \in Images : Exec(p, im)
          \/ \E q \in Procs : Fork(p, q)

Spec == Init /\ [][Next]_vars

------------------------------------------------------------------------------
(* Properties *)

TypeOK ==
    /\ status \in {"running", "halted", "out of memory", "fault", "elf_load", "fault in elf_load"}
    /\ \A f \in Frames : \A i \in 0 .. PTE_CNT - 1 :
          /\ mem[f].pte[i].ppn \in Frames
          /\ mem[f].pte[i].flags \subseteq {"V", "R", "W", "X", "U", "G"}
          /\ "V" \in mem[f].pte[i].flags \/ mem[f].pte[i] = null_pte
    /\ free_list \in Seq(Pool)
    /\ pc \in [Procs -> {"none", "user", "loading"}]
    /\ \A p \in Procs : (pc[p] = "none") = (mtag[p] = NoFrame) \/ status # "running"
    /\ stacks \subseteq Pool /\ dead \subseteq Pool

Spaces == {mtag[p] : p \in Procs} \ {NoFrame}

\* Where the pages of the pool are: the entries of a table that refer to one.
Refs(pt) == {<<pt, i>> : i \in {j \in 0 .. PTE_CNT - 1 :
                "V" \in mem[pt].pte[j].flags /\ "G" \notin mem[pt].pte[j].flags}}
Below(refs) == {mem[r[1]].pte[r[2]].ppn : r \in refs}
Tables1(roots) == UNION {Refs(pt) : pt \in roots}
Tables0(roots) == UNION {Refs(pt) : pt \in Below(Tables1(roots))}
Leaves(roots) == UNION {Refs(pt) : pt \in Below(Tables0(roots))}

\* Every page of the pool is in one place: free, a kernel stack, a root, or
\* what one entry of one page table refers to.  None is freed twice, mapped
\* twice, used as table and data at once, or lost, and nothing else is freed.
PagesInOnePlace ==
    LET roots == (Spaces \cup dead) \ {main_pt2}
        refs == Tables1(roots \cup {main_pt2}) \cup Tables0(roots \cup {main_pt2})
                \cup Leaves(roots \cup {main_pt2})
        owners == [f \in Pool |->
            Cardinality({i \in DOMAIN free_list : free_list[i] = f})
            + Cardinality({x \in {1} : f \in stacks}) + Cardinality({x \in {1} : f \in roots})
            + Cardinality({r \in refs : mem[r[1]].pte[r[2]].ppn = f})]
    IN \A f \in Pool : owners[f] = 1

\* The page tables of a process that has exited map nothing: of what it had,
\* only tables (and the stack) do not come back to the pool.
DeadMapNothing == Leaves(dead) = {}

\* Every space maps the kernel as the main space does.
KernelMapped == \A r \in Spaces : mem[r].pte[0] = mem[main_pt2].pte[0]

\* The spaces are made of pages of their own and the kernel that all share.
SpacesApart == TypeOK /\ PagesInOnePlace /\ DeadMapNothing /\ KernelMapped

\* What a process finds at an address.
WordAt(p, a) ==
    IF mtag[p] = NoFrame \/ Frame(p, a) = {} THEN Null
    ELSE mem[CHOOSE f \in Frame(p, a) : TRUE].data[a % PAGE_SIZE]

\* The segments that elf_load is made for: no more data than memory, an end that
\* does not wrap, and no start so far into its page that the last page is missed.
Fits(seg) ==
    /\ seg.filesz <= seg.memsz
    /\ seg.vaddr + seg.memsz < ADDR_MOD - USER_START
    /\ (seg.vaddr % PAGE_SIZE) + seg.memsz
           <= PAGE_SIZE * ((seg.memsz + PAGE_SIZE - 1) \div PAGE_SIZE)

\* The data of a segment is in the memory of p, and zeroes from there to its end.
Holds(p, seg) ==
    \A k \in 0 .. seg.memsz - 1 :
        /\ k < seg.filesz /\ k < seg.rest => WordAt(p, seg.vaddr + k) = seg.data
        /\ k >= seg.filesz => WordAt(p, seg.vaddr + k) = 0

\* Whatever was loaded before it, into whatever pages, a segment that fits is loaded
\* without a fault, and the process then has what it says, all of it mapped.
Segments == UNION {{im.segs[i] : i \in DOMAIN im.segs} : im \in Images}
Loads(p, seg) == LoadSegment(p) /\ seg = image[p].segs[idx[p]]
FittingSegmentsLoad ==
    [][\A p \in Procs, seg \in Segments :
          Loads(p, seg) /\ Fits(seg) =>
              status' # "fault in elf_load" /\ (status' = "running" => Holds(p, seg)')]_vars

\* Every page of the range of a segment is mapped when it is loaded: if it is in the
\* user range as its header says, there is no fault.
RangesAreMapped ==
    [][\A p \in Procs, seg \in Segments :
          Loads(p, seg) /\ seg.filesz <= seg.memsz /\ seg.vaddr + seg.memsz < USER_END =>
              status' # "fault in elf_load"]_vars

\* Processes have memories of their own, whatever pages they have in turn.  A segment
\* adds the pages of its range, then data and zeroes where they are mapped.
Loading(seg) ==
    [pages |-> {RangePages(seg.vaddr, seg.memsz)[k] :
                   k \in DOMAIN RangePages(seg.vaddr, seg.memsz)},
     read |-> Touched(ReadRun(seg)), clear |-> Touched(ClearRun(seg)), data |-> seg.data]
A == INSTANCE AddressSpaces WITH
    Values <- Procs, Segments <- {Loading(seg) : seg \in Segments},
    UserSize <- USER_END, PageSize <- PAGE_SIZE, Unmapped <- Null,
    space <- [p \in Procs |-> [a \in Addrs |-> WordAt(p, a)]]
OwnMemory == A!Spec

==============================================================================
