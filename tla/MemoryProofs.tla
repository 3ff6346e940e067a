----------------------------- MODULE MemoryProofs ------------------------------
(***************************************************************************)
(* Theorems about Memory, for every pool, every page size, every set of     *)
(* processes and programs: the pages are each in one place, what has exited *)
(* maps nothing, a segment that fits is loaded and then in memory, and the  *)
(* processes have the memories of their own that AddressSpaces promises.    *)
(*                                                                         *)
(* The argument gives every frame an owner: what it is (free, a stack, a    *)
(* root, a table of one of two levels, a page), the root of the space it is *)
(* part of, and the one entry that refers to it.  Owned(m, o) says that the *)
(* free list and the entries of all tables agree with the owners o.  Every  *)
(* operation on frames is followed by owners of its own that agree with it, *)
(* and by what it leaves of the memory that a space shows, View(m, o, root) *)
(* (mapping, unmapping, loading, cloning, a store; one part each).          *)
(***************************************************************************)
EXTENDS Memory, FiniteSetTheorems, WellFoundedInduction, TLAPS

------------------------------------------------------------------------------
(* Folds *)

\* Induction: a set of numbers with 0 and the successor of each of its members
\* has them all.
LEMMA Induction ==
    ASSUME NEW P, 0 \in P, \A k \in Nat : k \in P => k + 1 \in P
    PROVE  Nat \subseteq P
<1> DEFINE R == OpToRel(<, Nat)
           Bad == Nat \ P
<1>1. \A x, y \in Nat : x < y => <<x, y>> \in R BY DEF OpToRel
<1>2. IsWellFoundedOn(R, Nat) BY NatLessThanWellFounded
<1> HIDE DEF R
<1> SUFFICES ASSUME Bad # {} PROVE FALSE OBVIOUS
<1>3. Bad \subseteq Nat OBVIOUS
<1> HIDE DEF Bad
<1>4. PICK k \in Bad : \A j \in Bad : <<j, k>> \notin R BY <1>2, <1>3, WFMin
<1> USE DEF Bad
<1>5. k \in Nat \ {0} BY <1>4
<1>6. k - 1 \in Nat /\ k - 1 < k /\ k - 1 + 1 = k BY <1>5
<1>7. k - 1 \in Bad BY <1>4, <1>6
<1> QED BY <1>1, <1>4, <1>5, <1>6, <1>7

\* The greatest element of a set of indices.
LEMMA MaxIndex ==
    ASSUME NEW len \in Nat, NEW s \in SUBSET (1 .. len), s # {}
    PROVE  Max(s) \in s /\ \A x \in s : x <= Max(s)
<1> DEFINE P == {k \in Nat : \A t \in SUBSET (1 .. k) :
                   t # {} => \E x \in t : \A y \in t : x >= y}
<1>1. 0 \in P
  <2>1. \A t \in SUBSET (1 .. 0) : t = {} OBVIOUS
  <2> QED BY <2>1
<1>2. ASSUME NEW k \in Nat, k \in P PROVE k + 1 \in P
  <2> SUFFICES ASSUME NEW t \in SUBSET (1 .. k + 1), t # {}
               PROVE  \E x \in t : \A y \in t : x >= y
    OBVIOUS
  <2>1. CASE k + 1 \in t BY <2>1
  <2>2. CASE k + 1 \notin t
    <3>1. t \in SUBSET (1 .. k) BY <2>2
    <3> QED BY <1>2, <3>1
  <2> QED BY <2>1, <2>2
<1> HIDE DEF P
<1>3. Nat \subseteq P BY <1>1, <1>2, Induction
<1>4. \E x \in s : \A y \in s : x >= y BY <1>3 DEF P
<1> QED BY <1>4 DEF Max

LEMMA MaxOfPrefix ==
    ASSUME NEW k \in Nat \ {0}
    PROVE  Max(1 .. k) = k /\ (1 .. k) \ {k} = 1 .. k - 1
<1>1. Max(1 .. k) \in 1 .. k /\ k <= Max(1 .. k) BY MaxIndex, 1 .. k \in SUBSET (1 .. k), k \in 1 .. k
<1> QED BY <1>1

\* The steps of a fold on a set St, and its values before and after each step.
Steps(len, St) == [1 .. len -> [St -> St]]
Values(g, b, len, step, St, r) ==
    /\ g \in [0 .. len -> St] /\ g[0] = b /\ g[len] = r
    /\ \A k \in 1 .. len : g[k] = step[k][g[k - 1]]
Solves(f, b, len, step, St) ==
    /\ f \in [SUBSET (1 .. len) -> St]
    /\ \A s \in SUBSET (1 .. len) :
          f[s] = IF s = {} THEN b ELSE step[Max(s)][f[s \ {Max(s)}]]
\* Of a solution it only the steps from a value in St are known.
StepsSolve(it, b, len, step, St) ==
    /\ it[{}] = b
    /\ \A s \in SUBSET (1 .. len) :
          s # {} /\ it[s \ {Max(s)}] \in St => it[s] = step[Max(s)][it[s \ {Max(s)}]]

\* The equation of a fold has a solution, whatever the step on a set St.
LEMMA FoldExists ==
    ASSUME NEW St, NEW b \in St, NEW len \in Nat, NEW step \in Steps(len, St)
    PROVE  \E f : Solves(f, b, len, step, St)
<1> USE DEF Steps
<1> DEFINE Solving(k, f) == \A s \in SUBSET (1 .. k) :
                 f[s] = IF s = {} THEN b ELSE step[Max(s)][f[s \ {Max(s)}]]
           Solved(k) == k <= len => \E f \in [SUBSET (1 .. k) -> St] : Solving(k, f)
           P == {k \in Nat : Solved(k)}
<1>1. Solved(0)
  <2> DEFINE f == [s \in SUBSET (1 .. 0) |-> b]
  <2>1. \A s \in SUBSET (1 .. 0) : s = {} OBVIOUS
  <2>2. f \in [SUBSET (1 .. 0) -> St] OBVIOUS
  <2>3. Solving(0, f) BY <2>1
  <2> QED BY <2>2, <2>3
<1>2. ASSUME NEW k \in Nat, Solved(k) PROVE Solved(k + 1)
  <2> SUFFICES ASSUME k + 1 <= len
               PROVE  \E f \in [SUBSET (1 .. k + 1) -> St] : Solving(k + 1, f)
    OBVIOUS
  <2>0. k <= len OBVIOUS
  <2>1. PICK f \in [SUBSET (1 .. k) -> St] : Solving(k, f) BY <1>2, <2>0
  <2> DEFINE g == [s \in SUBSET (1 .. k + 1) |->
                     IF k + 1 \in s THEN step[k + 1][f[s \ {k + 1}]] ELSE f[s]]
  <2>2. \A s \in SUBSET (1 .. k + 1) : s \ {k + 1} \in SUBSET (1 .. k)
    <3>1. \A x \in 1 .. k + 1 : x # k + 1 => x \in 1 .. k OBVIOUS
    <3> QED BY <3>1
  <2>3. \A s \in SUBSET (1 .. k + 1) : k + 1 \notin s => s \in SUBSET (1 .. k) BY <2>2
  <2>4. k + 1 \in 1 .. len OBVIOUS
  <2>5. g \in [SUBSET (1 .. k + 1) -> St] BY <2>2, <2>3, <2>4
  <2>6. ASSUME NEW s \in SUBSET (1 .. k + 1)
        PROVE  g[s] = IF s = {} THEN b ELSE step[Max(s)][g[s \ {Max(s)}]]
    <3>1. CASE k + 1 \in s
      <4>1. Max(s) = k + 1 
        <5>1. Max(s) \in s /\ k + 1 <= Max(s) BY <3>1, MaxIndex, k + 1 \in Nat
        <5>2. Max(s) \in 1 .. k + 1 BY <5>1
        <5> QED BY ONLY <5>1, <5>2, k \in Nat
      <4>2. g[s \ {k + 1}] = f[s \ {k + 1}] BY <2>2
      <4> QED BY <3>1, <4>1, <4>2
    <3>2. CASE k + 1 \notin s
      <4>1. s \in SUBSET (1 .. k) /\ g[s] = f[s] BY <2>3, <3>2
      <4>2. s # {} => Max(s) \in s BY <4>1, MaxIndex
      <4>3. s # {} => g[s \ {Max(s)}] = f[s \ {Max(s)}] BY <3>2, <4>1
      <4> QED BY <2>1, <4>1, <4>2, <4>3
    <3> QED BY <3>1, <3>2
  <2> HIDE DEF g
  <2>7. Solving(k + 1, g) BY <2>6
  <2> QED BY <2>5, <2>7
<1> HIDE DEF Solved
<1>3. 0 \in P /\ \A k \in Nat : k \in P => k + 1 \in P BY <1>1, <1>2
<1> HIDE DEF P
<1>4. len \in P BY <1>3, Induction
<1>5. Solved(len) BY <1>4 DEF P
<1>6. len <= len OBVIOUS
<1> QED BY <1>5, <1>6 DEF Solved, Solves

\* And from what is known of a solution follow the values at each index.
LEMMA FoldSteps ==
    ASSUME NEW St, NEW b \in St, NEW len \in Nat, NEW step \in Steps(len, St),
           NEW it, StepsSolve(it, b, len, step, St)
    PROVE  \E g : Values(g, b, len, step, St, it[1 .. len])
<1> USE DEF Steps, StepsSolve
<1> DEFINE g == [k \in 0 .. len |-> it[1 .. k]]
<1>1. g[0] = b
  <2>1. 1 .. 0 = {} OBVIOUS
  <2>2. g[0] = it[1 .. 0] OBVIOUS
  <2> QED BY <2>1, <2>2
<1>2. ASSUME NEW k \in 1 .. len, g[k - 1] \in St PROVE g[k] = step[k][g[k - 1]]
  <2>1. 1 .. k \in SUBSET (1 .. len) OBVIOUS
  <2>2. 1 .. k # {}
    <3>1. k \in 1 .. k OBVIOUS
    <3> QED BY ONLY <3>1
  <2>3. Max(1 .. k) = k /\ (1 .. k) \ {k} = 1 .. k - 1 BY MaxOfPrefix
  <2>4. g[k - 1] = it[1 .. k - 1] /\ g[k] = it[1 .. k] OBVIOUS
  <2> HIDE DEF g
  <2> QED BY <1>2, <2>1, <2>2, <2>3, <2>4
<1>3. g[len] = it[1 .. len] OBVIOUS
<1>4. g = [k \in 0 .. len |-> g[k]] OBVIOUS
<1> HIDE DEF g
<1>5. \A k \in 0 .. len : g[k] \in St
  <2> DEFINE P == {k \in Nat : k <= len => g[k] \in St}
  <2>1. 0 \in P BY <1>1
  <2>2. ASSUME NEW k \in Nat, k \in P PROVE k + 1 \in P
    <3> SUFFICES ASSUME k + 1 <= len PROVE g[k + 1] \in St OBVIOUS
    <3>1. k + 1 \in 1 .. len /\ k + 1 - 1 = k OBVIOUS
    <3>2. g[k] \in St BY <2>2
    <3>3. g[k + 1] = step[k + 1][g[k]] BY <1>2, <3>1, <3>2
    <3> QED BY <3>1, <3>2, <3>3
  <2> HIDE DEF P
  <2>3. Nat \subseteq P BY <2>1, <2>2, Induction
  <2> QED BY <2>3 DEF P
<1>6. g \in [0 .. len -> St] BY <1>4, <1>5
<1>7. \A k \in 1 .. len : g[k] = step[k][g[k - 1]]
  <2> TAKE k \in 1 .. len
  <2>1. k - 1 \in 0 .. len OBVIOUS
  <2> QED BY <1>2, <1>5, <2>1
<1> QED BY <1>1, <1>3, <1>6, <1>7 DEF Values

------------------------------------------------------------------------------
(* Types *)

Words == Procs \cup {0, Null}
         \cup UNION {{im.segs[i].data : i \in DOMAIN im.segs} : im \in Images}
Flags == {"V", "R", "W", "X", "U", "G"}
Ptes == {e \in [ppn : Frames, flags : SUBSET Flags] : "V" \in e.flags \/ e = null_pte}
Contents == [pte : [0 .. 1 -> Ptes], data : [0 .. PAGE_SIZE - 1 -> Words]]

\* What the operators work on.
M == [mem : [Frames -> Contents], free : Seq(Pool), page : Frames, ok : BOOLEAN]

LEMMA PageSplit ==
    ASSUME NEW page \in UserPages
    PROVE  /\ page \in 0 .. 3 /\ VPN1(page) \in 0 .. 1 /\ VPN0(page) \in 0 .. 1
           /\ page = 2 * VPN1(page) + VPN0(page)
BY DEF UserPages, VPN1, VPN0, PTE_CNT

LEMMA FrameKinds ==
    /\ Pool \subseteq Frames /\ {main_pt2, main_pt1, NoFrame} \subseteq Frames
    /\ {main_pt2, main_pt1, NoFrame} \cap Pool = {}
    /\ main_pt2 # main_pt1 /\ main_pt2 # NoFrame /\ main_pt1 # NoFrame
    /\ \A f \in Frames : f \in Pool \/ f = main_pt2 \/ f = main_pt1 \/ f = NoFrame
BY MemoryAssumption DEF Pool, main_pt2, main_pt1, NoFrame, Frames

LEMMA NullTyped ==
    /\ null_pte \in Ptes /\ Zeroed \in Contents /\ Junk \in Contents
    /\ \A i \in 0 .. 1 : Zeroed.pte[i] = null_pte /\ Junk.pte[i] = null_pte
    /\ "V" \notin null_pte.flags
<1>1. null_pte \in Ptes /\ "V" \notin null_pte.flags BY FrameKinds DEF null_pte, Ptes, Flags
<1>2. 0 \in Words /\ Null \in Words BY DEF Words
<1>3. Zeroed \in Contents /\ \A i \in 0 .. 1 : Zeroed.pte[i] = null_pte
  BY <1>1, <1>2 DEF Zeroed, Contents, PTE_CNT
<1>4. Junk \in Contents /\ Junk.pte = Zeroed.pte BY <1>2, <1>3 DEF Junk, Contents
<1> QED BY <1>1, <1>3, <1>4

\* A change of one entry, and nothing else.
SetPte(m, pt, i, e) == [m EXCEPT !.mem[pt].pte[i] = e]

IsSet(m, r, pt, i, e) ==
    /\ r \in M /\ r.free = m.free /\ r.page = m.page /\ r.ok = m.ok
    /\ \A f \in Frames : r.mem[f].data = m.mem[f].data
    /\ \A f \in Frames : f # pt => r.mem[f] = m.mem[f]
    /\ \A f \in Frames, j \in 0 .. 1 :
          r.mem[f].pte[j] = IF f = pt /\ j = i THEN e ELSE m.mem[f].pte[j]

LEMMA SetPteIs ==
    ASSUME NEW m \in M, NEW pt \in Frames, NEW i \in 0 .. 1, NEW e \in Ptes
    PROVE  IsSet(m, SetPte(m, pt, i, e), pt, i, e)
BY DEF SetPte, M, Contents, IsSet

LEMMA AllocIs ==
    ASSUME NEW m \in M
    PROVE  LET r == memory_alloc_page(m) IN
           /\ r \in M /\ (r.ok => m.ok)
           /\ r.ok => /\ m.free # <<>> /\ r.page = Head(m.free) /\ r.page \in Pool
                      /\ r.free = Tail(m.free)
                      /\ r.mem[r.page] = Zeroed
                      /\ \A f \in Frames : f # r.page => r.mem[f] = m.mem[f]
<1>1. CASE m.free = <<>> BY <1>1, FrameKinds DEF M, memory_alloc_page
<1>2. CASE m.free # <<>>
  <2>1. Head(m.free) \in Pool /\ Tail(m.free) \in Seq(Pool) BY <1>2 DEF M
  <2>2. Head(m.free) \in Frames BY <2>1, FrameKinds
  <2> QED BY <1>2, <2>1, <2>2, NullTyped DEF M, memory_alloc_page
<1> QED BY <1>1, <1>2

LEMMA FreeIs ==
    ASSUME NEW m \in M, NEW pp \in Pool
    PROVE  LET r == memory_free_page(m, pp) IN
           /\ r \in M /\ r.free = <<pp>> \o m.free /\ r.page = m.page /\ r.ok = m.ok
           /\ r.mem[pp] = Junk
           /\ \A f \in Frames : f # pp => r.mem[f] = m.mem[f]
<1>1. pp \in Frames BY FrameKinds
<1>2. <<pp>> \o m.free \in Seq(Pool) BY DEF M
<1> QED BY <1>1, <1>2, NullTyped DEF M, memory_free_page

------------------------------------------------------------------------------
(* Owners *)

\* Who has a frame: what it is, the root of the space it is part of, and the
\* entry that refers to it, which a frame that was just allocated lacks.
Tabs == {"root", "pt1", "pt0"}
Kids == {"pt1", "pt0", "page"}
Kinds == {"free", "stack", "kernel"} \cup Tabs \cup Kids
Kid(k) == IF k = "root" THEN "pt1" ELSE IF k = "pt1" THEN "pt0" ELSE "page"
Detached == <<NoFrame, 0>>
Owners == [Frames -> [kind : Kinds, root : Frames, up : Frames \X (0 .. 1)]]

kernel_pte == ptab_pte(main_pt1, {"G"})
TableEntry(e) == e.flags = {"V"}
LeafEntry(e) == {"V", "R"} \subseteq e.flags /\ e.flags \subseteq {"V", "R", "W", "X", "U"}

\* The entry i of a page table f is empty, the kernel's, or refers to a frame
\* that only it refers to.
EntryOK(m, o, f, i) ==
    LET e == m.mem[f].pte[i]
    IN \/ e = null_pte
       \/ o[f].kind = "root" /\ i = 0 /\ e = kernel_pte
       \/ /\ o[f].kind = "root" => i = 1
          /\ IF o[f].kind = "pt0" THEN LeafEntry(e) ELSE TableEntry(e)
          /\ e.ppn \in Pool
          /\ o[e.ppn] = [kind |-> Kid(o[f].kind), root |-> o[f].root, up |-> <<f, i>>]

\* The entry above a frame c refers to c.
UpOK(m, o, c) ==
    LET pt == o[c].up[1]
        i == o[c].up[2]
        e == m.mem[pt].pte[i]
    IN e.ppn = c /\ "V" \in e.flags /\ o[pt].kind \in Tabs /\ Kid(o[pt].kind) = o[c].kind

Tree(m, o) ==
    /\ \A f \in Frames, i \in 0 .. 1 : o[f].kind \in Tabs => EntryOK(m, o, f, i)
    /\ \A c \in Frames : o[c].kind \in Kids /\ o[c].up # Detached => UpOK(m, o, c)
    /\ \A f \in Frames : o[f].kind = "root" => o[f].root = f

FreeList(m, o) ==
    /\ \A i \in DOMAIN m.free : o[m.free[i]].kind = "free"
    /\ \A f \in Frames : o[f].kind = "free" => \E i \in DOMAIN m.free : m.free[i] = f
    /\ \A i, j \in DOMAIN m.free : m.free[i] = m.free[j] => i = j

Owned(m, o) ==
    /\ o \in Owners
    /\ o[main_pt2].kind = "root"
    /\ \A f \in Frames : o[f].kind = "kernel" <=> f \in {main_pt1, NoFrame}
    /\ FreeList(m, o) /\ Tree(m, o)

Give(o, f, k, rt) == [o EXCEPT ![f] = [kind |-> k, root |-> rt, up |-> Detached]]
Put(o, c, pt, i) == [o EXCEPT ![c] = [kind |-> o[c].kind, root |-> o[c].root, up |-> <<pt, i>>]]

\* What is allocated was free, and becomes what it is wanted for.
LEMMA AllocKeeps ==
    ASSUME NEW m \in M, NEW o, Owned(m, o), memory_alloc_page(m).ok,
           NEW k \in Kinds \ {"free", "kernel"}, NEW rt \in Frames,
           k = "root" => rt = memory_alloc_page(m).page
    PROVE  LET r == memory_alloc_page(m) IN
           o[r.page].kind = "free" /\ Owned(r, Give(o, r.page, k, rt))
<1> DEFINE r == memory_alloc_page(m)
           o2 == Give(o, r.page, k, rt)
<1>0. k = "root" => rt = r.page OBVIOUS
<1>1. /\ r \in M /\ m.free # <<>> /\ r.page = Head(m.free) /\ r.page \in Pool
      /\ r.free = Tail(m.free) /\ r.mem[r.page] = Zeroed
      /\ \A f \in Frames : f # r.page => r.mem[f] = m.mem[f]
  BY AllocIs
<1> HIDE DEF r
<1>2. m.free \in Seq(Pool) /\ 1 \in DOMAIN m.free /\ r.page = m.free[1] BY <1>1 DEF M
<1>3. o[r.page].kind = "free" BY <1>2 DEF Owned, FreeList
<1>4. r.page \in Frames /\ NoFrame \in Frames BY <1>1, FrameKinds
<1>5. o2 \in Owners BY <1>4 DEF Owned, Owners, Give, Detached
<1>6. /\ o2[r.page] = [kind |-> k, root |-> rt, up |-> Detached]
      /\ \A f \in Frames : f # r.page => o2[f] = o[f]
  BY <1>4 DEF Owned, Owners, Give
<1> HIDE DEF o2
<1>7. FreeList(r, o2)
  <2>1. Len(m.free) \in Nat \ {0} /\ DOMAIN m.free = 1 .. Len(m.free)
        /\ DOMAIN r.free = 1 .. Len(m.free) - 1
        /\ \A i \in DOMAIN r.free : i + 1 \in DOMAIN m.free /\ r.free[i] = m.free[i + 1]
    BY <1>1, <1>2
  <2>2. \A i \in DOMAIN m.free : m.free[i] \in Frames BY <1>2, FrameKinds
  <2>3. \A i \in DOMAIN r.free : r.free[i] # r.page BY SMTT(30), <1>2, <2>1 DEF Owned, FreeList
  <2>4. \A i \in DOMAIN m.free : i # 1 => i - 1 \in DOMAIN r.free /\ r.free[i - 1] = m.free[i] BY <2>1
  <2>5. \A i \in DOMAIN r.free : o2[r.free[i]].kind = "free"
    BY <1>6, <2>1, <2>2, <2>3 DEF Owned, FreeList
  <2>6. \A f \in Frames : o2[f].kind = "free" => \E i \in DOMAIN r.free : r.free[i] = f
    <3> SUFFICES ASSUME NEW f \in Frames, o2[f].kind = "free"
                 PROVE  \E i \in DOMAIN r.free : r.free[i] = f
      OBVIOUS
    <3>1. f # r.page /\ o[f].kind = "free" BY <1>6
    <3>2. PICK i \in DOMAIN m.free : m.free[i] = f BY <3>1 DEF Owned, FreeList
    <3> QED BY <1>2, <2>4, <3>1, <3>2
  <2>7. \A i, j \in DOMAIN r.free : r.free[i] = r.free[j] => i = j
    <3> SUFFICES ASSUME NEW i \in DOMAIN r.free, NEW j \in DOMAIN r.free, r.free[i] = r.free[j]
                 PROVE  i = j
      OBVIOUS
    <3>1. i + 1 \in DOMAIN m.free /\ j + 1 \in DOMAIN m.free /\ m.free[i + 1] = m.free[j + 1]
      BY <2>1
    <3>2. i + 1 = j + 1 BY <3>1 DEF Owned, FreeList
    <3> QED BY <2>1, <3>2
  <2> QED BY <2>5, <2>6, <2>7 DEF FreeList
<1>8. Tree(r, o2)
  <2>1. ASSUME NEW f \in Frames, NEW i \in 0 .. 1, o2[f].kind \in Tabs
        PROVE  EntryOK(r, o2, f, i)
    <3>1. CASE f = r.page BY <1>1, <3>1, NullTyped DEF EntryOK
    <3>2. CASE f # r.page
      <4>1. EntryOK(m, o, f, i) BY <1>6, <2>1, <3>2 DEF Owned, Tree
      <4>2. r.mem[f].pte[i] = m.mem[f].pte[i] /\ o2[f] = o[f] BY <1>1, <1>6, <3>2
      <4>3. \A c \in Pool : o[c].kind # "free" => o2[c] = o[c] BY SMTT(30), <1>3, <1>6, FrameKinds
      <4> QED BY <4>1, <4>2, <4>3 DEF EntryOK, Kid
    <3> QED BY <3>1, <3>2
  <2>2. ASSUME NEW c \in Frames, o2[c].kind \in Kids, o2[c].up # Detached
        PROVE  UpOK(r, o2, c)
    <3>1. c # r.page /\ o2[c] = o[c] BY <1>6, <2>2
    <3>2. UpOK(m, o, c) BY <2>2, <3>1 DEF Owned, Tree
    <3>3. o[c].up[1] \in Frames BY DEF Owned, Owners
    <3>4. o[c].up[1] # r.page BY <1>3, <3>2 DEF UpOK, Tabs
    <3>5. r.mem[o[c].up[1]] = m.mem[o[c].up[1]] /\ o2[o[c].up[1]] = o[o[c].up[1]]
      BY <1>1, <1>6, <3>3, <3>4
    <3> QED BY <3>1, <3>2, <3>5 DEF UpOK
  <2>3. \A f \in Frames : o2[f].kind = "root" => o2[f].root = f
    BY <1>0, <1>6 DEF Owned, Tree
  <2> QED BY <2>1, <2>2, <2>3 DEF Tree
<1>9. o2[main_pt2].kind = "root" BY <1>3, <1>6, FrameKinds DEF Owned
<1>10. \A f \in Frames : o2[f].kind = "kernel" <=> f \in {main_pt1, NoFrame}
  BY <1>1, <1>6, FrameKinds DEF Owned
<1>11. Owned(r, o2) BY <1>5, <1>7, <1>8, <1>9, <1>10 DEF Owned
<1> QED BY <1>3, <1>11 DEF r, o2

\* An entry that is set refers to a frame that nothing referred to.
LEMMA PutKeeps ==
    ASSUME NEW m \in M, NEW o, Owned(m, o),
           NEW pt \in Frames, NEW i \in 0 .. 1, NEW c \in Pool, NEW e \in Ptes,
           m.mem[pt].pte[i] = null_pte, e.ppn = c,
           o[pt].kind \in Tabs, o[pt].kind = "root" => i = 1,
           IF o[pt].kind = "pt0" THEN LeafEntry(e) ELSE TableEntry(e),
           o[c] = [kind |-> Kid(o[pt].kind), root |-> o[pt].root, up |-> Detached]
    PROVE  Owned(SetPte(m, pt, i, e), Put(o, c, pt, i))
<1> DEFINE r == SetPte(m, pt, i, e)
           o2 == Put(o, c, pt, i)
<1>1. /\ r \in M /\ r.free = m.free
      /\ \A f \in Frames, j \in 0 .. 1 :
            r.mem[f].pte[j] = IF f = pt /\ j = i THEN e ELSE m.mem[f].pte[j]
  BY SetPteIs DEF IsSet
<1> HIDE DEF r
<1>2. c \in Frames /\ NoFrame \in Frames BY FrameKinds
<1>3. o2 \in Owners BY <1>2 DEF Owned, Owners, Put
<1>4. /\ o2[c] = [kind |-> Kid(o[pt].kind), root |-> o[pt].root, up |-> <<pt, i>>]
      /\ \A f \in Frames : f # c => o2[f] = o[f]
      /\ \A f \in Frames : o2[f].kind = o[f].kind /\ o2[f].root = o[f].root
  <2>1. \A f \in Frames :
           o2[f] = IF f = c THEN [kind |-> o[c].kind, root |-> o[c].root, up |-> <<pt, i>>] ELSE o[f]
    BY <1>2 DEF Owned, Owners, Put
  <2> HIDE DEF o2
  <2> QED BY <1>2, <2>1
<1> HIDE DEF o2
<1>5. pt # NoFrame BY <1>2 DEF Owned, Tabs
<1>6. o[c].kind \in Kids BY DEF Kid, Kids
<1>7. FreeList(r, o2)
  <2>1. \A j \in DOMAIN m.free : m.free[j] \in Frames BY FrameKinds DEF M
  <2> QED BY <1>1, <1>4, <2>1 DEF Owned, FreeList
<1>8. ASSUME NEW f \in Frames, NEW j \in 0 .. 1, o2[f].kind \in Tabs
      PROVE  EntryOK(r, o2, f, j)
  <2>1. CASE f = pt /\ j = i BY <1>1, <1>4, <2>1 DEF EntryOK
  <2>2. CASE ~(f = pt /\ j = i)
    <3>1. EntryOK(m, o, f, j) BY <1>4, <1>8 DEF Owned, Tree
    <3>2. r.mem[f].pte[j] = m.mem[f].pte[j] BY <1>1, <2>2
    <3>3. f # NoFrame BY <1>2, <1>4, <1>8 DEF Owned, Tabs
    <3>4. \A d \in Pool : o[d].up = <<f, j>> => o2[d] = o[d]
      BY <1>4, <3>3, FrameKinds DEF Detached
    <3> QED BY <1>4, <3>1, <3>2, <3>4 DEF EntryOK
  <2> QED BY <2>1, <2>2
<1>9. ASSUME NEW d \in Frames, o2[d].kind \in Kids, o2[d].up # Detached
      PROVE  UpOK(r, o2, d)
  <2>1. CASE d = c BY SMTT(30), <1>1, <1>4, <2>1 DEF UpOK, LeafEntry, TableEntry
  <2>2. CASE d # c
    <3>1. o2[d] = o[d] /\ UpOK(m, o, d) BY <1>4, <1>9, <2>2 DEF Owned, Tree
    <3>2. o[d].up[1] \in Frames /\ o[d].up[2] \in 0 .. 1 BY DEF Owned, Owners
    <3>3. r.mem[o[d].up[1]].pte[o[d].up[2]] = m.mem[o[d].up[1]].pte[o[d].up[2]]
      BY <1>1, <3>1, <3>2, NullTyped DEF UpOK
    <3> QED BY ZenonT(30), <1>4, <3>1, <3>2, <3>3 DEF UpOK
  <2> QED BY SMTT(30), <2>1, <2>2
<1>10. Tree(r, o2)
  <2>1. \A f \in Frames : o2[f].kind = "root" => o2[f].root = f BY <1>4 DEF Owned, Tree
  <2> QED BY <1>8, <1>9, <2>1 DEF Tree
<1>11. Owned(r, o2) BY <1>3, <1>4, <1>7, <1>10, FrameKinds DEF Owned
<1> QED BY <1>11 DEF r, o2

\* The flags of a page change.
LEMMA FlagsKeep ==
    ASSUME NEW m \in M, NEW o, Owned(m, o),
           NEW pt \in Frames, NEW i \in 0 .. 1, NEW e \in Ptes,
           o[pt].kind = "pt0", m.mem[pt].pte[i] # null_pte,
           LeafEntry(e), e.ppn = m.mem[pt].pte[i].ppn
    PROVE  Owned(SetPte(m, pt, i, e), o)
<1> DEFINE r == SetPte(m, pt, i, e)
<1>1. /\ r \in M /\ r.free = m.free
      /\ \A f \in Frames, j \in 0 .. 1 :
            r.mem[f].pte[j] = IF f = pt /\ j = i THEN e ELSE m.mem[f].pte[j]
  BY SMTT(30), SetPteIs DEF IsSet
<1> HIDE DEF r
<1>2. FreeList(r, o) BY <1>1 DEF Owned, FreeList
<1>3. EntryOK(m, o, pt, i) BY DEF Owned, Tree, Tabs
<1>4. ASSUME NEW f \in Frames, NEW j \in 0 .. 1, o[f].kind \in Tabs
      PROVE  EntryOK(r, o, f, j)
  <2>1. EntryOK(m, o, f, j) BY <1>4 DEF Owned, Tree
  <2>2. CASE f = pt /\ j = i BY <1>1, <1>3, <2>2 DEF EntryOK
  <2>3. CASE ~(f = pt /\ j = i) BY SMTT(30), <1>1, <2>1, <2>3 DEF EntryOK
  <2> QED BY <2>2, <2>3
<1>5. ASSUME NEW d \in Frames, o[d].kind \in Kids, o[d].up # Detached
      PROVE  UpOK(r, o, d)
  <2>1. UpOK(m, o, d) BY <1>5 DEF Owned, Tree
  <2>2. o[d].up[1] \in Frames /\ o[d].up[2] \in 0 .. 1 BY DEF Owned, Owners
  <2> QED BY <1>1, <2>1, <2>2 DEF UpOK, LeafEntry
<1>6. Tree(r, o) BY <1>4, <1>5 DEF Owned, Tree
<1>7. Owned(r, o) BY <1>2, <1>6 DEF Owned
<1> QED BY <1>7 DEF r

\* A page that is unmapped and freed.
Freed(o, c) == [o EXCEPT ![c] = [kind |-> "free", root |-> NoFrame, up |-> Detached]]

LEMMA FreeKeeps ==
    ASSUME NEW m \in M, NEW o, Owned(m, o),
           NEW pt \in Frames, NEW i \in 0 .. 1, o[pt].kind = "pt0", m.mem[pt].pte[i] # null_pte
    PROVE  LET c == m.mem[pt].pte[i].ppn
           IN c \in Pool /\ Owned(SetPte(memory_free_page(m, c), pt, i, null_pte), Freed(o, c))
<1> DEFINE c == m.mem[pt].pte[i].ppn
           m1 == memory_free_page(m, c)
           r == SetPte(m1, pt, i, null_pte)
           o2 == Freed(o, c)
<1>1. EntryOK(m, o, pt, i) BY DEF Owned, Tree, Tabs
<1>2. c \in Pool /\ o[c] = [kind |-> "page", root |-> o[pt].root, up |-> <<pt, i>>]
  BY <1>1 DEF EntryOK, Kid
<1>3. c \in Frames /\ c # pt BY <1>2, FrameKinds
<1> HIDE DEF c
<1>4. /\ m1 \in M /\ m1.free = <<c>> \o m.free /\ m1.mem[c] = Junk
      /\ \A f \in Frames : f # c => m1.mem[f] = m.mem[f]
  BY <1>2, FreeIs
<1> HIDE DEF m1
<1>5. /\ r \in M /\ r.free = <<c>> \o m.free
      /\ \A f \in Frames, j \in 0 .. 1 :
            r.mem[f].pte[j] = IF f = pt /\ j = i THEN null_pte ELSE m1.mem[f].pte[j]
  <2>1. IsSet(m1, r, pt, i, null_pte) BY <1>4, NullTyped, SetPteIs
  <2> QED BY <1>4, <2>1 DEF IsSet
<1> HIDE DEF r
<1>6. /\ o2 \in Owners
      /\ o2[c] = [kind |-> "free", root |-> NoFrame, up |-> Detached]
      /\ \A f \in Frames : f # c => o2[f] = o[f]
  BY <1>3, FrameKinds DEF Owned, Owners, Freed, Kinds, Detached
<1> HIDE DEF o2
<1>7. FreeList(r, o2)
  <2>1. m.free \in Seq(Pool) BY DEF M
  <2>2. DOMAIN m.free = 1 .. Len(m.free) /\ DOMAIN r.free = 1 .. Len(m.free) + 1
        /\ Len(m.free) \in Nat
    BY <1>2, <1>5, <2>1
  <2>3. r.free[1] = c /\ \A j \in DOMAIN m.free : j + 1 \in DOMAIN r.free /\ r.free[j + 1] = m.free[j]
    BY <1>2, <1>5, <2>1
  <2>4. \A j \in DOMAIN r.free : j # 1 => j - 1 \in DOMAIN m.free /\ r.free[j] = m.free[j - 1]
    BY <1>2, <1>5, <2>1
  <2>5. \A j \in DOMAIN m.free : m.free[j] \in Frames /\ m.free[j] # c
    BY <1>2, <2>1, FrameKinds DEF Owned, FreeList
  <2>6. \A j \in DOMAIN r.free : o2[r.free[j]].kind = "free"
    BY <1>6, <2>3, <2>4, <2>5 DEF Owned, FreeList
  <2>7. \A f \in Frames : o2[f].kind = "free" => \E j \in DOMAIN r.free : r.free[j] = f
    <3> SUFFICES ASSUME NEW f \in Frames, o2[f].kind = "free"
                 PROVE  \E j \in DOMAIN r.free : r.free[j] = f
      OBVIOUS
    <3>1. CASE f = c BY <2>2, <2>3, <3>1
    <3>2. CASE f # c
      <4>1. PICK j \in DOMAIN m.free : m.free[j] = f BY <1>6, <3>2 DEF Owned, FreeList
      <4> QED BY <2>3, <4>1
    <3> QED BY <3>1, <3>2
  <2>8. \A j, k \in DOMAIN r.free : r.free[j] = r.free[k] => j = k
    <3> SUFFICES ASSUME NEW j \in DOMAIN r.free, NEW k \in DOMAIN r.free, r.free[j] = r.free[k]
                 PROVE  j = k
      OBVIOUS
    <3>1. CASE j = 1 \/ k = 1 BY <2>3, <2>4, <2>5, <3>1
    <3>2. CASE j # 1 /\ k # 1
      <4>1. j - 1 = k - 1 BY <2>4, <3>2 DEF Owned, FreeList
      <4> QED BY <2>2, <4>1
    <3> QED BY <3>1, <3>2
  <2> QED BY <2>6, <2>7, <2>8 DEF FreeList
<1>8. ASSUME NEW f \in Frames, NEW j \in 0 .. 1, o2[f].kind \in Tabs
      PROVE  EntryOK(r, o2, f, j)
  <2>1. CASE f = pt /\ j = i BY <1>5, <2>1 DEF EntryOK
  <2>2. CASE ~(f = pt /\ j = i)
    <3>1. f # c /\ o2[f] = o[f] /\ EntryOK(m, o, f, j) BY <1>6, <1>8 DEF Owned, Tree, Tabs
    <3>2. r.mem[f].pte[j] = m.mem[f].pte[j] BY SMTT(30), <1>4, <1>5, <2>2, <3>1
    <3>3. \A d \in Pool : o[d].up = <<f, j>> => o2[d] = o[d] BY <1>2, <1>6, <2>2, FrameKinds
    <3> QED BY <3>1, <3>2, <3>3 DEF EntryOK
  <2> QED BY <2>1, <2>2
<1>9. ASSUME NEW d \in Frames, o2[d].kind \in Kids, o2[d].up # Detached
      PROVE  UpOK(r, o2, d)
  <2>1. d # c /\ o2[d] = o[d] BY <1>6, <1>9
  <2>2. UpOK(m, o, d) BY <1>9, <2>1 DEF Owned, Tree
  <2>3. o[d].up[1] \in Frames /\ o[d].up[2] \in 0 .. 1 BY SMTT(30) DEF Owned, Owners
  <2>4. o[d].up[1] # c BY <1>2, <2>2 DEF UpOK, Tabs
  <2>5. ~(o[d].up[1] = pt /\ o[d].up[2] = i) BY <2>1, <2>2 DEF UpOK, c
  <2>6. r.mem[o[d].up[1]].pte[o[d].up[2]] = m.mem[o[d].up[1]].pte[o[d].up[2]]
    <3>1. m1.mem[o[d].up[1]] = m.mem[o[d].up[1]] BY <1>4, <2>3, <2>4
    <3> QED BY ONLY ZenonT(30), <1>5, <2>3, <2>5, <3>1
  <2> QED BY <1>6, <2>1, <2>2, <2>3, <2>4, <2>6 DEF UpOK
<1>10. Tree(r, o2)
  <2>1. \A f \in Frames : o2[f].kind = "root" => o2[f].root = f BY <1>6 DEF Owned, Tree
  <2> QED BY <1>8, <1>9, <2>1 DEF Tree
<1>11. o2[main_pt2].kind = "root" BY <1>2, <1>6, FrameKinds DEF Owned
<1>12. \A f \in Frames : o2[f].kind = "kernel" <=> f \in {main_pt1, NoFrame}
  BY <1>2, <1>6, FrameKinds DEF Owned
<1>13. Owned(r, o2) BY <1>6, <1>7, <1>10, <1>11, <1>12 DEF Owned
<1> QED BY <1>2, <1>13 DEF r, o2, m1, c

------------------------------------------------------------------------------
(* Mapping a page *)

MapFlags == {fl \in SUBSET {"R", "W", "X", "U"} : {"R", "U"} \subseteq fl}

\* Where the page c is mapped: entry of entry of the entry of a root.
At(o, c, rt, page) ==
    LET g == o[c].up[1]
        h == o[g].up[1]
    IN /\ o[c].kind = "page" /\ o[g].kind = "pt0" /\ o[h].kind = "pt1"
       /\ o[c].up = <<g, VPN0(page)>>
       /\ o[g].up = <<h, VPN1(page)>>
       /\ o[h].up = <<rt, 1>>

\* What the space of rt gains: no frame that is in use gets another owner, loses
\* data, or, unless it is a table of that space, changes; of what is new, only X
\* is not referred to yet.
Grown(m, o, r, o2, rt, X) ==
    /\ r \in M /\ Owned(r, o2)
    /\ \A f \in Frames : o[f].kind # "free" =>
          /\ o2[f] = o[f] /\ r.mem[f].data = m.mem[f].data
          /\ o[f].root # rt => r.mem[f] = m.mem[f]
          /\ o[f].kind = "root" => r.mem[f].pte[0] = m.mem[f].pte[0]
    /\ \A f \in Frames : o[f].kind = "free" /\ o2[f].kind # "free" =>
          o2[f].kind \in Kids /\ o2[f].root = rt /\ (o2[f].up = Detached => f \in X)

\* The entries of the last tables that are set are those that were, and <<pt, i>>.
LeavesBut(m, o, r, o2, pt, i) ==
    \A f \in Frames, j \in 0 .. 1 : o2[f].kind = "pt0" /\ <<f, j>> # <<pt, i>> =>
        \/ r.mem[f].pte[j] = null_pte
        \/ o[f].kind = "pt0" /\ r.mem[f].pte[j] = m.mem[f].pte[j]

AllUser(m, o) ==
    \A f \in Frames, j \in 0 .. 1 : o[f].kind = "pt0" =>
        m.mem[f].pte[j] = null_pte \/ "U" \in m.mem[f].pte[j].flags

LEMMA GrownTrans ==
    ASSUME NEW m, NEW o, NEW m1, NEW o1, NEW m2, NEW o2, NEW rt,
           o \in Owners,
           Grown(m, o, m1, o1, rt, {}), Grown(m1, o1, m2, o2, rt, {})
    PROVE  Grown(m, o, m2, o2, rt, {})
<1> USE DEF Grown
<1>1. ASSUME NEW f \in Frames, o[f].kind # "free"
      PROVE  /\ o2[f] = o[f] /\ m2.mem[f].data = m.mem[f].data
             /\ o[f].root # rt => m2.mem[f] = m.mem[f]
             /\ o[f].kind = "root" => m2.mem[f].pte[0] = m.mem[f].pte[0]
  BY <1>1
<1>2. ASSUME NEW f \in Frames, o[f].kind = "free", o2[f].kind # "free"
      PROVE  o2[f].kind \in Kids /\ o2[f].root = rt /\ o2[f].up # Detached
  <2>1. CASE o1[f].kind = "free" BY <1>2, <2>1
  <2>2. CASE o1[f].kind # "free" BY <1>2, <2>2
  <2> QED BY <2>1, <2>2
<1> QED BY <1>1, <1>2

LEMMA GrownRefl ==
    ASSUME NEW m \in M, NEW o, Owned(m, o), NEW rt
    PROVE  Grown(m, o, m, o, rt, {})
BY DEF Grown

\* The entry i of pt refers to c; and c is new.
Adds(m, o, r, o2, pt, i, c) ==
    /\ Grown(m, o, r, o2, o[pt].root, {}) /\ LeavesBut(m, o, r, o2, pt, i)
    /\ c \in Pool /\ o2[c] = [kind |-> Kid(o[pt].kind), root |-> o[pt].root, up |-> <<pt, i>>]
AddsNew(m, o, r, o2, pt, i, c) ==
    /\ Adds(m, o, r, o2, pt, i, c)
    /\ o[c].kind = "free" /\ r.mem[c] = Zeroed
    /\ \A f \in Frames : f # c => o2[f] = o[f]

\* A frame that is allocated and referred to at once.
LEMMA AllocPut ==
    ASSUME NEW m \in M, NEW o, Owned(m, o), memory_alloc_page(m).ok,
           NEW pt \in Frames, NEW i \in 0 .. 1, NEW e \in Ptes,
           o[pt].kind \in Tabs, o[pt].kind = "root" => i = 1,
           m.mem[pt].pte[i] = null_pte, e.ppn = memory_alloc_page(m).page,
           IF o[pt].kind = "pt0" THEN LeafEntry(e) ELSE TableEntry(e)
    PROVE  LET a == memory_alloc_page(m)
           IN \E o2 : AddsNew(m, o, SetPte(a, pt, i, e), o2, pt, i, a.page)
<1> DEFINE a == memory_alloc_page(m)
           r == SetPte(a, pt, i, e)
           c == a.page
           k == Kid(o[pt].kind)
           o1 == Give(o, c, k, o[pt].root)
           o2 == Put(o1, c, pt, i)
<1>1. /\ a \in M /\ c \in Pool /\ a.mem[c] = Zeroed
      /\ \A f \in Frames : f # c => a.mem[f] = m.mem[f]
  BY AllocIs
<1>2. k \in Kinds \ {"free", "kernel"} /\ k # "root" /\ k \in Kids BY DEF Kid, Kinds, Kids
<1>3. o \in Owners /\ o[pt].root \in Frames /\ c \in Frames BY <1>1, FrameKinds DEF Owned, Owners
<1>4. o[c].kind = "free" /\ Owned(a, o1) BY <1>2, <1>3, AllocKeeps
<1>5. pt # c BY <1>4 DEF Tabs
<1> HIDE DEF a, k
<1>6. /\ o1[c] = [kind |-> k, root |-> o[pt].root, up |-> Detached]
      /\ \A f \in Frames : f # c => o1[f] = o[f]
  BY <1>3 DEF Give, Owners
<1> HIDE DEF o1
<1>7. o1[pt] = o[pt] /\ a.mem[pt] = m.mem[pt] BY <1>1, <1>5, <1>6
<1>8. Owned(r, o2)
  <2>1. e.ppn = c BY DEF a
  <2> QED BY <1>1, <1>4, <1>6, <1>7, <2>1, PutKeeps DEF k
<1>9. IsSet(a, r, pt, i, e) BY <1>1, SetPteIs
<1> HIDE DEF r
<1>10. /\ o2[c] = [kind |-> k, root |-> o[pt].root, up |-> <<pt, i>>]
       /\ \A f \in Frames : f # c => o2[f] = o[f]
  <2>1. o1 \in Owners BY <1>4 DEF Owned
  <2>2. \A f \in Frames :
           o2[f] = IF f = c THEN [kind |-> o1[c].kind, root |-> o1[c].root, up |-> <<pt, i>>] ELSE o1[f]
    BY <1>3, <2>1 DEF Put, Owners
  <2> HIDE DEF o2
  <2> QED BY <1>3, <1>6, <2>2
<1> HIDE DEF o2, c
<1>11. Grown(m, o, r, o2, o[pt].root, {})
  <2>1. r \in M BY <1>9 DEF IsSet
  <2>2. ASSUME NEW f \in Frames, o[f].kind # "free"
        PROVE  /\ o2[f] = o[f] /\ r.mem[f].data = m.mem[f].data
               /\ o[f].root # o[pt].root => r.mem[f] = m.mem[f]
               /\ o[f].kind = "root" => r.mem[f].pte[0] = m.mem[f].pte[0]
    <3>1. f # c /\ o2[f] = o[f] /\ a.mem[f] = m.mem[f] BY <1>1, <1>4, <1>10, <2>2
    <3>2. o[f].kind = "root" => ~(f = pt /\ 0 = i) OBVIOUS
    <3> QED BY <1>9, <3>1, <3>2 DEF IsSet
  <2>3. pt # NoFrame BY FrameKinds DEF Owned, Tabs
  <2>4. \A f \in Frames : o[f].kind = "free" /\ o2[f].kind # "free" =>
          o2[f].kind \in Kids /\ o2[f].root = o[pt].root /\ o2[f].up # Detached
    BY <1>2, <1>10, <2>3 DEF Detached
  <2> QED BY <1>8, <2>1, <2>2, <2>4 DEF Grown
<1>12. LeavesBut(m, o, r, o2, pt, i)
  <2> SUFFICES ASSUME NEW f \in Frames, NEW j \in 0 .. 1, o2[f].kind = "pt0", <<f, j>> # <<pt, i>>
               PROVE  \/ r.mem[f].pte[j] = null_pte
                      \/ o[f].kind = "pt0" /\ r.mem[f].pte[j] = m.mem[f].pte[j]
    BY DEF LeavesBut
  <2>1. r.mem[f].pte[j] = a.mem[f].pte[j] BY <1>9 DEF IsSet
  <2> QED BY <1>1, <1>10, <2>1, NullTyped
<1>13. r.mem[c] = Zeroed BY <1>1, <1>3, <1>5, <1>9 DEF IsSet
<1>14. AddsNew(m, o, r, o2, pt, i, c)
  BY <1>1, <1>4, <1>10, <1>11, <1>12, <1>13 DEF AddsNew, Adds, k
<1> QED BY <1>14 DEF a, r, c

\* The steps of a mapping are of the type of what they work on, and do not find
\* pages once there were none.
LEMMA TableTyped ==
    ASSUME NEW m \in M, NEW pt \in Frames, NEW i \in 0 .. 1
    PROVE  Table(m, pt, i) \in M /\ (Table(m, pt, i).ok => m.ok)
<1> DEFINE a == memory_alloc_page(m)
           e == ptab_pte(a.page, {})
<1>1. CASE IsTable(m.mem[pt].pte[i])
  <2>1. m.mem[pt].pte[i].ppn \in Frames BY DEF M, Contents, Ptes
  <2> QED BY <1>1, <2>1 DEF Table, M
<1>2. CASE ~IsTable(m.mem[pt].pte[i])
  <2>1. a \in M /\ (a.ok => m.ok) BY AllocIs
  <2>2. a.page \in Frames BY <2>1 DEF M
  <2>3. e \in Ptes BY <2>2 DEF ptab_pte, Ptes, Flags
  <2>4. Table(m, pt, i) = SetPte(a, pt, i, e) BY <1>2 DEF Table, SetPte
  <2> HIDE DEF a, e
  <2> QED BY <2>1, <2>3, <2>4, SetPteIs DEF IsSet
<1> QED BY <1>1, <1>2

LEMMA LeafTyped ==
    ASSUME NEW m \in M, NEW pt \in Frames, NEW i \in 0 .. 1
    PROVE  Leaf(m, pt, i) \in M /\ (Leaf(m, pt, i).ok => m.ok)
<1> DEFINE a == memory_alloc_page(m)
           e == leaf_pte(a.page, {"R"})
<1>1. CASE verify_flags(m.mem[pt].pte[i].flags) BY <1>1 DEF Leaf
<1>2. CASE ~verify_flags(m.mem[pt].pte[i].flags)
  <2>1. a \in M /\ (a.ok => m.ok) BY AllocIs
  <2>2. a.page \in Frames BY <2>1 DEF M
  <2>3. e \in Ptes BY <2>2 DEF leaf_pte, Ptes, Flags
  <2>4. Leaf(m, pt, i) = SetPte(a, pt, i, e) BY SMTT(30), <1>2 DEF Leaf, SetPte
  <2> HIDE DEF a, e
  <2> QED BY <2>1, <2>3, <2>4, SetPteIs DEF IsSet
<1> QED BY <1>1, <1>2

LEMMA WalkTyped ==
    ASSUME NEW m \in M, NEW rt \in Frames, NEW page \in UserPages
    PROVE  \/ walk_pt(m, rt, page) = {}
           \/ \E pt \in Frames : walk_pt(m, rt, page) = {<<pt, VPN0(page)>>}
<1>1. \A f \in Frames, i \in 0 .. 1 : m.mem[f].pte[i].ppn \in Frames BY DEF M, Contents, Ptes
<1> DEFINE e2 == m.mem[rt].pte[1]
           e1 == m.mem[e2.ppn].pte[VPN1(page)]
<1>2. VPN1(page) \in 0 .. 1 BY PageSplit
<1>3. e2.ppn \in Frames BY <1>1
<1>4. e1.ppn \in Frames BY SMTT(30), <1>1, <1>2, <1>3
<1>5. walk_pt(m, rt, page) \in {{}, {<<e1.ppn, VPN0(page)>>}} BY Zenon DEF walk_pt
<1> QED BY Zenon, <1>4, <1>5

LEMMA FlagsTyped ==
    ASSUME NEW m \in M, NEW rt \in Frames, NEW page \in UserPages, NEW fl \in SUBSET Flags
    PROVE  LET r == memory_set_page_flags(m, rt, page, fl) IN r \in M /\ r.ok = m.ok
<1>1. CASE walk_pt(m, rt, page) = {} BY <1>1 DEF memory_set_page_flags
<1>2. CASE walk_pt(m, rt, page) # {}
  <2>1. PICK pt \in Frames : walk_pt(m, rt, page) = {<<pt, VPN0(page)>>} BY <1>2, WalkTyped
  <2> DEFINE e == leaf_pte(m.mem[pt].pte[VPN0(page)].ppn, fl)
  <2>2. m.mem[pt].pte[VPN0(page)].ppn \in Frames BY PageSplit DEF M, Contents, Ptes
  <2>3. e \in Ptes BY <2>2 DEF leaf_pte, Ptes, Flags
  <2>4. (CHOOSE x \in {<<pt, VPN0(page)>>} : TRUE) = <<pt, VPN0(page)>> OBVIOUS
  <2>5. memory_set_page_flags(m, rt, page, fl) = SetPte(m, pt, VPN0(page), e)
    BY <1>2, <2>1, <2>4 DEF memory_set_page_flags, SetPte
  <2> HIDE DEF e
  <2>6. VPN0(page) \in 0 .. 1 BY PageSplit
  <2>7. IsSet(m, SetPte(m, pt, VPN0(page), e), pt, VPN0(page), e) BY <2>3, <2>6, SetPteIs
  <2> QED BY <2>5, <2>7 DEF IsSet
<1> QED BY <1>1, <1>2

LEMMA MapTyped ==
    ASSUME NEW m \in M, NEW rt \in Frames, NEW page \in UserPages, NEW fl \in SUBSET Flags
    PROVE  LET r == memory_alloc_and_map_page(m, rt, page, fl) IN r \in M /\ (r.ok => m.ok)
<1> DEFINE m1 == Table(m, rt, 1)
           m0 == Table(m1, m1.page, VPN1(page))
           w == Leaf(m0, m0.page, VPN0(page))
<1>1. VPN1(page) \in 0 .. 1 /\ VPN0(page) \in 0 .. 1 BY PageSplit
<1>2. m1 \in M /\ (m1.ok => m.ok) BY TableTyped
<1>3. m1.page \in Frames BY <1>2 DEF M
<1> HIDE DEF m1
<1>4. m0 \in M /\ (m0.ok => m1.ok) BY <1>1, <1>2, <1>3, TableTyped
<1>5. m0.page \in Frames BY <1>4 DEF M
<1> HIDE DEF m0
<1>6. w \in M /\ (w.ok => m0.ok) BY <1>1, <1>4, <1>5, LeafTyped
<1>7. walk_pt_create(m, rt, page) = w BY DEF walk_pt_create, w, m0, m1
<1> HIDE DEF w
<1> QED BY <1>2, <1>4, <1>6, <1>7, FlagsTyped DEF memory_alloc_and_map_page

AddsTable(m, o, r, o2, pt, i) ==
    /\ Adds(m, o, r, o2, pt, i, r.page)
    /\ \A f \in Frames : o[f].kind = "free" => o2[f].kind # "page"
AddsLeaf(m, o, r, o2, pt, i, c) ==
    /\ Adds(m, o, r, o2, pt, i, c)
    /\ r.mem[pt].pte[i].ppn = c /\ LeafEntry(r.mem[pt].pte[i])
    /\ \A f \in Frames : o[f].kind = "free" /\ o2[f].kind = "page" =>
          f = c /\ r.mem[c].data = Zeroed.data

\* What a step of the walk makes of the entry i of a page table: a table below it.
LEMMA TableKeeps ==
    ASSUME NEW m \in M, NEW o, Owned(m, o),
           NEW pt \in Frames, NEW i \in 0 .. 1, Table(m, pt, i).ok,
           o[pt].kind \in {"root", "pt1"}, o[pt].kind = "root" => i = 1
    PROVE  \E o2 : AddsTable(m, o, Table(m, pt, i), o2, pt, i)
<1> DEFINE old == m.mem[pt].pte[i]
           a == memory_alloc_page(m)
           e == ptab_pte(a.page, {})
           r == Table(m, pt, i)
<1>1. EntryOK(m, o, pt, i) BY DEF Owned, Tree, Tabs
<1>2. Kid(o[pt].kind) # "page" BY DEF Kid
<1>3. CASE old = null_pte
  <2>1. ~IsTable(old) BY <1>3, NullTyped DEF IsTable, verify_flags
  <2>2. r = SetPte(a, pt, i, e) BY <2>1 DEF Table, SetPte
  <2>3. a \in M BY AllocIs
  <2>4. a.page \in Frames BY <2>3 DEF M
  <2>5. e \in Ptes /\ e.ppn = a.page /\ TableEntry(e)
    BY <2>4 DEF ptab_pte, Ptes, Flags, TableEntry
  <2>6. a.ok BY <2>2, <2>3, <2>5, SetPteIs DEF IsSet
  <2> HIDE DEF e, r
  <2>7. PICK o2 : AddsNew(m, o, SetPte(a, pt, i, e), o2, pt, i, a.page)
    <3>1. o[pt].kind \in Tabs /\ o[pt].kind # "pt0" BY DEF Tabs
    <3> QED BY <1>3, <2>5, <2>6, <3>1, AllocPut
  <2>8. r.page = a.page BY <2>2, <2>3, <2>5, SetPteIs DEF IsSet
  <2> HIDE DEF a
  <2>9. AddsTable(m, o, r, o2, pt, i)
    BY <1>2, <2>2, <2>7, <2>8, FrameKinds DEF AddsTable, AddsNew, Adds
  <2> QED BY <2>9 DEF r
<1>4. CASE old # null_pte
  <2>1. TableEntry(old) /\ old.ppn \in Pool
        /\ o[old.ppn] = [kind |-> Kid(o[pt].kind), root |-> o[pt].root, up |-> <<pt, i>>]
    BY <1>1, <1>4 DEF EntryOK
  <2>2. IsTable(old) BY <2>1 DEF IsTable, TableEntry, verify_flags
  <2>3. r = [m EXCEPT !.page = old.ppn] BY <2>2 DEF Table
  <2>4. old.ppn \in Frames BY <2>1, FrameKinds
  <2>5. r \in M /\ r.mem = m.mem /\ r.free = m.free /\ r.page = old.ppn BY <2>3, <2>4 DEF M
  <2> HIDE DEF r, old
  <2>6. Owned(r, o)
    <3>1. FreeList(r, o) BY <2>5 DEF Owned, FreeList
    <3>2. \A f \in Frames, j \in 0 .. 1 : EntryOK(m, o, f, j) => EntryOK(r, o, f, j)
      BY SMTT(30), <2>5 DEF EntryOK
    <3>3. \A f \in Frames : UpOK(m, o, f) => UpOK(r, o, f) BY <2>5 DEF UpOK
    <3>4. Tree(r, o) BY <3>2, <3>3 DEF Owned, Tree
    <3> QED BY <3>1, <3>4 DEF Owned
  <2>7. Grown(m, o, r, o, o[pt].root, {}) BY <2>5, <2>6 DEF Grown
  <2>8. LeavesBut(m, o, r, o, pt, i) BY <2>5 DEF LeavesBut
  <2>9. AddsTable(m, o, r, o, pt, i) BY <2>1, <2>5, <2>7, <2>8 DEF AddsTable, Adds
  <2> QED BY <2>9 DEF r
<1> QED BY <1>3, <1>4

\* And of the entry of a last table: a page.
LEMMA LeafKeeps ==
    ASSUME NEW m \in M, NEW o, Owned(m, o),
           NEW pt \in Frames, NEW i \in 0 .. 1, Leaf(m, pt, i).ok, o[pt].kind = "pt0"
    PROVE  \E o2, c : AddsLeaf(m, o, Leaf(m, pt, i), o2, pt, i, c)
<1> DEFINE old == m.mem[pt].pte[i]
           a == memory_alloc_page(m)
           e == leaf_pte(a.page, {"R"})
           r == Leaf(m, pt, i)
<1>1. EntryOK(m, o, pt, i) BY DEF Owned, Tree, Tabs
<1>2. Kid(o[pt].kind) = "page" BY DEF Kid
<1>3. CASE old = null_pte
  <2>1. ~verify_flags(old.flags) BY <1>3, NullTyped DEF verify_flags
  <2>2. r = SetPte(a, pt, i, e) BY <2>1 DEF Leaf, SetPte
  <2>3. a \in M BY AllocIs
  <2>4. a.page \in Frames BY <2>3 DEF M
  <2>5. e \in Ptes /\ e.ppn = a.page /\ LeafEntry(e)
    BY <2>4 DEF leaf_pte, Ptes, Flags, LeafEntry
  <2>6. a.ok BY <2>2, <2>3, <2>5, SetPteIs DEF IsSet
  <2> HIDE DEF e, r
  <2>7. PICK o2 : AddsNew(m, o, SetPte(a, pt, i, e), o2, pt, i, a.page)
    <3>1. o[pt].kind \in Tabs /\ o[pt].kind # "root" BY DEF Tabs
    <3> QED BY <1>3, <2>5, <2>6, <3>1, AllocPut
  <2>8. r.mem[pt].pte[i] = e BY <2>2, <2>3, <2>5, SetPteIs DEF IsSet
  <2> HIDE DEF a
  <2>9. AddsLeaf(m, o, r, o2, pt, i, a.page)
    BY <1>2, <2>2, <2>5, <2>7, <2>8 DEF AddsLeaf, AddsNew, Adds
  <2> QED BY <2>9 DEF r
<1>4. CASE old # null_pte
  <2>1. LeafEntry(old) /\ old.ppn \in Pool
        /\ o[old.ppn] = [kind |-> "page", root |-> o[pt].root, up |-> <<pt, i>>]
    BY <1>1, <1>2, <1>4 DEF EntryOK
  <2>2. verify_flags(old.flags) BY <2>1 DEF LeafEntry, verify_flags
  <2>3. r = m BY <2>2 DEF Leaf
  <2>4. Grown(m, o, m, o, o[pt].root, {}) BY GrownRefl
  <2>5. LeavesBut(m, o, m, o, pt, i) BY DEF LeavesBut
  <2>6. AddsLeaf(m, o, m, o, pt, i, old.ppn) BY SMTT(30), <1>2, <2>1, <2>4, <2>5 DEF AddsLeaf, Adds
  <2> QED BY <2>3, <2>6
<1> QED BY <1>3, <1>4

\* The walk finds the entry of the page that is mapped, and no other.
LEMMA WalkFinds ==
    ASSUME NEW m \in M, NEW o, Owned(m, o), NEW rt \in Frames, NEW page \in UserPages,
           NEW c \in Frames, At(o, c, rt, page)
    PROVE  LET g == o[c].up[1]
           IN /\ walk_pt(m, rt, page) = {<<g, VPN0(page)>>}
              /\ g \in Frames /\ o[g].kind = "pt0"
              /\ m.mem[g].pte[VPN0(page)].ppn = c /\ LeafEntry(m.mem[g].pte[VPN0(page)])
<1> DEFINE g == o[c].up[1]
           h == o[g].up[1]
<1>1. VPN1(page) \in 0 .. 1 /\ VPN0(page) \in 0 .. 1 BY PageSplit
<1>2. o \in Owners BY DEF Owned
<1>3. g \in Frames BY <1>2 DEF Owners
<1>4. h \in Frames BY SMTT(30), <1>2, <1>3 DEF Owners
<1>5. /\ o[c].kind = "page" /\ o[g].kind = "pt0" /\ o[h].kind = "pt1"
      /\ o[c].up = <<g, VPN0(page)>> /\ o[g].up = <<h, VPN1(page)>> /\ o[h].up = <<rt, 1>>
  BY Zenon DEF At
<1> HIDE DEF g, h
<1>6. g # NoFrame /\ h # NoFrame BY <1>5, FrameKinds DEF Owned
<1>7. UpOK(m, o, c) /\ UpOK(m, o, g) /\ UpOK(m, o, h)
  BY <1>3, <1>4, <1>5, <1>6 DEF Owned, Tree, Kids, Detached
<1>8. o[rt].kind = "root" BY <1>5, <1>7 DEF UpOK, Kid, Tabs
<1>9. EntryOK(m, o, rt, 1) /\ EntryOK(m, o, h, VPN1(page)) /\ EntryOK(m, o, g, VPN0(page))
  BY <1>1, <1>3, <1>4, <1>5, <1>8 DEF Owned, Tree, Tabs
<1>10. m.mem[rt].pte[1].ppn = h /\ m.mem[rt].pte[1] # null_pte
  BY <1>5, <1>7, NullTyped DEF UpOK
<1>11. m.mem[h].pte[VPN1(page)].ppn = g /\ m.mem[h].pte[VPN1(page)] # null_pte
  BY <1>5, <1>7, NullTyped DEF UpOK
<1>12. m.mem[g].pte[VPN0(page)].ppn = c /\ m.mem[g].pte[VPN0(page)] # null_pte
  BY <1>5, <1>7, NullTyped DEF UpOK
<1>13. TableEntry(m.mem[rt].pte[1]) BY <1>8, <1>9, <1>10 DEF EntryOK
<1>14. TableEntry(m.mem[h].pte[VPN1(page)]) BY <1>5, <1>9, <1>11 DEF EntryOK
<1>15. LeafEntry(m.mem[g].pte[VPN0(page)]) BY <1>5, <1>9, <1>12 DEF EntryOK
<1>16. IsTable(m.mem[rt].pte[1]) /\ IsTable(m.mem[h].pte[VPN1(page)])
  BY <1>13, <1>14 DEF IsTable, TableEntry, verify_flags
<1>17. verify_flags(m.mem[g].pte[VPN0(page)].flags) BY <1>15 DEF LeafEntry, verify_flags
<1>18. walk_pt(m, rt, page) = {<<g, VPN0(page)>>}
  BY <1>10, <1>11, <1>12, <1>16, <1>17 DEF walk_pt
<1> QED BY <1>3, <1>5, <1>12, <1>15, <1>18 DEF g

\* And what it finds is mapped there.
LEMMA WalkIsAt ==
    ASSUME NEW m \in M, NEW o, Owned(m, o), NEW rt \in Frames, o[rt].kind = "root",
           NEW page \in UserPages, walk_pt(m, rt, page) # {}
    PROVE  \E c \in Pool : At(o, c, rt, page) /\ o[c].root = rt
<1> DEFINE e2 == m.mem[rt].pte[1]
           h == e2.ppn
           e1 == m.mem[h].pte[VPN1(page)]
           g == e1.ppn
           e0 == m.mem[g].pte[VPN0(page)]
           c == e0.ppn
<1>1. VPN1(page) \in 0 .. 1 /\ VPN0(page) \in 0 .. 1 BY SMTT(30), PageSplit
<1>2. IsTable(e2) /\ IsTable(e1) /\ verify_flags(e0.flags) BY Zenon DEF walk_pt
<1>3. EntryOK(m, o, rt, 1) BY SMTT(30) DEF Owned, Tree, Tabs
<1>4. e2 # null_pte BY Zenon, <1>2, NullTyped DEF IsTable, verify_flags
<1>5. h \in Pool /\ o[h] = [kind |-> "pt1", root |-> rt, up |-> <<rt, 1>>]
  <2>1. o[rt].root = rt BY DEF Owned, Tree
  <2>2. Kid("root") = "pt1" BY DEF Kid
  <2> QED BY <1>3, <1>4, <2>1, <2>2 DEF EntryOK
<1>6. h \in Frames BY <1>5, FrameKinds
<1> HIDE DEF h
<1>7. EntryOK(m, o, h, VPN1(page)) BY SMTT(30), <1>1, <1>5, <1>6 DEF Owned, Tree, Tabs
<1>8. e1 # null_pte BY Zenon, <1>2, NullTyped DEF IsTable, verify_flags
<1>9. g \in Pool /\ o[g] = [kind |-> "pt0", root |-> rt, up |-> <<h, VPN1(page)>>]
  <2>1. Kid("pt1") = "pt0" BY DEF Kid
  <2> QED BY <1>5, <1>7, <1>8, <2>1 DEF EntryOK
<1>10. g \in Frames BY <1>9, FrameKinds
<1> HIDE DEF g
<1>11. EntryOK(m, o, g, VPN0(page)) BY <1>1, <1>9, <1>10 DEF Owned, Tree, Tabs
<1>12. e0 # null_pte BY <1>2, NullTyped DEF verify_flags
<1>13. c \in Pool /\ o[c] = [kind |-> "page", root |-> rt, up |-> <<g, VPN0(page)>>]
  <2>1. Kid("pt0") = "page" BY DEF Kid
  <2> QED BY <1>9, <1>11, <1>12, <2>1 DEF EntryOK
<1> HIDE DEF c
<1>14. At(o, c, rt, page) BY <1>5, <1>9, <1>13 DEF At
<1> QED BY <1>13, <1>14

\* The space of rt gains the pages, if it did not have them, with zeroes.
Maps(m, o, r, o2, rt, pages) ==
    /\ Grown(m, o, r, o2, rt, {})
    /\ AllUser(m, o) => AllUser(r, o2)
    /\ \A page \in pages : \E c \in Pool : At(o2, c, rt, page)
    /\ \A c \in Pool : o[c].kind = "free" /\ o2[c].kind = "page" =>
          r.mem[c].data = Zeroed.data /\ \E page \in pages : At(o2, c, rt, page)

LEMMA MapKeeps ==
    ASSUME NEW m \in M, NEW o, Owned(m, o), NEW rt \in Frames, o[rt].kind = "root",
           NEW page \in UserPages, NEW fl \in MapFlags, memory_alloc_and_map_page(m, rt, page, fl).ok
    PROVE  \E o2 : Maps(m, o, memory_alloc_and_map_page(m, rt, page, fl), o2, rt, {page})
<1> DEFINE m1 == Table(m, rt, 1)
           m0 == Table(m1, m1.page, VPN1(page))
           w == Leaf(m0, m0.page, VPN0(page))
           r == memory_alloc_and_map_page(m, rt, page, fl)
<1>1. VPN1(page) \in 0 .. 1 /\ VPN0(page) \in 0 .. 1 BY PageSplit
<1>2. fl \in SUBSET Flags BY DEF MapFlags, Flags
<1>3. m1 \in M /\ m1.page \in Frames BY TableTyped DEF M
<1>4. m0 \in M /\ m0.page \in Frames
  <2> HIDE DEF m1
  <2>1. m0 \in M BY <1>1, <1>3, TableTyped
  <2> QED BY <2>1 DEF M
<1>5. w \in M
  <2> HIDE DEF m0
  <2> QED BY <1>1, <1>4, LeafTyped
<1>6. r = memory_set_page_flags(w, rt, page, fl)
  BY DEF memory_alloc_and_map_page, walk_pt_create
<1>7. w.ok
  <2> HIDE DEF w, r
  <2> QED BY <1>2, <1>5, <1>6, FlagsTyped DEF r
<1>8. m0.ok
  <2> HIDE DEF m0
  <2> QED BY <1>1, <1>4, <1>7, LeafTyped
<1>9. m1.ok
  <2> HIDE DEF m1
  <2> QED BY <1>1, <1>3, <1>8, TableTyped
<1>10. o \in Owners /\ o[rt].root = rt BY DEF Owned, Tree
<1>11. PICK o1 : AddsTable(m, o, m1, o1, rt, 1) BY <1>9, TableKeeps
<1> DEFINE t1 == m1.page
<1>12. /\ Grown(m, o, m1, o1, rt, {}) /\ LeavesBut(m, o, m1, o1, rt, 1)
       /\ t1 \in Pool /\ o1[t1] = [kind |-> "pt1", root |-> rt, up |-> <<rt, 1>>]
       /\ \A f \in Frames : o[f].kind = "free" => o1[f].kind # "page"
  <2>1. Kid("root") = "pt1" BY DEF Kid
  <2> HIDE DEF m1
  <2> QED BY <1>10, <1>11, <2>1 DEF AddsTable, Adds
<1>13. Owned(m1, o1) BY <1>12 DEF Grown
<1> HIDE DEF m1
<1>14. PICK o0 : AddsTable(m1, o1, m0, o0, t1, VPN1(page))
  BY <1>1, <1>3, <1>8, <1>12, <1>13, TableKeeps
<1> DEFINE t0 == m0.page
<1>15. /\ Grown(m1, o1, m0, o0, rt, {}) /\ LeavesBut(m1, o1, m0, o0, t1, VPN1(page))
       /\ t0 \in Pool /\ o0[t0] = [kind |-> "pt0", root |-> rt, up |-> <<t1, VPN1(page)>>]
       /\ \A f \in Frames : o1[f].kind = "free" => o0[f].kind # "page"
  <2>1. Kid("pt1") = "pt0" BY DEF Kid
  <2> HIDE DEF m0
  <2> QED BY <1>12, <1>14, <2>1 DEF AddsTable, Adds
<1>16. Owned(m0, o0) BY <1>15 DEF Grown
<1> HIDE DEF m0
<1>17. PICK ow, c : AddsLeaf(m0, o0, w, ow, t0, VPN0(page), c)
  BY <1>1, <1>4, <1>7, <1>15, <1>16, LeafKeeps
<1>18. /\ Grown(m0, o0, w, ow, rt, {}) /\ LeavesBut(m0, o0, w, ow, t0, VPN0(page))
       /\ c \in Pool /\ ow[c] = [kind |-> "page", root |-> rt, up |-> <<t0, VPN0(page)>>]
       /\ \A f \in Frames : o0[f].kind = "free" /\ ow[f].kind = "page" =>
             f = c /\ w.mem[c].data = Zeroed.data
  <2>1. Kid("pt0") = "page" BY DEF Kid
  <2> HIDE DEF w
  <2> QED BY <1>15, <1>17, <2>1 DEF AddsLeaf, Adds
<1>19. Owned(w, ow) BY <1>18 DEF Grown
<1> HIDE DEF w, r
<1>20. c \in Frames /\ t0 \in Frames /\ t1 \in Frames BY <1>12, <1>15, <1>18, FrameKinds
<1> HIDE DEF t1, t0
<1>21. o0[t1] = o1[t1] /\ ow[t1] = o1[t1] /\ ow[t0] = o0[t0]
  BY <1>12, <1>15, <1>18, <1>20 DEF Grown
<1>22. At(ow, c, rt, page) BY <1>12, <1>15, <1>18, <1>21 DEF At
<1>23. /\ walk_pt(w, rt, page) = {<<t0, VPN0(page)>>}
       /\ w.mem[t0].pte[VPN0(page)].ppn = c /\ LeafEntry(w.mem[t0].pte[VPN0(page)])
  <2>1. ow[c].up[1] = t0 BY <1>18
  <2> QED BY SMTT(30), <1>5, <1>19, <1>20, <1>22, <2>1, WalkFinds
<1> DEFINE e == leaf_pte(c, fl)
<1>24. r = SetPte(w, t0, VPN0(page), e)
  <2>1. (CHOOSE x \in {<<t0, VPN0(page)>>} : TRUE) = <<t0, VPN0(page)>> OBVIOUS
  <2> QED BY <1>6, <1>23, <2>1 DEF memory_set_page_flags, SetPte
<1>25. e \in Ptes /\ LeafEntry(e) /\ e.ppn = c /\ "U" \in e.flags
  BY <1>20 DEF leaf_pte, Ptes, Flags, LeafEntry, MapFlags
<1> HIDE DEF e
<1>26. IsSet(w, r, t0, VPN0(page), e) BY <1>1, <1>5, <1>20, <1>24, <1>25, SetPteIs
<1>27. Owned(r, ow)
  <2>1. w.mem[t0].pte[VPN0(page)] # null_pte BY <1>23, NullTyped DEF LeafEntry
  <2>2. ow[t0].kind = "pt0" BY <1>15, <1>21
  <2> QED BY <1>1, <1>5, <1>19, <1>20, <1>23, <1>24, <1>25, <2>1, <2>2, FlagsKeep
<1>28. Grown(w, ow, r, ow, rt, {})
  <2>1. ow[t0].kind = "pt0" /\ ow[t0].root = rt BY <1>15, <1>21
  <2> QED BY <1>26, <1>27, <2>1 DEF Grown, IsSet
<1>29. Grown(m, o, r, ow, rt, {})
  <2>1. Grown(m, o, m0, o0, rt, {}) BY <1>10, <1>12, <1>15, GrownTrans
  <2>2. Grown(m, o, w, ow, rt, {}) BY <1>10, <1>18, <2>1, GrownTrans
  <2> QED BY <1>10, <1>28, <2>2, GrownTrans
<1>30. ASSUME AllUser(m, o) PROVE AllUser(r, ow)
  <2> SUFFICES ASSUME NEW f \in Frames, NEW j \in 0 .. 1, ow[f].kind = "pt0", r.mem[f].pte[j] # null_pte
               PROVE  "U" \in r.mem[f].pte[j].flags
    BY DEF AllUser
  <2>1. CASE f = t0 /\ j = VPN0(page) BY <1>1, <1>20, <1>25, <1>26, <2>1 DEF IsSet
  <2>2. CASE ~(f = t0 /\ j = VPN0(page))
    <3>1. r.mem[f].pte[j] = w.mem[f].pte[j] BY <1>26, <2>2 DEF IsSet
    <3>2. o0[f].kind = "pt0" /\ w.mem[f].pte[j] = m0.mem[f].pte[j]
      BY <1>18, <2>2, <3>1 DEF LeavesBut
    <3>3. f # t1 BY <1>12, <1>21, <3>2
    <3>4. o1[f].kind = "pt0" /\ m0.mem[f].pte[j] = m1.mem[f].pte[j]
      BY <1>15, <3>1, <3>2, <3>3 DEF LeavesBut
    <3>5. f # rt BY <1>12, <3>4 DEF Grown
    <3>6. o[f].kind = "pt0" /\ m1.mem[f].pte[j] = m.mem[f].pte[j]
      BY <1>12, <3>1, <3>2, <3>4, <3>5 DEF LeavesBut
    <3> QED BY <1>30, <3>1, <3>2, <3>4, <3>6 DEF AllUser
  <2> QED BY <2>1, <2>2
<1>31. ASSUME NEW d \in Pool, o[d].kind = "free", ow[d].kind = "page"
       PROVE  d = c /\ r.mem[c].data = Zeroed.data
  <2>1. d \in Frames BY FrameKinds
  <2>2. o1[d].kind = "free" BY <1>12, <1>15, <1>18, <1>31, <2>1 DEF Grown
  <2>3. o0[d].kind = "free" BY <1>15, <1>18, <1>31, <2>1, <2>2 DEF Grown
  <2>4. d = c /\ w.mem[c].data = Zeroed.data BY <1>18, <1>31, <2>1, <2>3
  <2> QED BY <1>20, <1>26, <2>4 DEF IsSet
<1>32. Maps(m, o, r, ow, rt, {page}) BY SMTT(30), <1>18, <1>22, <1>29, <1>30, <1>31 DEF Maps
<1> QED BY <1>32 DEF r

LEMMA AtKept ==
    ASSUME NEW o \in Owners, NEW o2, \A f \in Frames : o[f].kind # "free" => o2[f] = o[f],
           NEW c \in Frames, NEW rt, NEW page, At(o, c, rt, page)
    PROVE  At(o2, c, rt, page)
<1> DEFINE g == o[c].up[1]
           h == o[g].up[1]
<1>1. g \in Frames BY DEF Owners
<1>2. h \in Frames BY <1>1 DEF Owners
<1>3. o[c].kind = "page" /\ o[g].kind = "pt0" /\ o[h].kind = "pt1" BY Zenon DEF At
<1>4. o2[c] = o[c] /\ o2[g] = o[g] /\ o2[h] = o[h] BY <1>1, <1>2, <1>3
<1> QED BY ZenonT(30), <1>4 DEF At

LEMMA MapsTrans ==
    ASSUME NEW m, NEW o \in Owners, NEW m1, NEW o1 \in Owners, NEW m2, NEW o2, NEW rt, NEW P, NEW Q,
           Maps(m, o, m1, o1, rt, P), Maps(m1, o1, m2, o2, rt, Q)
    PROVE  Maps(m, o, m2, o2, rt, P \cup Q)
<1>1. Grown(m, o, m1, o1, rt, {}) /\ Grown(m1, o1, m2, o2, rt, {}) BY DEF Maps
<1>2. Grown(m, o, m2, o2, rt, {}) BY <1>1, GrownTrans
<1>3. \A f \in Frames : o1[f].kind # "free" => o2[f] = o1[f] /\ m2.mem[f].data = m1.mem[f].data
  BY <1>1 DEF Grown
<1>4. \A page : \A c \in Pool : At(o1, c, rt, page) => At(o2, c, rt, page)
  BY <1>3, AtKept, FrameKinds
<1>5. \A page \in P \cup Q : \E c \in Pool : At(o2, c, rt, page) BY <1>4 DEF Maps
<1>6. ASSUME NEW c \in Pool, o[c].kind = "free", o2[c].kind = "page"
      PROVE  m2.mem[c].data = Zeroed.data /\ \E page \in P \cup Q : At(o2, c, rt, page)
  <2>1. CASE o1[c].kind = "free" BY <1>6, <2>1 DEF Maps
  <2>2. CASE o1[c].kind # "free" BY <1>3, <1>4, <1>6, <2>2, FrameKinds DEF Maps
  <2> QED BY <2>1, <2>2
<1>7. AllUser(m, o) => AllUser(m2, o2) BY DEF Maps
<1> QED BY <1>2, <1>5, <1>6, <1>7 DEF Maps

\* The pages are mapped one after the other.
MapAll(m, rt, pages, fl) ==
    FoldLeft(LAMBDA n, page : memory_alloc_and_map_page(n, rt, page, fl), m, pages)

MapRun(g, m, rt, pages, fl, len) ==
    /\ g \in [0 .. len -> M] /\ g[0] = m
    /\ \A k \in 1 .. len : g[k] = memory_alloc_and_map_page(g[k - 1], rt, pages[k], fl)

LEMMA MapFold ==
    ASSUME NEW m \in M, NEW rt \in Frames, NEW fl \in SUBSET Flags,
           NEW len \in Nat, NEW pages \in [1 .. len -> UserPages]
    PROVE  \E g : MapRun(g, m, rt, pages, fl, len) /\ g[len] = MapAll(m, rt, pages, fl)
<1> DEFINE Op(x, page) == memory_alloc_and_map_page(x, rt, page, fl)
           r == FoldLeft(LAMBDA n, page : Op(n, page), m, pages)
           step == [k \in 1 .. len |-> [x \in M |-> Op(x, pages[k])]]
           Eq(it) == it = [s \in SUBSET (1 .. len) |->
              IF s = {} THEN m ELSE Op(it[s \ {Max(s)}], pages[Max(s)])]
<1>1. step \in Steps(len, M) BY MapTyped DEF Steps
<1> HIDE DEF Op
<1>2. PICK f : Solves(f, m, len, step, M)
  <2> HIDE DEF step
  <2> QED BY ONLY <1>1, FoldExists, m \in M, len \in Nat
<1>3. ASSUME NEW s \in SUBSET (1 .. len), s # {}
      PROVE  Max(s) \in 1 .. len /\ \A x \in M : step[Max(s)][x] = Op(x, pages[Max(s)])
  <2>1. Max(s) \in 1 .. len BY <1>3, MaxIndex
  <2> QED BY <2>1
<1>4. Eq(f) BY <1>2, <1>3 DEF Solves
<1>5. Eq(CHOOSE it : Eq(it)) BY <1>4
<1>6. PICK it : Eq(it) /\ r = it[1 .. len]
  <2>1. DOMAIN pages = 1 .. len OBVIOUS
  <2>2. r = (CHOOSE it : Eq(it))[1 .. len] BY <2>1 DEF FoldLeft, MapThenFoldSet
  <2> QED BY <1>5, <2>2
<1>7. StepsSolve(it, m, len, step, M) BY <1>3, <1>6 DEF StepsSolve
<1>8. PICK g : Values(g, m, len, step, M, it[1 .. len])
  <2> HIDE DEF step
  <2> QED BY ONLY <1>1, <1>7, FoldSteps, m \in M, len \in Nat
<1>9. g \in [0 .. len -> M] /\ g[0] = m /\ g[len] = r BY <1>6, <1>8 DEF Values
<1>10. \A k \in 1 .. len : g[k] = Op(g[k - 1], pages[k])
  <2> TAKE k \in 1 .. len
  <2>0. k - 1 \in 0 .. len OBVIOUS
  <2>1. g[k - 1] \in M BY <1>9, <2>0
  <2>2. g[k] = step[k][g[k - 1]] BY <1>8 DEF Values
  <2> QED BY <2>1, <2>2
<1>11. r = MapAll(m, rt, pages, fl) BY DEF MapAll, Op
<1> QED BY <1>9, <1>10, <1>11 DEF Op, MapRun

LEMMA MapAllKeeps ==
    ASSUME NEW m \in M, NEW o, Owned(m, o), NEW rt \in Frames, o[rt].kind = "root",
           NEW fl \in MapFlags, NEW len \in Nat, NEW pages \in [1 .. len -> UserPages],
           NEW g, MapRun(g, m, rt, pages, fl, len), g[len].ok
    PROVE  \E o2 : Maps(m, o, g[len], o2, rt, {pages[k] : k \in 1 .. len})
<1>0. /\ g \in [0 .. len -> M] /\ g[0] = m
      /\ \A k \in 1 .. len : g[k] = memory_alloc_and_map_page(g[k - 1], rt, pages[k], fl)
  BY DEF MapRun
<1> DEFINE Done(k) == {pages[j] : j \in 1 .. k}
           Kept(k) == k <= len /\ g[k].ok => \E o2 : Maps(m, o, g[k], o2, rt, Done(k))
           P == {k \in Nat : Kept(k)}
<1>1. Kept(0)
  <2>1. Done(0) = {} OBVIOUS
  <2>2. Grown(m, o, m, o, rt, {}) BY GrownRefl
  <2>3. Maps(m, o, m, o, rt, {}) BY <2>2 DEF Maps
  <2> HIDE DEF Done
  <2> QED BY <1>0, <2>1, <2>3
<1>2. ASSUME NEW k \in Nat, Kept(k) PROVE Kept(k + 1)
  <2> SUFFICES ASSUME k + 1 <= len, g[k + 1].ok
               PROVE  \E o2 : Maps(m, o, g[k + 1], o2, rt, Done(k + 1))
    OBVIOUS
  <2> DEFINE page == pages[k + 1]
  <2>1. k + 1 \in 1 .. len /\ k \in 0 .. len /\ k + 1 - 1 = k OBVIOUS
  <2>2. page \in UserPages /\ g[k] \in M /\ fl \in SUBSET Flags BY <1>0, <2>1 DEF MapFlags, Flags
  <2>3. Done(k + 1) = Done(k) \cup {page}
    <3>1. \A j \in 1 .. k + 1 : j = k + 1 \/ j \in 1 .. k OBVIOUS
    <3>2. \A j \in 1 .. k : j \in 1 .. k + 1 OBVIOUS
    <3> QED BY <2>1, <3>1, <3>2
  <2> HIDE DEF Done, page
  <2>4. g[k + 1] = memory_alloc_and_map_page(g[k], rt, page, fl) BY <1>0, <2>1 DEF page
  <2>5. g[k].ok BY <2>2, <2>4, MapTyped
  <2>6. PICK o1 : Maps(m, o, g[k], o1, rt, Done(k)) BY <1>2, <2>1, <2>5
  <2>7. Owned(g[k], o1) /\ o1[rt].kind = "root" BY <2>6 DEF Maps, Grown
  <2>8. PICK o2 : Maps(g[k], o1, g[k + 1], o2, rt, {page})
    <3>1. memory_alloc_and_map_page(g[k], rt, page, fl).ok BY <2>4
    <3>2. \E o2 : Maps(g[k], o1, memory_alloc_and_map_page(g[k], rt, page, fl), o2, rt, {page})
      BY ONLY <2>2, <2>7, <3>1, MapKeeps, rt \in Frames, fl \in MapFlags
    <3> QED BY ONLY <2>4, <3>2
  <2>9. o \in Owners /\ o1 \in Owners BY <2>7 DEF Owned
  <2>10. Maps(m, o, g[k + 1], o2, rt, Done(k) \cup {page})
    BY ONLY <2>6, <2>8, <2>9, MapsTrans
  <2> QED BY ONLY <2>3, <2>10
<1> HIDE DEF Kept
<1>3. 0 \in P /\ \A k \in Nat : k \in P => k + 1 \in P BY <1>1, <1>2
<1> HIDE DEF P
<1>4. len \in P BY <1>3, Induction
<1>5. Kept(len) /\ len <= len BY <1>4 DEF P
<1> QED BY <1>5 DEF Kept

------------------------------------------------------------------------------
(* Filling what is mapped *)

\* A number is so many times another and a remainder, and in one way.
LEMMA DivMod ==
    ASSUME NEW b \in Nat, b > 0, NEW x \in Int
    PROVE  x \div b \in Int /\ x % b \in 0 .. b - 1 /\ x = b * (x \div b) + (x % b)
OBVIOUS

LEMMA DivUnique ==
    ASSUME NEW b \in Nat, b > 0, NEW q \in Int, NEW r \in 0 .. b - 1,
           NEW p \in Int, NEW s \in 0 .. b - 1, b * q + r = b * p + s
    PROVE  q = p /\ r = s
<1>1. b * (q - p) = s - r OBVIOUS
<1>2. ASSUME q - p >= 1 PROVE b * (q - p) >= b BY <1>2
<1>3. ASSUME q - p <= 0 - 1 PROVE b * (q - p) <= 0 - b BY <1>3
<1> QED BY <1>1, <1>2, <1>3

LEMMA AddrSplit ==
    ASSUME NEW a \in Addrs
    PROVE  /\ a \div PAGE_SIZE \in UserPages /\ a % PAGE_SIZE \in 0 .. PAGE_SIZE - 1
           /\ a = PAGE_SIZE * (a \div PAGE_SIZE) + (a % PAGE_SIZE)
<1> DEFINE q == a \div PAGE_SIZE
           r == a % PAGE_SIZE
<1>1. a \in Nat /\ a < PAGE_SIZE * 4 /\ PAGE_SIZE \in Nat /\ PAGE_SIZE > 0
  BY MemoryAssumption DEF Addrs, USER_END, PTE_CNT
<1>2. q \in Int /\ r \in 0 .. PAGE_SIZE - 1 /\ a = PAGE_SIZE * q + r BY <1>1, DivMod
<1> HIDE DEF q, r
<1>3. ASSUME q < 0 PROVE FALSE
  <2>1. PAGE_SIZE * q <= PAGE_SIZE * (0 - 1) BY <1>1, <1>2, <1>3
  <2> QED BY <1>1, <1>2, <2>1
<1>4. ASSUME q >= 4 PROVE FALSE
  <2>1. PAGE_SIZE * q >= PAGE_SIZE * 4 BY <1>1, <1>2, <1>4
  <2> QED BY <1>1, <1>2, <2>1
<1>5. q \in UserPages BY <1>2, <1>3, <1>4 DEF UserPages, PTE_CNT
<1> QED BY <1>2, <1>5 DEF q, r

LEMMA AtUnique ==
    ASSUME NEW m \in M, NEW o, Owned(m, o), NEW rt \in Frames,
           NEW c \in Frames, NEW p \in UserPages, At(o, c, rt, p)
    PROVE  /\ \A q \in UserPages : At(o, c, rt, q) => q = p
           /\ \A d \in Frames : At(o, d, rt, p) => d = c
<1>1. ASSUME NEW q \in UserPages, At(o, c, rt, q) PROVE q = p
  <2> DEFINE g == o[c].up[1]
             h == o[g].up[1]
  <2>1. o[c].up = <<g, VPN0(p)>> /\ o[c].up = <<g, VPN0(q)>> BY ZenonT(30), <1>1 DEF At
  <2>2. o[g].up = <<h, VPN1(p)>> /\ o[g].up = <<h, VPN1(q)>> BY Zenon, <1>1 DEF At
  <2> HIDE DEF g, h
  <2>3. VPN0(p) = VPN0(q) BY <2>1
  <2>4. VPN1(p) = VPN1(q) BY <2>2
  <2> QED BY SMTT(30), <2>3, <2>4, PageSplit
<1>2. ASSUME NEW d \in Frames, At(o, d, rt, p) PROVE d = c
  <2>1. walk_pt(m, rt, p) = {<<o[c].up[1], VPN0(p)>>}
        /\ m.mem[o[c].up[1]].pte[VPN0(p)].ppn = c
    BY WalkFinds
  <2>2. walk_pt(m, rt, p) = {<<o[d].up[1], VPN0(p)>>}
        /\ m.mem[o[d].up[1]].pte[VPN0(p)].ppn = d
    BY <1>2, WalkFinds
  <2>3. o[c].up[1] = o[d].up[1]
    <3> DEFINE x == o[c].up[1]
               y == o[d].up[1]
    <3>1. {<<x, VPN0(p)>>} = {<<y, VPN0(p)>>} BY <2>1, <2>2
    <3> HIDE DEF x, y
    <3>2. <<x, VPN0(p)>> = <<y, VPN0(p)>> BY ONLY Zenon, <3>1
    <3>3. x = y BY ONLY <3>2
    <3> QED BY ONLY <3>3 DEF x, y
  <2> QED BY <2>1, <2>2, <2>3
<1> QED BY <1>1, <1>2

\* What Filled writes, and one round of it.
FillWord(n, rt, run, a) ==
    IF walk_pt(n, rt, a \div PAGE_SIZE) = {} THEN [n EXCEPT !.page = NoFrame]
    ELSE LET at == CHOOSE x \in walk_pt(n, rt, a \div PAGE_SIZE) : TRUE
         IN [n EXCEPT !.mem[n.mem[at[1]].pte[at[2]].ppn].data[a % PAGE_SIZE] = run.word]

\* Only data differs.
SameTables(m, r) ==
    /\ r \in M /\ r.free = m.free /\ r.ok = m.ok
    /\ \A f \in Frames : r.mem[f].pte = m.mem[f].pte

LEMMA SameWalk ==
    ASSUME NEW m \in M, NEW r, SameTables(m, r), NEW rt \in Frames, NEW page \in UserPages
    PROVE  walk_pt(r, rt, page) = walk_pt(m, rt, page)
<1> DEFINE e2 == m.mem[rt].pte[1]
           e1 == m.mem[e2.ppn].pte[VPN1(page)]
<1>1. \A f \in Frames, i \in 0 .. 1 :
         m.mem[f].pte[i].ppn \in Frames /\ r.mem[f].pte[i] = m.mem[f].pte[i]
  BY DEF SameTables, M, Contents, Ptes
<1>2. VPN1(page) \in 0 .. 1 /\ VPN0(page) \in 0 .. 1 BY PageSplit
<1>3. e2.ppn \in Frames /\ r.mem[rt].pte[1] = e2 BY <1>1
<1>4. e1.ppn \in Frames /\ r.mem[e2.ppn].pte[VPN1(page)] = e1 BY <1>1, <1>2, <1>3
<1>5. r.mem[e1.ppn].pte[VPN0(page)] = m.mem[e1.ppn].pte[VPN0(page)] BY Zenon, <1>1, <1>2, <1>4
<1> QED BY Zenon, <1>3, <1>4, <1>5 DEF walk_pt

LEMMA SameOwned ==
    ASSUME NEW m \in M, NEW r, SameTables(m, r), NEW o, Owned(m, o)
    PROVE  Owned(r, o)
<1> USE DEF SameTables
<1>1. FreeList(r, o) BY DEF Owned, FreeList
<1>2. \A f \in Frames, j \in 0 .. 1 : EntryOK(m, o, f, j) => EntryOK(r, o, f, j)
  BY SMTT(30) DEF EntryOK
<1>3. \A f \in Frames : UpOK(m, o, f) => UpOK(r, o, f) BY DEF UpOK, Owned, Owners
<1>4. Tree(r, o) BY <1>2, <1>3 DEF Owned, Tree
<1> QED BY <1>1, <1>4 DEF Owned

\* A word is written where its page is mapped.
LEMMA FillWordIs ==
    ASSUME NEW m \in M, NEW rt \in Frames, NEW run, run.word \in Words, NEW a \in Addrs
    PROVE  LET r == FillWord(m, rt, run, a)
               page == a \div PAGE_SIZE
           IN /\ SameTables(m, r)
              /\ walk_pt(m, rt, page) = {} => r.page = NoFrame /\ r.mem = m.mem
              /\ \A pt, c \in Frames :
                    walk_pt(m, rt, page) = {<<pt, VPN0(page)>>} /\ m.mem[pt].pte[VPN0(page)].ppn = c =>
                       /\ r.page = m.page
                       /\ r.mem = [m.mem EXCEPT ![c].data[a % PAGE_SIZE] = run.word]
<1> DEFINE r == FillWord(m, rt, run, a)
           page == a \div PAGE_SIZE
           x == a % PAGE_SIZE
<1>1. page \in UserPages /\ x \in 0 .. PAGE_SIZE - 1 BY AddrSplit
<1>2. run.word \in Words OBVIOUS
<1>3. CASE walk_pt(m, rt, page) = {}
  <2>1. r = [m EXCEPT !.page = NoFrame] BY Zenon, <1>3 DEF FillWord
  <2>2. r \in M /\ r.mem = m.mem /\ r.free = m.free /\ r.ok = m.ok /\ r.page = NoFrame
    BY <2>1, FrameKinds DEF M
  <2> QED BY Zenon, <1>3, <2>2 DEF SameTables
<1>4. CASE walk_pt(m, rt, page) # {}
  <2>1. PICK pt \in Frames : walk_pt(m, rt, page) = {<<pt, VPN0(page)>>} BY <1>1, <1>4, WalkTyped
  <2> DEFINE c == m.mem[pt].pte[VPN0(page)].ppn
  <2>2. VPN0(page) \in 0 .. 1 BY <1>1, PageSplit
  <2>3. c \in Frames BY <2>2 DEF M, Contents, Ptes
  <2>4. (CHOOSE y \in {<<pt, VPN0(page)>>} : TRUE) = <<pt, VPN0(page)>> BY SMTT(30)
  <2>5. r = [m EXCEPT !.mem[c].data[x] = run.word]
    <3>1. r = LET at == <<pt, VPN0(page)>>
              IN [m EXCEPT !.mem[m.mem[at[1]].pte[at[2]].ppn].data[x] = run.word]
      BY Zenon, <1>4, <2>1, <2>4 DEF FillWord
    <3> QED BY ONLY ZenonT(30), <3>1
  <2> HIDE DEF c, r, x, page
  <2>6. /\ r \in M /\ r.free = m.free /\ r.ok = m.ok /\ r.page = m.page
        /\ r.mem = [m.mem EXCEPT ![c].data[x] = run.word]
    BY <1>1, <1>2, <2>3, <2>5 DEF M, Contents
  <2>7. \A f \in Frames : r.mem[f].pte = m.mem[f].pte BY <2>3, <2>6 DEF M, Contents
  <2>8. \A p, d \in Frames :
           walk_pt(m, rt, page) = {<<p, VPN0(page)>>} /\ m.mem[p].pte[VPN0(page)].ppn = d => d = c
    <3> SUFFICES ASSUME NEW p \in Frames, NEW d \in Frames,
                        walk_pt(m, rt, page) = {<<p, VPN0(page)>>},
                        m.mem[p].pte[VPN0(page)].ppn = d
                 PROVE  d = c
      OBVIOUS
    <3>1. {<<p, VPN0(page)>>} = {<<pt, VPN0(page)>>} BY <2>1
    <3>2. <<p, VPN0(page)>> = <<pt, VPN0(page)>> BY ONLY <3>1
    <3>3. p = pt BY ONLY <3>2
    <3> QED BY <3>3 DEF c
  <2> QED BY <1>4, <2>6, <2>7, <2>8 DEF SameTables, x, page, r
<1> QED BY <1>3, <1>4

\* Filled, word by word.
LEMMA FillFold ==
    ASSUME NEW m \in M, NEW rt \in Frames, NEW run, run.from \in Int, run.count \in Nat, run.word \in Words,
           Touched(run) \subseteq Addrs
    PROVE  \E g \in [0 .. run.count -> M] :
               /\ g[0] = [m EXCEPT !.page = main_pt2] /\ g[run.count] = Filled(m, rt, run)
               /\ \A k \in 1 .. run.count : g[k] = FillWord(g[k - 1], rt, run, run.from + k - 1)
<1> DEFINE len == run.count
           Op(n, a) == FillWord(n, rt, run, a)
           m1 == [m EXCEPT !.page = main_pt2]
           at == [k \in 1 .. len |-> run.from + k - 1]
           r == FoldLeft(LAMBDA n, a : Op(n, a), m1, at)
           step == [k \in 1 .. len |-> [x \in M |-> Op(x, at[k])]]
           Eq(it) == it = [s \in SUBSET (1 .. len) |->
              IF s = {} THEN m1 ELSE Op(it[s \ {Max(s)}], at[Max(s)])]
<1>0. m1 \in M BY FrameKinds DEF M
<1>1. step \in Steps(len, M)
  <2>1. \A k \in 1 .. len : \A x \in M : Op(x, at[k]) \in M
    <3> SUFFICES ASSUME NEW k \in 1 .. len, NEW x \in M PROVE Op(x, at[k]) \in M OBVIOUS
    <3>1. at[k] \in Touched(run) BY DEF Touched
    <3>2. at[k] \in Addrs BY ONLY <3>1, Touched(run) \subseteq Addrs
    <3> HIDE DEF at
    <3>3. SameTables(x, FillWord(x, rt, run, at[k])) BY <3>2, FillWordIs
    <3> QED BY <3>3 DEF SameTables
  <2> HIDE DEF Op, at
  <2> QED BY <2>1 DEF Steps
<1>2. r = Filled(m, rt, run) BY Zenon DEF Filled, FillWord
<1> HIDE DEF Op, m1, at
<1>3. PICK f : Solves(f, m1, len, step, M)
  <2> HIDE DEF step
  <2> QED BY ONLY <1>0, <1>1, FoldExists, len \in Nat
<1>4. ASSUME NEW s \in SUBSET (1 .. len), s # {}
      PROVE  Max(s) \in 1 .. len /\ \A x \in M : step[Max(s)][x] = Op(x, at[Max(s)])
  <2>1. Max(s) \in 1 .. len BY <1>4, MaxIndex
  <2> QED BY <2>1
<1>5. Eq(f) BY <1>3, <1>4 DEF Solves
<1>6. Eq(CHOOSE it : Eq(it)) BY <1>5
<1>7. PICK it : Eq(it) /\ r = it[1 .. len]
  <2>1. DOMAIN at = 1 .. len BY DEF at
  <2>2. r = (CHOOSE it : Eq(it))[1 .. len] BY <2>1 DEF FoldLeft, MapThenFoldSet
  <2> QED BY <1>6, <2>2
<1>8. StepsSolve(it, m1, len, step, M) BY <1>4, <1>7 DEF StepsSolve
<1>9. PICK g : Values(g, m1, len, step, M, it[1 .. len])
  <2> HIDE DEF step
  <2> QED BY ONLY <1>0, <1>1, <1>8, FoldSteps, len \in Nat
<1>10. g \in [0 .. len -> M] /\ g[0] = m1 /\ g[len] = r BY <1>7, <1>9 DEF Values
<1>11. \A k \in 1 .. len : g[k] = Op(g[k - 1], run.from + k - 1)
  <2> TAKE k \in 1 .. len
  <2>0. k - 1 \in 0 .. len OBVIOUS
  <2>1. g[k - 1] \in M BY <1>10, <2>0
  <2>2. g[k] = step[k][g[k - 1]] BY <1>9 DEF Values
  <2>3. at[k] = run.from + k - 1 BY DEF at
  <2> QED BY <2>1, <2>2, <2>3
<1> QED BY <1>2, <1>10, <1>11 DEF Op, m1

\* The words of the span hold what they are filled with, if they all are mapped.
Span(run, k) == run.from .. run.from + k - 1
FilledTo(m, o, r, rt, run, k) ==
    /\ SameTables(m, r)
    /\ r.page \in {main_pt2, NoFrame}
    /\ r.page = main_pt2 <=> \A a \in Span(run, k) : walk_pt(m, rt, a \div PAGE_SIZE) # {}
    /\ r.page = main_pt2 => \A c \in Frames, x \in 0 .. PAGE_SIZE - 1 :
         /\ \A page \in UserPages : At(o, c, rt, page) /\ PAGE_SIZE * page + x \in Span(run, k) =>
               r.mem[c].data[x] = run.word
         /\ (\A page \in UserPages : At(o, c, rt, page) => PAGE_SIZE * page + x \notin Span(run, k)) =>
               r.mem[c].data[x] = m.mem[c].data[x]

LEMMA FillStep ==
    ASSUME NEW m \in M, NEW o, Owned(m, o), NEW rt \in Frames, o[rt].kind = "root",
           NEW run, run.word \in Words, run.from \in Int, NEW k \in Nat,
           run.from + k \in Addrs, NEW n \in M, FilledTo(m, o, n, rt, run, k)
    PROVE  FilledTo(m, o, FillWord(n, rt, run, run.from + k), rt, run, k + 1)
<1> DEFINE a == run.from + k
           r == FillWord(n, rt, run, a)
           q == a \div PAGE_SIZE
           y == a % PAGE_SIZE
<1>1. q \in UserPages /\ y \in 0 .. PAGE_SIZE - 1 /\ a = PAGE_SIZE * q + y BY AddrSplit
<1>2. Span(run, k + 1) = Span(run, k) \cup {a} /\ a \notin Span(run, k) BY DEF Span
<1>3. SameTables(m, n) BY DEF FilledTo
<1>4. walk_pt(n, rt, q) = walk_pt(m, rt, q) BY <1>1, <1>3, SameWalk
<1>5. /\ SameTables(n, r)
      /\ walk_pt(n, rt, q) = {} => r.page = NoFrame /\ r.mem = n.mem
      /\ \A pt, c \in Frames :
            walk_pt(n, rt, q) = {<<pt, VPN0(q)>>} /\ n.mem[pt].pte[VPN0(q)].ppn = c =>
               r.page = n.page /\ r.mem = [n.mem EXCEPT ![c].data[y] = run.word]
  BY SMTT(30), FillWordIs
<1>6. SameTables(m, r) BY <1>3, <1>5 DEF SameTables
<1>7. a \in Int OBVIOUS
<1> HIDE DEF a, r, q, y
<1>8. main_pt2 # NoFrame BY FrameKinds
<1>9. CASE walk_pt(m, rt, q) = {}
  <2>1. r.page = NoFrame BY <1>4, <1>5, <1>9
  <2>2. ~\A b \in Span(run, k + 1) : walk_pt(m, rt, b \div PAGE_SIZE) # {}
    BY <1>2, <1>9 DEF q
  <2> QED BY <1>6, <1>8, <2>1, <2>2 DEF FilledTo, r, a
<1>10. CASE walk_pt(m, rt, q) # {}
  <2>1. PICK c0 \in Pool : At(o, c0, rt, q) BY <1>1, <1>10, WalkIsAt
  <2>2. c0 \in Frames BY FrameKinds
  <2>3. PICK pt \in Frames : walk_pt(m, rt, q) = {<<pt, VPN0(q)>>} /\ m.mem[pt].pte[VPN0(q)].ppn = c0
    BY SMTT(30), <1>1, <2>1, <2>2, WalkFinds
  <2>4. n.mem[pt].pte[VPN0(q)].ppn = c0 BY <1>3, <2>3 DEF SameTables
  <2>5. r.page = n.page /\ r.mem = [n.mem EXCEPT ![c0].data[y] = run.word]
    BY <1>4, <1>5, <2>2, <2>3, <2>4
  <2>6. \A c \in Frames, x \in 0 .. PAGE_SIZE - 1 :
           r.mem[c].data[x] = IF c = c0 /\ x = y THEN run.word ELSE n.mem[c].data[x]
    <3> DEFINE w == run.word
               d == n.mem
               e == [d EXCEPT ![c0].data[y] = w]
    <3>1. d \in [Frames -> Contents] BY DEF M
    <3>2. r.mem = e BY <2>5
    <3> HIDE DEF w, d
    <3>3. \A c \in Frames : c # c0 => e[c] = d[c] BY <3>1
    <3>4. e[c0].data = [d[c0].data EXCEPT ![y] = w] BY <2>2, <3>1 DEF Contents
    <3>5. d[c0].data \in [0 .. PAGE_SIZE - 1 -> Words] BY <2>2, <3>1 DEF Contents
    <3> HIDE DEF e
    <3>6. \A x \in 0 .. PAGE_SIZE - 1 : e[c0].data[x] = IF x = y THEN w ELSE d[c0].data[x]
      BY <1>1, <3>4, <3>5
    <3> QED BY <3>2, <3>3, <3>6 DEF w, d
  <2>7. ASSUME r.page = main_pt2, NEW c \in Frames, NEW x \in 0 .. PAGE_SIZE - 1
        PROVE  /\ \A page \in UserPages :
                     At(o, c, rt, page) /\ PAGE_SIZE * page + x \in Span(run, k + 1) =>
                        r.mem[c].data[x] = run.word
               /\ (\A page \in UserPages : At(o, c, rt, page) =>
                      PAGE_SIZE * page + x \notin Span(run, k + 1)) =>
                  r.mem[c].data[x] = m.mem[c].data[x]
    <3>1. CASE c = c0 /\ x = y
      <4>1. \A page \in UserPages : At(o, c, rt, page) => page = q BY <1>1, <2>1, <2>2, <3>1, AtUnique
      <4> QED BY <1>1, <1>2, <2>1, <2>6, <3>1, <4>1
    <3>2. CASE ~(c = c0 /\ x = y)
      <4>1. ASSUME NEW page \in UserPages, At(o, c, rt, page) PROVE PAGE_SIZE * page + x # a
        <5> SUFFICES ASSUME PAGE_SIZE * page + x = a PROVE FALSE OBVIOUS
        <5>1. page \in Int /\ q \in Int /\ PAGE_SIZE \in Nat /\ PAGE_SIZE > 0
          BY SMTT(30), <1>1, MemoryAssumption DEF UserPages, PTE_CNT
        <5>2. PAGE_SIZE * page + x = PAGE_SIZE * q + y BY <1>1
        <5>3. page = q /\ x = y BY ONLY <1>1, <5>1, <5>2, DivUnique, x \in 0 .. PAGE_SIZE - 1
        <5>4. c = c0 BY <1>1, <2>1, <2>2, <4>1, <5>3, AtUnique
        <5> QED BY <3>2, <5>3, <5>4
      <4>2. r.mem[c].data[x] = n.mem[c].data[x] BY <2>6, <3>2
      <4>3. n.page = main_pt2 BY <2>5, <2>7
      <4> QED BY <1>2, <4>1, <4>2, <4>3 DEF FilledTo
    <3> QED BY <3>1, <3>2
  <2>8. r.page \in {main_pt2, NoFrame} BY <2>5 DEF FilledTo
  <2>9. r.page = main_pt2 <=> \A b \in Span(run, k + 1) : walk_pt(m, rt, b \div PAGE_SIZE) # {}
    <3>1. r.page = main_pt2 <=> \A b \in Span(run, k) : walk_pt(m, rt, b \div PAGE_SIZE) # {}
      BY <2>5 DEF FilledTo
    <3> QED BY <1>2, <1>10, <3>1 DEF q
  <2>10. FilledTo(m, o, r, rt, run, k + 1) BY ONLY <1>6, <2>7, <2>8, <2>9 DEF FilledTo
  <2> QED BY <2>10 DEF r, a
<1> QED BY <1>9, <1>10

LEMMA FilledIs ==
    ASSUME NEW m \in M, NEW o, Owned(m, o), NEW rt \in Frames, o[rt].kind = "root",
           NEW run, run.from \in Int, run.count \in Nat, run.word \in Words,
           Touched(run) \subseteq Addrs
    PROVE  FilledTo(m, o, Filled(m, rt, run), rt, run, run.count)
<1> DEFINE len == run.count
           m1 == [m EXCEPT !.page = main_pt2]
<1>1. \A k \in 1 .. len : run.from + k - 1 \in Addrs
  <2>1. \A k \in 1 .. len : run.from + k - 1 \in Touched(run) BY DEF Touched
  <2> QED BY ONLY <2>1, Touched(run) \subseteq Addrs
<1>2. PICK g \in [0 .. len -> M] :
         /\ g[0] = m1 /\ g[len] = Filled(m, rt, run)
         /\ \A k \in 1 .. len : g[k] = FillWord(g[k - 1], rt, run, run.from + k - 1)
  BY <1>1, FillFold
<1> DEFINE P == {k \in Nat : k <= len => FilledTo(m, o, g[k], rt, run, k)}
<1>3. 0 \in P
  <2>1. m1 \in M /\ SameTables(m, m1) /\ m1.page = main_pt2 /\ m1.mem = m.mem
    BY FrameKinds DEF M, SameTables
  <2>2. Span(run, 0) = {} BY DEF Span
  <2> HIDE DEF m1
  <2>3. FilledTo(m, o, m1, rt, run, 0) BY <2>1, <2>2 DEF FilledTo
  <2> QED BY <1>2, <2>3
<1>4. ASSUME NEW k \in Nat, k \in P PROVE k + 1 \in P
  <2> SUFFICES ASSUME k + 1 <= len PROVE FilledTo(m, o, g[k + 1], rt, run, k + 1) OBVIOUS
  <2>1. k + 1 \in 1 .. len /\ k \in 0 .. len /\ k + 1 - 1 = k
        /\ run.from + (k + 1) - 1 = run.from + k
    OBVIOUS
  <2>2. g[k + 1] = FillWord(g[k], rt, run, run.from + k) BY <1>2, <2>1
  <2>3. run.from + k \in Addrs BY <1>1, <2>1
  <2>4. g[k] \in M /\ FilledTo(m, o, g[k], rt, run, k) BY <1>4, <2>1
  <2>5. FilledTo(m, o, FillWord(g[k], rt, run, run.from + k), rt, run, k + 1)
    BY ONLY <2>3, <2>4, FillStep, m \in M, Owned(m, o), rt \in Frames, o[rt].kind = "root",
            run.word \in Words, run.from \in Int, k \in Nat
  <2> QED BY ONLY <2>2, <2>5
<1> HIDE DEF P
<1>5. len \in P BY <1>3, <1>4, Induction
<1>6. len <= len OBVIOUS
<1> QED BY <1>2, <1>5, <1>6 DEF P

\* The pages that memory from v on is mapped in hold words of it, and all of them
\* when the last page is not missed.
LEMMA SteppedPages ==
    ASSUME NEW v \in Nat, NEW s \in Nat, s > 0 => v + s < USER_END
    PROVE  LET len == (s + PAGE_SIZE - 1) \div PAGE_SIZE
               pages == Stepped(v, len)
           IN /\ len \in Nat /\ pages \in [1 .. len -> UserPages]
              /\ (v % PAGE_SIZE) + s <= PAGE_SIZE * len =>
                    \A a \in v .. v + s - 1 : \E k \in 1 .. len : pages[k] = a \div PAGE_SIZE
<1> DEFINE b == PAGE_SIZE
           len == (s + b - 1) \div b
           t == (s + b - 1) % b
           q == v \div b
           d == v % b
           pages == Stepped(v, len)
           span == v .. v + s - 1
           Fit == d + s <= b * len
<1>1. b \in Nat /\ b > 0 /\ USER_END = b * 4 BY MemoryAssumption DEF USER_END, PTE_CNT
<1>2. span \subseteq Addrs BY <1>1 DEF Addrs
<1>3. \A a \in Int : a \in span <=> v <= a /\ a < v + s BY <1>1
<1>4. pages = [k \in 1 .. len |-> (v + (k - 1) * b) \div b] BY DEF Stepped
<1>5. len \in Int /\ t \in 0 .. b - 1 /\ s + b - 1 = b * len + t
  <2>1. s + b - 1 \in Int BY <1>1
  <2> HIDE DEF b
  <2> QED BY <1>1, <2>1, DivMod
<1>6. q \in Int /\ d \in 0 .. b - 1 /\ v = b * q + d
  <2> HIDE DEF b
  <2> QED BY <1>1, DivMod
<1>7. \A a \in Addrs : /\ a \div b \in UserPages /\ a % b \in 0 .. b - 1
                       /\ a = b * (a \div b) + (a % b)
  BY AddrSplit
<1> HIDE DEF b, len, t, q, d, pages, span
<1>8. len \in Nat
  <2> SUFFICES ASSUME len <= 0 - 1 PROVE FALSE BY <1>5
  <2>1. b * len <= b * (0 - 1) BY <1>1, <1>5
  <2> QED BY <1>1, <1>5, <2>1
<1>9. ASSUME NEW k \in 1 .. len PROVE v + (k - 1) * b \in span
  <2>1. (k - 1) * b >= 0 BY <1>1
  <2>2. (k - 1) * b <= (len - 1) * b BY <1>1, <1>8
  <2>3. (len - 1) * b = b * len - b BY <1>1, <1>8
  <2>4. (k - 1) * b \in Int BY <1>1
  <2>5. (k - 1) * b < s BY <1>1, <1>5, <2>2, <2>3, <2>4
  <2> DEFINE w == (k - 1) * b
  <2> HIDE DEF w
  <2> QED BY <1>1, <1>3, <2>1, <2>4, <2>5 DEF w
<1>10. pages \in [1 .. len -> UserPages] BY <1>2, <1>4, <1>7, <1>9
<1>11. ASSUME Fit, NEW a \in span PROVE \E k \in 1 .. len : pages[k] = a \div b
  <2> DEFINE p == a \div b
             e == a % b
  <2>1. /\ a \in Int /\ v <= a /\ a < v + s
        /\ p \in Int /\ e \in 0 .. b - 1 /\ a = b * p + e
    BY <1>2, <1>3, <1>7, <1>11 DEF Addrs, UserPages
  <2> HIDE DEF p, e
  <2>2. p >= q
    <3> SUFFICES ASSUME p <= q - 1 PROVE FALSE BY <1>6, <2>1
    <3>1. b * p <= b * (q - 1) BY <1>1, <1>6, <2>1
    <3>2. b * (q - 1) = b * q - b BY <1>1, <1>6
    <3> QED BY <1>1, <1>6, <2>1, <3>1, <3>2
  <2>3. p - q < len
    <3> SUFFICES ASSUME p >= q + len PROVE FALSE BY <1>6, <1>8, <2>1
    <3>1. b * p >= b * (q + len) BY <1>1, <1>6, <1>8, <2>1
    <3>2. b * (q + len) = b * q + b * len BY <1>1, <1>6, <1>8
    <3> QED BY <1>1, <1>5, <1>6, <1>11, <2>1, <3>1, <3>2
  <2> DEFINE k == p - q + 1
  <2>4. k \in 1 .. len /\ k - 1 = p - q BY <1>6, <1>8, <2>1, <2>2, <2>3
  <2>5. v + (k - 1) * b = b * p + d
    <3>1. (k - 1) * b = b * p - b * q BY <1>1, <1>6, <2>1, <2>4
    <3> QED BY <1>1, <1>6, <2>1, <3>1
  <2> HIDE DEF k
  <2>6. (v + (k - 1) * b) \div b = p
    <3>1. b * p + d \in Int BY <1>1, <1>6, <2>1
    <3> DEFINE x == b * p + d
               y == x \div b
               z == x % b
    <3>2. y \in Int /\ z \in 0 .. b - 1 /\ x = b * y + z
      <4> HIDE DEF x
      <4> QED BY <1>1, <3>1, DivMod DEF x
    <3>3. b * p + d = b * y + z BY <3>2
    <3> HIDE DEF y, z
    <3>4. p = y BY ONLY <1>1, <1>6, <2>1, <3>2, <3>3, DivUnique
    <3> QED BY <2>5, <3>4 DEF y
  <2>7. pages[k] = p BY <1>4, <2>4, <2>6
  <2> QED BY <2>4, <2>7 DEF p
<1> QED BY <1>8, <1>10, <1>11 DEF len, pages, b, d, span

\* Sums that do not wrap.
LEMMA WrapIs ==
    ASSUME NEW a \in Int
    PROVE  /\ Wrapped(a) \in Int
           /\ 0 <= a + USER_START /\ a + USER_START < ADDR_MOD => Wrapped(a) = a
<1> DEFINE x == a + USER_START
           q == x \div ADDR_MOD
           r == x % ADDR_MOD
<1>1. USER_START \in Nat /\ ADDR_MOD \in Nat /\ ADDR_MOD > 0 /\ x \in Int
  BY MemoryAssumption
<1>2. Wrapped(a) = r - USER_START BY DEF Wrapped
<1> HIDE DEF x
<1>3. q \in Int /\ r \in 0 .. ADDR_MOD - 1 /\ x = ADDR_MOD * q + r BY <1>1, DivMod
<1> HIDE DEF q, r
<1>4. ASSUME 0 <= x, x < ADDR_MOD PROVE r = x
  <2>1. x \in 0 .. ADDR_MOD - 1 /\ ADDR_MOD * q + r = ADDR_MOD * 0 + x BY <1>1, <1>3, <1>4
  <2> QED BY ONLY <1>1, <1>3, <2>1, DivUnique, 0 \in Int
<1> QED BY <1>1, <1>2, <1>3, <1>4 DEF x

\* What the header of a segment says; no end that wraps, of one that fits.
IsHeader(seg) ==
    /\ seg.vaddr \in Int /\ seg.filesz \in Nat /\ seg.memsz \in Nat /\ seg.rest \in Nat
    /\ seg.data \in Words /\ seg.data # Null

LEMMA FitsIs ==
    ASSUME NEW seg, IsHeader(seg), InUserRange(seg), Fits(seg)
    PROVE  /\ Wrapped(seg.vaddr + seg.memsz) = seg.vaddr + seg.memsz
           /\ ClearRun(seg) = [from |-> seg.vaddr + seg.filesz, count |-> seg.memsz - seg.filesz,
                               word |-> 0]
<1> USE DEF IsHeader, InUserRange, Fits
<1>1. USER_START \in Nat /\ ADDR_MOD \in Nat BY MemoryAssumption
<1> DEFINE rest == seg.memsz - seg.filesz
<1>2. Wrapped(seg.vaddr + seg.memsz) = seg.vaddr + seg.memsz
      /\ Wrapped(seg.vaddr + seg.filesz) = seg.vaddr + seg.filesz
  BY <1>1, WrapIs
<1>3. rest \in 0 .. ADDR_MOD - 1 /\ ADDR_MOD > 0 BY <1>1
<1> DEFINE q == rest \div ADDR_MOD
           r == rest % ADDR_MOD
<1>4. r = rest
  <2> HIDE DEF rest
  <2>1. q \in Int /\ r \in 0 .. ADDR_MOD - 1 /\ rest = ADDR_MOD * q + r BY <1>1, <1>3, DivMod
  <2> HIDE DEF q, r
  <2>2. ADDR_MOD * q + r = ADDR_MOD * 0 + rest BY <1>1, <1>3, <2>1
  <2> QED BY ONLY <1>1, <1>3, <2>1, <2>2, DivUnique, 0 \in Int
<1> QED BY <1>2, <1>4 DEF ClearRun

LEMMA RangePagesAre ==
    ASSUME NEW seg, IsHeader(seg), InUserRange(seg)
    PROVE  LET pages == RangePages(seg.vaddr, seg.memsz)
           IN \E len \in Nat :
                 /\ pages \in [1 .. len -> UserPages]
                 /\ Fits(seg) => \A a \in seg.vaddr .. seg.vaddr + seg.memsz - 1 :
                       \E k \in 1 .. len : pages[k] = a \div PAGE_SIZE
<1> DEFINE v == seg.vaddr
           end == Wrapped(v + seg.memsz)
           s == Ahead(v, end)
           len == (s + PAGE_SIZE - 1) \div PAGE_SIZE
<1>1. v \in Nat /\ v + seg.memsz \in Int BY DEF IsHeader, InUserRange
<1>2. end \in Int BY <1>1, WrapIs
<1>3. end < USER_END BY DEF InUserRange
<1>4. Fits(seg) => end = v + seg.memsz BY FitsIs
<1>5. RangePages(v, seg.memsz) = Stepped(v, len) BY DEF RangePages
<1> HIDE DEF end
<1>6. s \in Nat /\ (s > 0 => v + s < USER_END) BY <1>1, <1>2, <1>3 DEF Ahead
<1>7. Fits(seg) => s = seg.memsz BY <1>1, <1>4 DEF Ahead, IsHeader
<1>8. Fits(seg) => (v % PAGE_SIZE) + seg.memsz
                      <= PAGE_SIZE * ((seg.memsz + PAGE_SIZE - 1) \div PAGE_SIZE)
  BY DEF Fits
<1> HIDE DEF v, s
<1>9. /\ len \in Nat /\ Stepped(v, len) \in [1 .. len -> UserPages]
      /\ (v % PAGE_SIZE) + s <= PAGE_SIZE * len =>
            \A a \in v .. v + s - 1 : \E k \in 1 .. len : Stepped(v, len)[k] = a \div PAGE_SIZE
  BY <1>1, <1>6, SteppedPages
<1>10. Fits(seg) => (v % PAGE_SIZE) + s <= PAGE_SIZE * len BY <1>7, <1>8
<1> HIDE DEF len
<1>11. Fits(seg) => \A a \in v .. v + seg.memsz - 1 :
                       \E k \in 1 .. len : Stepped(v, len)[k] = a \div PAGE_SIZE
  BY <1>7, <1>9, <1>10
<1> QED BY <1>5, <1>9, <1>11 DEF v

------------------------------------------------------------------------------
(* The memory of a process *)

\* What is mapped is of the space it is mapped in.
LEMMA AtRoot ==
    ASSUME NEW m \in M, NEW o, Owned(m, o), NEW rt \in Frames, NEW page \in UserPages,
           NEW c \in Frames, At(o, c, rt, page)
    PROVE  LET g == o[c].up[1]
               h == o[g].up[1]
           IN /\ g \in Frames /\ h \in Frames /\ o[rt].kind = "root"
              /\ o[c].root = rt /\ o[g].root = rt /\ o[h].root = rt
<1> DEFINE g == o[c].up[1]
           h == o[g].up[1]
<1>1. VPN1(page) \in 0 .. 1 /\ VPN0(page) \in 0 .. 1 BY PageSplit
<1>2. o \in Owners BY DEF Owned
<1>3. g \in Frames BY <1>2 DEF Owners
<1>4. h \in Frames BY <1>2, <1>3 DEF Owners
<1>5. /\ o[c].kind = "page" /\ o[g].kind = "pt0" /\ o[h].kind = "pt1"
      /\ o[c].up = <<g, VPN0(page)>> /\ o[g].up = <<h, VPN1(page)>> /\ o[h].up = <<rt, 1>>
  BY DEF At
<1> HIDE DEF g, h
<1>6. g # NoFrame /\ h # NoFrame /\ rt # NoFrame
  <2>1. g # NoFrame /\ h # NoFrame BY <1>5, FrameKinds DEF Owned
  <2>2. UpOK(m, o, h) BY <1>4, <1>5 DEF Owned, Tree, Kids, Detached
  <2> QED BY <1>5, <2>1, <2>2, FrameKinds DEF Owned, UpOK, Tabs
<1>7. UpOK(m, o, c) /\ UpOK(m, o, g) /\ UpOK(m, o, h)
  BY <1>3, <1>4, <1>5, <1>6 DEF Owned, Tree, Kids, Detached
<1>8. o[rt].kind = "root" BY <1>5, <1>7 DEF UpOK, Kid, Tabs
<1>9. EntryOK(m, o, rt, 1) /\ EntryOK(m, o, h, VPN1(page)) /\ EntryOK(m, o, g, VPN0(page))
  BY <1>1, <1>3, <1>4, <1>5, <1>8 DEF Owned, Tree, Tabs
<1>10. m.mem[rt].pte[1].ppn = h /\ m.mem[rt].pte[1] # null_pte
  BY <1>5, <1>7, NullTyped DEF UpOK
<1>11. m.mem[h].pte[VPN1(page)].ppn = g /\ m.mem[h].pte[VPN1(page)] # null_pte
  BY <1>5, <1>7, NullTyped DEF UpOK
<1>12. m.mem[g].pte[VPN0(page)].ppn = c /\ m.mem[g].pte[VPN0(page)] # null_pte
  BY <1>5, <1>7, NullTyped DEF UpOK
<1>13. o[rt].root = rt BY <1>8 DEF Owned, Tree
<1>14. o[h].root = rt BY <1>8, <1>9, <1>10, <1>13 DEF EntryOK
<1>15. o[g].root = rt BY <1>5, <1>9, <1>11, <1>14 DEF EntryOK
<1>16. o[c].root = rt BY <1>5, <1>9, <1>12, <1>15 DEF EntryOK
<1> QED BY <1>3, <1>4, <1>8, <1>14, <1>15, <1>16 DEF g, h

\* What every word of the user range of a space holds.
View(m, o, rt) ==
    [a \in Addrs |->
        IF \E c \in Pool : At(o, c, rt, a \div PAGE_SIZE)
        THEN m.mem[CHOOSE c \in Pool : At(o, c, rt, a \div PAGE_SIZE)].data[a % PAGE_SIZE]
        ELSE Null]

LEMMA ViewAt ==
    ASSUME NEW m \in M, NEW o, Owned(m, o), NEW rt \in Frames, NEW a \in Addrs,
           NEW c \in Pool, At(o, c, rt, a \div PAGE_SIZE)
    PROVE  View(m, o, rt)[a] = m.mem[c].data[a % PAGE_SIZE]
<1>1. a \div PAGE_SIZE \in UserPages BY AddrSplit
<1> DEFINE d == CHOOSE x \in Pool : At(o, x, rt, a \div PAGE_SIZE)
<1>2. d \in Pool /\ At(o, d, rt, a \div PAGE_SIZE) OBVIOUS
<1>3. View(m, o, rt)[a] = m.mem[d].data[a % PAGE_SIZE] BY DEF View
<1> HIDE DEF d
<1>4. c \in Frames /\ d \in Frames BY <1>2, FrameKinds
<1>5. c = d BY <1>1, <1>2, <1>4, AtUnique
<1> QED BY <1>3, <1>5

LEMMA ViewNull ==
    ASSUME NEW m, NEW o, NEW rt, NEW a \in Addrs, \A c \in Pool : ~At(o, c, rt, a \div PAGE_SIZE)
    PROVE  View(m, o, rt)[a] = Null
BY DEF View

\* Where the same pages are mapped, with the same data, memory is the same.
LEMMA ViewSame ==
    ASSUME NEW m \in M, NEW o, Owned(m, o), NEW r \in M, NEW o2, Owned(r, o2), NEW rt \in Frames,
           \A c \in Pool : \A page \in UserPages : At(o, c, rt, page) <=> At(o2, c, rt, page),
           \A c \in Pool : \A page \in UserPages :
              At(o, c, rt, page) => r.mem[c].data = m.mem[c].data
    PROVE  View(r, o2, rt) = View(m, o, rt)
<1>1. ASSUME NEW a \in Addrs PROVE View(r, o2, rt)[a] = View(m, o, rt)[a]
  <2> DEFINE page == a \div PAGE_SIZE
  <2>1. page \in UserPages BY AddrSplit
  <2>2. CASE \E c \in Pool : At(o, c, rt, page)
    <3>1. PICK c \in Pool : At(o, c, rt, page) BY <2>2
    <3>2. At(o2, c, rt, page) BY <2>1, <3>1
    <3>4. r.mem[c].data = m.mem[c].data BY <2>1, <3>1
    <3>5. View(m, o, rt)[a] = m.mem[c].data[a % PAGE_SIZE] BY <3>1, ViewAt
    <3>6. View(r, o2, rt)[a] = r.mem[c].data[a % PAGE_SIZE] BY <3>2, ViewAt
    <3> QED BY <3>4, <3>5, <3>6
  <2>3. CASE \A c \in Pool : ~At(o, c, rt, page)
    <3>1. \A c \in Pool : ~At(o2, c, rt, page) BY <2>1, <2>3
    <3> QED BY <2>3, <3>1, ViewNull
  <2> QED BY <2>2, <2>3
<1> QED BY <1>1 DEF View

\* What a space gains leaves the others as they are.
LEMMA GrownAt ==
    ASSUME NEW m \in M, NEW o, Owned(m, o), NEW r \in M, NEW o2, NEW rt, NEW X,
           Grown(m, o, r, o2, rt, X), NEW t \in Frames, NEW c \in Pool, NEW page \in UserPages,
           t # rt \/ o[c].kind # "free"
    PROVE  At(o2, c, t, page) <=> At(o, c, t, page)
<1>1. o \in Owners /\ o2 \in Owners /\ Owned(r, o2) BY DEF Owned, Grown
<1>2. \A f \in Frames : o[f].kind # "free" => o2[f] = o[f] BY DEF Grown
<1>3. c \in Frames BY FrameKinds
<1>4. At(o, c, t, page) => At(o2, c, t, page) BY <1>1, <1>2, <1>3, AtKept
<1>5. ASSUME At(o2, c, t, page) PROVE At(o, c, t, page)
  <2> DEFINE g == o2[c].up[1]
             h == o2[g].up[1]
  <2>1. /\ g \in Frames /\ h \in Frames
        /\ o2[c].root = t /\ o2[g].root = t /\ o2[h].root = t
    BY SMTT(30), <1>1, <1>3, <1>5, AtRoot
  <2>2. o2[c].kind = "page" /\ o2[g].kind = "pt0" /\ o2[h].kind = "pt1"
        /\ o2[c].up = <<g, VPN0(page)>> /\ o2[g].up = <<h, VPN1(page)>> /\ o2[h].up = <<t, 1>>
    BY ZenonT(30), <1>5 DEF At
  <2> HIDE DEF g, h
  <2>3. CASE t # rt
    <3>1. o[c].kind # "free" /\ o[g].kind # "free" /\ o[h].kind # "free"
      BY <1>3, <2>1, <2>2, <2>3 DEF Grown
    <3>2. o[c] = o2[c] /\ o[g] = o2[g] /\ o[h] = o2[h] BY SMTT(30), <1>2, <1>3, <2>1, <3>1
    <3> QED BY SMTT(30), <2>2, <3>2 DEF At
  <2>4. CASE o[c].kind # "free"
    <3>1. o[c] = o2[c] BY <1>2, <1>3, <2>4
    <3>3. g # NoFrame /\ h # NoFrame BY <1>1, <2>1, <2>2, FrameKinds DEF Owned
    <3>4. UpOK(m, o, c) BY <1>3, <2>2, <3>1, <3>3 DEF Owned, Tree, Kids, Detached
    <3>5. o[g].kind # "free" BY <2>2, <3>1, <3>4 DEF UpOK, Tabs
    <3>6. o[g] = o2[g] BY <1>2, <2>1, <3>5
    <3>7. UpOK(m, o, g) BY <2>1, <2>2, <3>3, <3>6 DEF Owned, Tree, Kids, Detached
    <3>8. o[h].kind # "free" BY <2>2, <3>6, <3>7 DEF UpOK, Tabs
    <3>9. o[h] = o2[h] BY <1>2, <2>1, <3>8
    <3> QED BY <2>2, <3>1, <3>6, <3>9 DEF At
  <2> QED BY <2>3, <2>4
<1> QED BY <1>4, <1>5

LEMMA GrownView ==
    ASSUME NEW m \in M, NEW o, Owned(m, o), NEW r \in M, NEW o2, NEW rt, NEW X,
           Grown(m, o, r, o2, rt, X), NEW t \in Frames, t # rt
    PROVE  View(r, o2, t) = View(m, o, t)
<1>1. \A c \in Pool : \A page \in UserPages : At(o, c, t, page) <=> At(o2, c, t, page)
  BY GrownAt
<1>2. Owned(r, o2) BY SMTT(30) DEF Grown
<1>3. ASSUME NEW c \in Pool, NEW page \in UserPages, At(o, c, t, page)
      PROVE  r.mem[c].data = m.mem[c].data
  <2>1. c \in Frames BY FrameKinds
  <2> QED BY Zenon, <1>3, <2>1 DEF Grown, At
<1> QED BY <1>1, <1>2, <1>3, ViewSame

------------------------------------------------------------------------------
(* What is always so of the frames, of the roots in use and of those that are   *)
(* not any more, and of the kernel stacks.                                     *)

NoneDetached(o) == \A f \in Frames : o[f].kind \in Kids => o[f].up # Detached
RootsAre(m, o, roots) ==
    \A f \in Frames : /\ o[f].kind = "root" <=> f \in roots
                      /\ o[f].kind = "root" => m.mem[f].pte[0] = kernel_pte
GoneMapNothing(m, o, gone) ==
    \A f \in Frames, j \in 0 .. 1 :
        o[f].kind = "pt0" /\ o[f].root \in gone => m.mem[f].pte[j] = null_pte
NoNulls(m, o) ==
    \A f \in Frames : o[f].kind = "page" => \A x \in 0 .. PAGE_SIZE - 1 : m.mem[f].data[x] # Null

Spaced(m, o, roots, gone, stk) ==
    /\ m \in M /\ Owned(m, o) /\ AllUser(m, o) /\ NoneDetached(o)
    /\ \A f \in Frames : o[f].kind = "stack" <=> f \in stk
    /\ RootsAre(m, o, roots \cup gone \cup {main_pt2})
    /\ GoneMapNothing(m, o, gone)
    /\ NoNulls(m, o)

LEMMA ZeroNotNull == 0 # Null /\ \A x \in 0 .. PAGE_SIZE - 1 : Zeroed.data[x] = 0
BY ImagesAssumption DEF Zeroed

\* Mapping pages in a space in use.
LEMMA MapsSpaced ==
    ASSUME NEW m, NEW o, NEW roots, NEW gone, NEW stk, Spaced(m, o, roots, gone, stk),
           NEW rt \in Frames, rt \notin gone,
           NEW r, NEW o2, NEW pages \in SUBSET UserPages, Maps(m, o, r, o2, rt, pages)
    PROVE  Spaced(r, o2, roots, gone, stk)
<1> USE DEF Spaced
<1>1. Grown(m, o, r, o2, rt, {}) BY DEF Maps
<1>2. ASSUME NEW f \in Frames, o[f].kind # "free"
      PROVE  /\ o2[f] = o[f] /\ r.mem[f].data = m.mem[f].data
             /\ o[f].root # rt => r.mem[f] = m.mem[f]
             /\ o[f].kind = "root" => r.mem[f].pte[0] = m.mem[f].pte[0]
  BY <1>1, <1>2 DEF Grown
<1>3. ASSUME NEW f \in Frames, o[f].kind = "free", o2[f].kind # "free"
      PROVE  o2[f].kind \in Kids /\ o2[f].root = rt /\ o2[f].up # Detached
  BY <1>1, <1>3 DEF Grown
<1>4. r \in M /\ Owned(r, o2) /\ AllUser(r, o2) BY <1>1 DEF Maps, Grown
<1>5. NoneDetached(o2) BY <1>2, <1>3 DEF NoneDetached, Kids
<1>6. \A f \in Frames : o2[f].kind = "stack" <=> f \in stk BY <1>2, <1>3 DEF Kids
<1>7. RootsAre(r, o2, roots \cup gone \cup {main_pt2}) BY <1>2, <1>3 DEF Kids, RootsAre
<1>8. GoneMapNothing(r, o2, gone)
  <2> SUFFICES ASSUME NEW f \in Frames, NEW j \in 0 .. 1, o2[f].kind = "pt0", o2[f].root \in gone
               PROVE  r.mem[f].pte[j] = null_pte
    BY DEF GoneMapNothing
  <2>1. o[f].kind # "free" BY <1>3
  <2> QED BY <1>2, <2>1 DEF GoneMapNothing
<1>9. NoNulls(r, o2)
  <2> SUFFICES ASSUME NEW f \in Frames, o2[f].kind = "page", NEW x \in 0 .. PAGE_SIZE - 1
               PROVE  r.mem[f].data[x] # Null
    BY DEF NoNulls
  <2>1. CASE o[f].kind # "free" BY <1>2, <2>1 DEF NoNulls
  <2>2. CASE o[f].kind = "free"
    <3>1. f \in Pool BY <1>4, <2>2, FrameKinds DEF Owned
    <3>2. r.mem[f].data = Zeroed.data BY <2>2, <3>1 DEF Maps
    <3> QED BY <3>2, ZeroNotNull
  <2> QED BY <2>1, <2>2
<1> QED BY <1>4, <1>5, <1>6, <1>7, <1>8, <1>9

\* The space has zeroes where it had nothing.
LEMMA MapsView ==
    ASSUME NEW m, NEW o, NEW roots, NEW gone, NEW stk, Spaced(m, o, roots, gone, stk),
           NEW rt \in Frames,
           NEW r, NEW o2, NEW pages \in SUBSET UserPages, Maps(m, o, r, o2, rt, pages)
    PROVE  View(r, o2, rt) = A!Extended(View(m, o, rt), pages)
<1>1. Grown(m, o, r, o2, rt, {}) BY DEF Maps
<1>2. m \in M /\ Owned(m, o) /\ NoNulls(m, o) BY DEF Spaced
<1>3. r \in M /\ Owned(r, o2) BY <1>1 DEF Grown
<1>4. ASSUME NEW a \in Addrs
      PROVE  View(r, o2, rt)[a] = IF View(m, o, rt)[a] = Null /\ a \div PAGE_SIZE \in pages
                                  THEN 0 ELSE View(m, o, rt)[a]
  <2> DEFINE page == a \div PAGE_SIZE
             x == a % PAGE_SIZE
  <2>1. page \in UserPages /\ x \in 0 .. PAGE_SIZE - 1 BY AddrSplit
  <2>2. CASE \E c \in Pool : At(o, c, rt, page)
    <3>1. PICK c \in Pool : At(o, c, rt, page) BY <2>2
    <3>2. c \in Frames BY SMTT(30), FrameKinds
    <3>3. o[c].kind = "page" BY Zenon, <3>1 DEF At
    <3>4. At(o2, c, rt, page) BY <1>1, <1>2, <1>3, <2>1, <3>1, <3>3, GrownAt
    <3>5. View(m, o, rt)[a] = m.mem[c].data[x] BY <1>2, <3>1, ViewAt
    <3>6. View(r, o2, rt)[a] = r.mem[c].data[x] BY <1>3, <3>4, ViewAt
    <3>7. r.mem[c].data = m.mem[c].data BY <1>1, <3>2, <3>3 DEF Grown
    <3>8. m.mem[c].data[x] # Null BY <1>2, <2>1, <3>2, <3>3 DEF NoNulls
    <3> QED BY <3>5, <3>6, <3>7, <3>8
  <2>3. CASE \A c \in Pool : ~At(o, c, rt, page)
    <3>1. View(m, o, rt)[a] = Null BY <2>3, ViewNull
    <3>2. CASE page \in pages
      <4>1. PICK c \in Pool : At(o2, c, rt, page) BY <3>2 DEF Maps
      <4>2. o[c].kind = "free" BY SMTT(30), <1>1, <1>2, <1>3, <2>1, <2>3, <4>1, GrownAt
      <4>3. o2[c].kind = "page" BY Zenon, <4>1 DEF At
      <4>4. r.mem[c].data = Zeroed.data BY <4>2, <4>3 DEF Maps
      <4>5. View(r, o2, rt)[a] = r.mem[c].data[x] BY <1>3, <4>1, ViewAt
      <4> QED BY <2>1, <3>1, <3>2, <4>4, <4>5, ZeroNotNull
    <3>3. CASE page \notin pages
      <4>1. ASSUME NEW c \in Pool, At(o2, c, rt, page) PROVE FALSE
        <5>1. o[c].kind = "free" BY SMTT(30), <1>1, <1>2, <1>3, <2>1, <2>3, <4>1, GrownAt
        <5>2. o2[c].kind = "page" BY Zenon, <4>1 DEF At
        <5>3. PICK q \in pages : At(o2, c, rt, q) BY <5>1, <5>2 DEF Maps
        <5>4. q \in UserPages /\ c \in Frames BY FrameKinds
        <5> HIDE DEF page
        <5>5. q = page BY <1>3, <2>1, <4>1, <5>3, <5>4, AtUnique
        <5> QED BY <3>3, <5>5
      <4>2. View(r, o2, rt)[a] = Null BY <4>1, ViewNull
      <4> QED BY <3>1, <3>3, <4>2
    <3> QED BY <3>2, <3>3
  <2> QED BY <2>2, <2>3
<1>5. View(r, o2, rt) = [a \in Addrs |-> View(r, o2, rt)[a]] BY DEF View
<1> QED BY <1>4, <1>5 DEF A!Extended, A!PageOf, A!Addrs, Addrs

\* Writing to what is mapped.
LEMMA FilledSpaced ==
    ASSUME NEW m, NEW o, NEW roots, NEW gone, NEW stk, Spaced(m, o, roots, gone, stk),
           NEW rt \in Frames,
           NEW r, NEW run, run.word # Null,
           FilledTo(m, o, r, rt, run, run.count), r.page = main_pt2
    PROVE  Spaced(r, o, roots, gone, stk)
<1> USE DEF Spaced
<1>1. SameTables(m, r) BY DEF FilledTo
<1>2. r \in M /\ \A f \in Frames : r.mem[f].pte = m.mem[f].pte BY <1>1 DEF SameTables
<1>3. Owned(r, o) BY <1>1, SameOwned
<1>4. AllUser(r, o) BY <1>2 DEF AllUser
<1>5. RootsAre(r, o, roots \cup gone \cup {main_pt2}) BY <1>2 DEF RootsAre
<1>6. GoneMapNothing(r, o, gone) BY <1>2 DEF GoneMapNothing
<1>7. NoNulls(r, o)
  <2> SUFFICES ASSUME NEW f \in Frames, o[f].kind = "page", NEW x \in 0 .. PAGE_SIZE - 1
               PROVE  r.mem[f].data[x] # Null
    BY DEF NoNulls
  <2>1. CASE \E page \in UserPages : At(o, f, rt, page) /\ PAGE_SIZE * page + x \in Span(run, run.count)
    <3>1. r.mem[f].data[x] = run.word BY <2>1 DEF FilledTo
    <3> QED BY <3>1
  <2>2. CASE \A page \in UserPages : At(o, f, rt, page) => PAGE_SIZE * page + x \notin Span(run, run.count)
    <3>1. r.mem[f].data[x] = m.mem[f].data[x] BY <2>2 DEF FilledTo
    <3> QED BY <3>1 DEF NoNulls
  <2> QED BY <2>1, <2>2
<1> QED BY <1>2, <1>3, <1>4, <1>5, <1>6, <1>7

LEMMA FilledView ==
    ASSUME NEW m \in M, NEW o, Owned(m, o), NEW rt \in Frames, o[rt].kind = "root",
           NEW r, NEW run, FilledTo(m, o, r, rt, run, run.count), r.page = main_pt2, NEW a \in Addrs
    PROVE  View(r, o, rt)[a] = IF a \in Span(run, run.count) THEN run.word ELSE View(m, o, rt)[a]
<1> DEFINE page == a \div PAGE_SIZE
           x == a % PAGE_SIZE
           span == Span(run, run.count)
<1>1. page \in UserPages /\ x \in 0 .. PAGE_SIZE - 1 /\ a = PAGE_SIZE * page + x BY AddrSplit
<1>2. SameTables(m, r) BY DEF FilledTo
<1>3. r \in M /\ Owned(r, o) BY <1>2, SameOwned DEF SameTables
<1>4. CASE \E c \in Pool : At(o, c, rt, page)
  <2>1. PICK c \in Pool : At(o, c, rt, page) BY <1>4
  <2>2. c \in Frames BY FrameKinds
  <2>3. View(m, o, rt)[a] = m.mem[c].data[x] BY <2>1, ViewAt
  <2>4. View(r, o, rt)[a] = r.mem[c].data[x] BY <1>3, <2>1, ViewAt
  <2> HIDE DEF page, x, span
  <2>5. \A q \in UserPages : At(o, c, rt, q) => q = page BY <1>1, <2>1, <2>2, AtUnique
  <2>6. CASE a \in span
    <3>1. r.mem[c].data[x] = run.word BY <1>1, <2>1, <2>2, <2>6 DEF FilledTo, span
    <3> QED BY <2>4, <2>6, <3>1 DEF span
  <2>7. CASE a \notin span
    <3>1. r.mem[c].data[x] = m.mem[c].data[x] BY <1>1, <2>2, <2>5, <2>7 DEF FilledTo, span
    <3> QED BY <2>3, <2>4, <2>7, <3>1 DEF span
  <2> QED BY <2>6, <2>7
<1>5. CASE \A c \in Pool : ~At(o, c, rt, page)
  <2>1. View(m, o, rt)[a] = Null /\ View(r, o, rt)[a] = Null BY <1>5, ViewNull
  <2>2. a \notin span
    <3> SUFFICES ASSUME a \in span PROVE FALSE OBVIOUS
    <3>1. walk_pt(m, rt, page) # {} BY DEF FilledTo
    <3> HIDE DEF page
    <3> QED BY <1>1, <1>5, <3>1, WalkIsAt
  <2> QED BY <2>1, <2>2
<1> QED BY <1>4, <1>5

\* Filled neither runs out of pages nor leaves its domain.
LEMMA FilledOk ==
    ASSUME NEW m \in M, NEW rt \in Frames,
           NEW run, run.from \in Int, run.count \in Nat, run.word \in Words
    PROVE  Filled(m, rt, run) \in M /\ Filled(m, rt, run).ok = m.ok
<1> DEFINE len == run.count
<1>0. CASE ~(Touched(run) \subseteq Addrs)
  <2>1. Filled(m, rt, run) = [m EXCEPT !.page = NoFrame] BY <1>0 DEF Filled
  <2> QED BY <2>1, FrameKinds DEF M
<1> SUFFICES ASSUME Touched(run) \subseteq Addrs
             PROVE  Filled(m, rt, run) \in M /\ Filled(m, rt, run).ok = m.ok
  BY <1>0
<1>1. \A k \in 1 .. len : run.from + k - 1 \in Addrs
  <2>1. \A k \in 1 .. len : run.from + k - 1 \in Touched(run) BY DEF Touched
  <2> QED BY ONLY <2>1, Touched(run) \subseteq Addrs
<1>2. PICK g \in [0 .. len -> M] :
         /\ g[0] = [m EXCEPT !.page = main_pt2] /\ g[len] = Filled(m, rt, run)
         /\ \A k \in 1 .. len : g[k] = FillWord(g[k - 1], rt, run, run.from + k - 1)
  BY <1>1, FillFold
<1> DEFINE P == {k \in Nat : k <= len => g[k].ok = m.ok}
<1>3. 0 \in P BY <1>2 DEF M
<1>4. ASSUME NEW k \in Nat, k \in P PROVE k + 1 \in P
  <2> SUFFICES ASSUME k + 1 <= len PROVE g[k + 1].ok = m.ok OBVIOUS
  <2>1. k + 1 \in 1 .. len /\ k \in 0 .. len /\ k + 1 - 1 = k OBVIOUS
  <2> DEFINE a == run.from + (k + 1) - 1
  <2>2. a \in Addrs BY <1>1, <2>1
  <2>3. g[k + 1] = FillWord(g[k], rt, run, a) BY <1>2, <2>1
  <2>4. g[k] \in M /\ g[k].ok = m.ok BY <1>4, <2>1
  <2> HIDE DEF a
  <2>5. SameTables(g[k], FillWord(g[k], rt, run, a)) BY <2>2, <2>4, FillWordIs
  <2> QED BY ONLY <2>3, <2>4, <2>5 DEF SameTables
<1> HIDE DEF P
<1>5. len \in P BY <1>3, <1>4, Induction
<1>6. len <= len OBVIOUS
<1>7. len \in 0 .. len OBVIOUS
<1> QED BY <1>2, <1>5, <1>6, <1>7 DEF P

\* The pages of a segment are mapped.
\* A write of a run: it faults, or all it touches was mapped and has the word, and
\* nothing else has changed.
LEMMA RunKeeps ==
    ASSUME NEW m, NEW o, NEW roots, NEW gone, NEW stk, Spaced(m, o, roots, gone, stk),
           NEW rt \in Frames, o[rt].kind = "root",
           NEW run, run.from \in Int, run.count \in Nat, run.word \in Words, run.word # Null,
           Filled(m, rt, run).page # NoFrame
    PROVE  LET r == Filled(m, rt, run)
           IN /\ Spaced(r, o, roots, gone, stk)
              /\ \A a \in Touched(run) : a \in Addrs /\ View(m, o, rt)[a] # Null
              /\ \A a \in Addrs : View(r, o, rt)[a] = IF a \in Touched(run) THEN run.word
                                                    ELSE View(m, o, rt)[a]
              /\ \A t \in Frames : t # rt => View(r, o, t) = View(m, o, t)
<1> DEFINE r == Filled(m, rt, run)
<1>1. m \in M /\ Owned(m, o) BY DEF Spaced
<1>2. Touched(run) \subseteq Addrs
  <2> SUFFICES ASSUME ~(Touched(run) \subseteq Addrs) PROVE FALSE OBVIOUS
  <2>1. r = [m EXCEPT !.page = NoFrame] BY DEF Filled
  <2> QED BY <1>1, <2>1 DEF M
<1>3. FilledTo(m, o, r, rt, run, run.count) BY <1>1, <1>2, FilledIs
<1> HIDE DEF r
<1>4. r.page = main_pt2 BY <1>3 DEF FilledTo, r
<1>5. Spaced(r, o, roots, gone, stk) BY <1>3, <1>4, FilledSpaced
<1>6. r \in M /\ Owned(r, o) BY <1>5 DEF Spaced
<1>7. Touched(run) = Span(run, run.count) BY DEF Touched, Span
<1>8. ASSUME NEW a \in Touched(run) PROVE a \in Addrs /\ View(m, o, rt)[a] # Null
  <2> DEFINE page == a \div PAGE_SIZE
             x == a % PAGE_SIZE
  <2>1. a \in Addrs BY <1>2
  <2>2. page \in UserPages /\ x \in 0 .. PAGE_SIZE - 1 BY <2>1, AddrSplit
  <2>3. walk_pt(m, rt, page) # {} BY <1>3, <1>4, <1>7 DEF FilledTo
  <2> HIDE DEF x
  <2>4. PICK c \in Pool : At(o, c, rt, page)
    <3> HIDE DEF page
    <3> QED BY <1>1, <2>2, <2>3, WalkIsAt
  <2>5. View(m, o, rt)[a] = m.mem[c].data[x] BY <1>1, <2>1, <2>4, ViewAt DEF x
  <2>6. c \in Frames /\ o[c].kind = "page" BY Zenon, <2>4, FrameKinds DEF At
  <2> QED BY SMTT(30), <2>1, <2>2, <2>5, <2>6 DEF Spaced, NoNulls
<1>9. \A a \in Addrs : View(r, o, rt)[a] = IF a \in Touched(run) THEN run.word
                                           ELSE View(m, o, rt)[a]
  BY <1>1, <1>3, <1>4, <1>7, FilledView
<1>10. ASSUME NEW t \in Frames, t # rt PROVE View(r, o, t) = View(m, o, t)
  <2>1. ASSUME NEW c \in Pool, NEW page \in UserPages, At(o, c, t, page)
        PROVE  r.mem[c].data = m.mem[c].data
    <3>1. c \in Frames BY FrameKinds
    <3>2. \A q \in UserPages : ~At(o, c, rt, q) BY <1>1, <1>10, <2>1, <3>1, AtRoot
    <3>3. \A x \in 0 .. PAGE_SIZE - 1 : r.mem[c].data[x] = m.mem[c].data[x]
      BY <1>3, <1>4, <3>1, <3>2 DEF FilledTo
    <3>4. r.mem[c].data \in [0 .. PAGE_SIZE - 1 -> Words]
          /\ m.mem[c].data \in [0 .. PAGE_SIZE - 1 -> Words]
      BY <1>1, <1>6, <3>1 DEF M, Contents
    <3> DEFINE d1 == r.mem[c].data
               d2 == m.mem[c].data
    <3> HIDE DEF d1, d2
    <3>5. \A x \in 0 .. PAGE_SIZE - 1 : d1[x] = d2[x] BY <3>3 DEF d1, d2
    <3>6. /\ d1 = [x \in 0 .. PAGE_SIZE - 1 |-> d1[x]]
          /\ d2 = [x \in 0 .. PAGE_SIZE - 1 |-> d2[x]]
      BY <3>4 DEF d1, d2
    <3>7. d1 = d2 BY ONLY <3>5, <3>6, Zenon
    <3> QED BY <3>7 DEF d1, d2
  <2> QED BY <1>1, <1>6, <2>1, ViewSame
<1> QED BY <1>5, <1>8, <1>9, <1>10 DEF r

\* What is mapped does not fault.
LEMMA RunFits ==
    ASSUME NEW m \in M, NEW o, Owned(m, o), NEW rt \in Frames, o[rt].kind = "root",
           NEW run, run.from \in Int, run.count \in Nat, run.word \in Words,
           \A a \in Touched(run) : a \in Addrs /\ walk_pt(m, rt, a \div PAGE_SIZE) # {}
    PROVE  Filled(m, rt, run).page # NoFrame
<1> DEFINE r == Filled(m, rt, run)
<1>1. Touched(run) \subseteq Addrs OBVIOUS
<1>2. FilledTo(m, o, r, rt, run, run.count) BY <1>1, FilledIs
<1>3. Touched(run) = Span(run, run.count) BY DEF Touched, Span
<1> HIDE DEF r
<1>4. r.page = main_pt2 BY <1>2, <1>3 DEF FilledTo
<1> QED BY <1>4, FrameKinds DEF r

\* The pages of a segment are mapped.
LEMMA RangeMaps ==
    ASSUME NEW m \in M, NEW o, Owned(m, o), NEW rt \in Frames, o[rt].kind = "root",
           NEW fl \in MapFlags, NEW seg, IsHeader(seg), InUserRange(seg)
    PROVE  LET r == memory_alloc_and_map_range(m, rt, seg.vaddr, seg.memsz, fl)
               ps == Loading(seg).pages
           IN /\ r \in M /\ ps \in SUBSET UserPages
              /\ r.ok => \E o2 : Maps(m, o, r, o2, rt, ps)
              /\ Fits(seg) => \A a \in seg.vaddr .. seg.vaddr + seg.memsz - 1 :
                                 a \div PAGE_SIZE \in ps
<1> DEFINE r == memory_alloc_and_map_range(m, rt, seg.vaddr, seg.memsz, fl)
           pages == RangePages(seg.vaddr, seg.memsz)
           span == seg.vaddr .. seg.vaddr + seg.memsz - 1
           ps == Loading(seg).pages
<1>1. PICK len \in Nat :
         /\ pages \in [1 .. len -> UserPages]
         /\ Fits(seg) => \A a \in span : \E k \in 1 .. len : pages[k] = a \div PAGE_SIZE
  BY RangePagesAre
<1>2. fl \in SUBSET Flags BY DEF MapFlags, Flags
<1>3. r = MapAll(m, rt, pages, fl) BY DEF memory_alloc_and_map_range, MapAll
<1>4. ps = {pages[k] : k \in DOMAIN pages} BY DEF Loading
<1> HIDE DEF r, pages, span, ps
<1>5. DOMAIN pages = 1 .. len BY <1>1
<1>6. ps = {pages[k] : k \in 1 .. len} BY <1>4, <1>5
<1>7. PICK g : MapRun(g, m, rt, pages, fl, len) /\ g[len] = r
  BY <1>1, <1>2, <1>3, MapFold
<1>8. r \in M
  <2>1. len \in 0 .. len BY <1>1
  <2> QED BY <1>7, <2>1 DEF MapRun
<1>9. ASSUME r.ok PROVE \E o2 : Maps(m, o, r, o2, rt, ps)
  <2>1. g[len].ok BY <1>7, <1>9
  <2>2. \E o2 : Maps(m, o, g[len], o2, rt, {pages[k] : k \in 1 .. len})
    BY ONLY ZenonT(30), <1>1, <1>7, <2>1, MapAllKeeps, m \in M, Owned(m, o), rt \in Frames,
            o[rt].kind = "root", fl \in MapFlags
  <2> QED BY <1>6, <1>7, <2>2
<1>10. ps \in SUBSET UserPages BY <1>1, <1>6
<1>11. Fits(seg) => \A a \in span : a \div PAGE_SIZE \in ps BY <1>1, <1>6
<1> QED BY <1>8, <1>9, <1>10, <1>11 DEF r, ps, span

\* What elf_load writes of a segment.
LEMMA RunsAre ==
    ASSUME NEW seg, IsHeader(seg)
    PROVE  /\ ReadRun(seg).from \in Int /\ ReadRun(seg).count \in Nat
           /\ ReadRun(seg).word = seg.data /\ ReadRun(seg).word \in Words
           /\ ReadRun(seg).word # Null
           /\ ClearRun(seg).from \in Int /\ ClearRun(seg).count \in Nat
           /\ ClearRun(seg).word = 0 /\ ClearRun(seg).word \in Words /\ ClearRun(seg).word # Null
<1> USE DEF IsHeader
<1>1. 0 \in Words /\ 0 # Null BY ZeroNotNull DEF Words
<1> DEFINE d == seg.memsz - seg.filesz
<1>2. d \in Int /\ ADDR_MOD \in Nat /\ ADDR_MOD > 0 BY MemoryAssumption
<1>3. d % ADDR_MOD \in Nat
  <2> HIDE DEF d
  <2> QED BY <1>2, DivMod
<1>4. Wrapped(seg.vaddr + seg.filesz) \in Int BY WrapIs
<1> QED BY <1>1, <1>3, <1>4 DEF ReadRun, ClearRun

\* Those of a segment that fits are in its range.
LEMMA RunsFit ==
    ASSUME NEW seg, IsHeader(seg), InUserRange(seg), Fits(seg),
           NEW a \in Touched(ReadRun(seg)) \cup Touched(ClearRun(seg))
    PROVE  a \in Addrs /\ a \in seg.vaddr .. seg.vaddr + seg.memsz - 1
<1>1. /\ seg.vaddr \in Nat /\ seg.filesz \in Nat /\ seg.memsz \in Nat /\ seg.rest \in Nat
      /\ seg.filesz <= seg.memsz /\ seg.vaddr + seg.memsz < USER_END
  BY FitsIs DEF IsHeader, InUserRange, Fits
<1>2. ClearRun(seg).from = seg.vaddr + seg.filesz /\ ClearRun(seg).count = seg.memsz - seg.filesz
  BY FitsIs
<1>3. a \in seg.vaddr .. seg.vaddr + seg.memsz - 1 BY <1>1, <1>2 DEF Touched, ReadRun
<1>4. USER_END \in Int BY MemoryAssumption DEF USER_END, PTE_CNT
<1> QED BY <1>1, <1>3, <1>4 DEF Addrs

\* Of the segments that are loaded.
LoadFlags == {"R", "W", "X", "U"}

SegmentIn(m, o, r, o2, rt, seg, roots, gone, stk) ==
    /\ Spaced(r, o2, roots, gone, stk)
    /\ View(r, o2, rt) = A!WithSegment(View(m, o, rt), Loading(seg))
    /\ A!Writes(A!Extended(View(m, o, rt), Loading(seg).pages), Loading(seg))
    /\ \A t \in Frames : t # rt => View(r, o2, t) = View(m, o, t)

LEMMA SegmentLoads ==
    ASSUME NEW m, NEW o, NEW roots, NEW gone, NEW stk, Spaced(m, o, roots, gone, stk),
           NEW rt \in Frames, o[rt].kind = "root", rt \notin gone,
           NEW seg, IsHeader(seg), InUserRange(seg)
    PROVE  LET mapped == memory_alloc_and_map_range(m, rt, seg.vaddr, seg.memsz, LoadFlags)
               read == Filled(mapped, rt, ReadRun(seg))
               r == Filled(read, rt, ClearRun(seg))
           IN /\ r.ok = mapped.ok
              /\ Fits(seg) /\ mapped.ok => NoFrame \notin {read.page, r.page}
              /\ mapped.ok /\ NoFrame \notin {read.page, r.page} =>
                    \E o2 : SegmentIn(m, o, r, o2, rt, seg, roots, gone, stk)
<1> DEFINE mapped == memory_alloc_and_map_range(m, rt, seg.vaddr, seg.memsz, LoadFlags)
           one == ReadRun(seg)
           two == ClearRun(seg)
           read == Filled(mapped, rt, one)
           r == Filled(read, rt, two)
           ps == Loading(seg).pages
           old == View(m, o, rt)
<1>1. m \in M /\ Owned(m, o) BY DEF Spaced
<1>2. LoadFlags \in MapFlags BY DEF LoadFlags, MapFlags
<1>3. /\ mapped \in M /\ ps \in SUBSET UserPages
      /\ mapped.ok => \E o2 : Maps(m, o, mapped, o2, rt, ps)
      /\ Fits(seg) => \A a \in seg.vaddr .. seg.vaddr + seg.memsz - 1 : a \div PAGE_SIZE \in ps
  BY <1>1, <1>2, RangeMaps
<1>4. /\ one.from \in Int /\ one.count \in Nat /\ one.word \in Words
      /\ one.word = seg.data /\ one.word # Null
      /\ two.from \in Int /\ two.count \in Nat /\ two.word \in Words
      /\ two.word = 0 /\ two.word # Null
  BY RunsAre
<1>5. Fits(seg) => \A a \in Touched(one) \cup Touched(two) : a \in Addrs /\ a \div PAGE_SIZE \in ps
  BY <1>3, RunsFit
<1>6. /\ Loading(seg).read = Touched(one) /\ Loading(seg).clear = Touched(two)
      /\ Loading(seg).data = seg.data
  BY DEF Loading
<1> HIDE DEF mapped, one, two, ps, old
<1>7. read \in M /\ read.ok = mapped.ok BY <1>3, <1>4, FilledOk
<1> HIDE DEF read
<1>8. r.ok = mapped.ok BY <1>4, <1>7, FilledOk
<1>9. ASSUME mapped.ok
      PROVE  /\ Fits(seg) => NoFrame \notin {read.page, r.page}
             /\ NoFrame \notin {read.page, r.page} =>
                   \E o2 : SegmentIn(m, o, r, o2, rt, seg, roots, gone, stk)
  <2>1. PICK o2 : Maps(m, o, mapped, o2, rt, ps) BY <1>3, <1>9
  <2>2. Grown(m, o, mapped, o2, rt, {}) BY <2>1 DEF Maps
  <2>3. Owned(mapped, o2) /\ o2[rt].kind = "root" BY <2>2 DEF Grown
  <2>4. Spaced(mapped, o2, roots, gone, stk) BY <1>3, <2>1, MapsSpaced
  <2> HIDE DEF r
  <2>5. ASSUME Fits(seg), NEW a \in Touched(one) \cup Touched(two)
        PROVE  a \in Addrs /\ walk_pt(mapped, rt, a \div PAGE_SIZE) # {}
    <3> DEFINE page == a \div PAGE_SIZE
    <3>1. a \in Addrs /\ page \in ps BY <1>5, <2>5
    <3>2. page \in UserPages BY <1>3, <3>1
    <3> HIDE DEF page
    <3>3. PICK c \in Pool : At(o2, c, rt, page) BY <2>1, <3>1 DEF Maps
    <3>4. c \in Frames BY FrameKinds
    <3>5. walk_pt(mapped, rt, page) = {<<o2[c].up[1], VPN0(page)>>}
      BY <1>3, <2>3, <3>2, <3>3, <3>4, WalkFinds
    <3> QED BY <3>1, <3>5 DEF page
  <2>6. Fits(seg) => read.page # NoFrame
    <3> SUFFICES ASSUME Fits(seg) PROVE read.page # NoFrame OBVIOUS
    <3>1. \A a \in Touched(one) : a \in Addrs /\ walk_pt(mapped, rt, a \div PAGE_SIZE) # {} BY <2>5
    <3> QED BY ONLY <1>3, <1>4, <2>3, <3>1, RunFits, rt \in Frames DEF read
  <2>7. read.page # NoFrame =>
           /\ Spaced(read, o2, roots, gone, stk)
           /\ \A a \in Touched(one) : a \in Addrs /\ View(mapped, o2, rt)[a] # Null
           /\ \A a \in Addrs : View(read, o2, rt)[a] = IF a \in Touched(one) THEN one.word
                                                      ELSE View(mapped, o2, rt)[a]
           /\ \A t \in Frames : t # rt => View(read, o2, t) = View(mapped, o2, t)
    BY <1>4, <2>3, <2>4, RunKeeps DEF read
  <2>8. Fits(seg) => r.page # NoFrame
    <3> SUFFICES ASSUME Fits(seg) PROVE r.page # NoFrame OBVIOUS
    <3>1. Owned(read, o2) BY <2>6, <2>7 DEF Spaced
    <3>2. SameTables(mapped, read)
      <4>1. Touched(one) \subseteq Addrs BY <2>5
      <4>2. FilledTo(mapped, o2, read, rt, one, one.count)
        BY <1>3, <1>4, <2>3, <4>1, FilledIs DEF read
      <4> QED BY <4>2 DEF FilledTo
    <3>3. ASSUME NEW a \in Touched(two)
          PROVE  a \in Addrs /\ walk_pt(read, rt, a \div PAGE_SIZE) # {}
      <4> DEFINE page == a \div PAGE_SIZE
      <4>1. a \in Addrs /\ walk_pt(mapped, rt, page) # {} BY <2>5
      <4>2. page \in UserPages BY <4>1, AddrSplit
      <4> HIDE DEF page
      <4>3. walk_pt(read, rt, page) = walk_pt(mapped, rt, page) BY <1>3, <3>2, <4>2, SameWalk
      <4> QED BY <4>1, <4>3 DEF page
    <3> QED BY ONLY <1>4, <1>7, <2>3, <3>1, <3>3, RunFits, rt \in Frames DEF r
  <2>9. ASSUME read.page # NoFrame, r.page # NoFrame
        PROVE  SegmentIn(m, o, r, o2, rt, seg, roots, gone, stk)
    <3>1. /\ Spaced(r, o2, roots, gone, stk)
          /\ \A a \in Touched(two) : a \in Addrs /\ View(read, o2, rt)[a] # Null
          /\ \A a \in Addrs : View(r, o2, rt)[a] = IF a \in Touched(two) THEN two.word
                                                  ELSE View(read, o2, rt)[a]
          /\ \A t \in Frames : t # rt => View(r, o2, t) = View(read, o2, t)
      BY <1>4, <2>3, <2>7, <2>9, RunKeeps DEF r
    <3> DEFINE mid == View(mapped, o2, rt)
               new == View(r, o2, rt)
    <3>2. mid = A!Extended(old, ps) BY <1>3, <2>1, MapsView DEF old
    <3>3. new = [a \in Addrs |-> new[a]] BY DEF View
    <3> HIDE DEF mid, new
    <3>4. \A a \in Addrs : new[a] = IF a \in Touched(two) THEN 0
                                    ELSE IF a \in Touched(one) THEN seg.data ELSE mid[a]
      BY <1>4, <2>7, <2>9, <3>1 DEF mid, new
    <3>5. new = A!WithSegment(old, Loading(seg))
      <4>1. A!WithSegment(old, Loading(seg)) =
               [a \in Addrs |-> IF a \in Touched(two) THEN 0
                                ELSE IF a \in Touched(one) THEN seg.data ELSE mid[a]]
        BY <1>6, <3>2 DEF A!WithSegment, A!Addrs, Addrs, ps
      <4> QED BY <3>3, <3>4, <4>1
    <3>6. A!Writes(mid, Loading(seg))
      <4>1. ASSUME NEW a \in Touched(one) \cup Touched(two) PROVE a \in Addrs /\ mid[a] # Null
        <5>1. CASE a \in Touched(one) BY <2>7, <2>9, <5>1 DEF mid
        <5>2. CASE a \notin Touched(one)
          <6>1. a \in Addrs /\ View(read, o2, rt)[a] # Null BY <3>1, <5>2
          <6> QED BY <2>7, <2>9, <5>2, <6>1 DEF mid
        <5> QED BY <5>1, <5>2
      <4> QED BY <1>6, <4>1 DEF A!Writes, A!Addrs, Addrs
    <3>7. \A t \in Frames : t # rt => View(r, o2, t) = View(m, o, t)
      <4>1. \A t \in Frames : t # rt => View(mapped, o2, t) = View(m, o, t)
        BY <1>1, <1>3, <2>2, GrownView
      <4> QED BY <2>7, <2>9, <3>1, <4>1
    <3> QED BY <3>1, <3>2, <3>5, <3>6, <3>7 DEF SegmentIn, new, old, ps
  <2> QED BY <2>6, <2>8, <2>9
<1> QED BY <1>8, <1>9 DEF mapped, read, r, one, two

------------------------------------------------------------------------------
(* Unmapping *)

\* A page is mapped somewhere.
LEMMA PageIsAt ==
    ASSUME NEW m \in M, NEW o, Owned(m, o), NoneDetached(o),
           NEW c \in Frames, o[c].kind = "page"
    PROVE  \E page \in UserPages : At(o, c, o[c].root, page)
<1> DEFINE g == o[c].up[1]
           j0 == o[c].up[2]
           h == o[g].up[1]
           j1 == o[g].up[2]
           rt == o[h].up[1]
           i == o[h].up[2]
           page == 2 * j1 + j0
<1>1. \A f \in Frames : o[f].up[1] \in Frames /\ o[f].up[2] \in 0 .. 1
                        /\ o[f].up = <<o[f].up[1], o[f].up[2]>>
  BY SMTT(30) DEF Owned, Owners
<1>2. \A f \in Frames : o[f].kind \in Kids => UpOK(m, o, f) BY DEF Owned, Tree, NoneDetached
<1>3. g \in Frames /\ j0 \in 0 .. 1 /\ o[c].up = <<g, j0>> BY <1>1
<1>4. UpOK(m, o, c) BY <1>2 DEF Kids
<1>5. o[g].kind = "pt0" BY <1>4 DEF UpOK, Kid, Tabs
<1> HIDE DEF g, j0
<1>6. h \in Frames /\ j1 \in 0 .. 1 /\ o[g].up = <<h, j1>> BY <1>1, <1>3
<1>7. UpOK(m, o, g) BY <1>2, <1>3, <1>5 DEF Kids
<1>8. o[h].kind = "pt1" BY <1>5, <1>7 DEF UpOK, Kid, Tabs
<1> HIDE DEF h, j1
<1>9. rt \in Frames /\ i \in 0 .. 1 /\ o[h].up = <<rt, i>> BY <1>1, <1>6
<1>10. UpOK(m, o, h) BY SMTT(30), <1>2, <1>6, <1>8 DEF Kids
<1>11. o[rt].kind = "root" /\ m.mem[rt].pte[i].ppn = h /\ "V" \in m.mem[rt].pte[i].flags
  BY <1>8, <1>10 DEF UpOK, Kid, Tabs
<1> HIDE DEF rt, i
<1>12. EntryOK(m, o, rt, i) BY <1>9, <1>11 DEF Owned, Tree, Tabs
<1>13. h # main_pt1 BY <1>6, <1>8 DEF Owned
<1>14. i = 1 BY <1>9, <1>11, <1>12, <1>13, NullTyped DEF EntryOK, kernel_pte, ptab_pte
<1>15. page \in UserPages /\ VPN1(page) = j1 /\ VPN0(page) = j0
  BY SMTT(30), <1>3, <1>6 DEF UserPages, VPN1, VPN0, PTE_CNT
<1>16. At(o, c, rt, page)
  <2> HIDE DEF page
  <2> QED BY Zenon, <1>3, <1>5, <1>6, <1>8, <1>9, <1>14, <1>15 DEF At, g, h
<1> HIDE DEF page
<1>17. o[c].root = rt BY <1>9, <1>15, <1>16, AtRoot
<1> QED BY <1>15, <1>16, <1>17

\* One round of memory_unmap_and_free_user.
DropPage(n, rt, page) ==
    IF walk_pt(n, rt, page) = {} THEN n
    ELSE LET at == CHOOSE x \in walk_pt(n, rt, page) : TRUE
         IN unmap_user_page(n, at[1], at[2])

\* The space of rt loses pages, among them those of the user that are mapped at
\* the places in pages.
Less(m, o, r, o2, rt, pages) ==
    /\ r \in M /\ Owned(r, o2) /\ r.ok = m.ok
    /\ \A f \in Frames :
          \/ o2[f] = o[f] /\ r.mem[f].data = m.mem[f].data
          \/ o[f].kind = "page" /\ o[f].root = rt /\ o2[f].kind = "free"
    /\ \A f \in Frames : o[f].root # rt \/ o[f].kind = "root" => r.mem[f] = m.mem[f]
    /\ \A f \in Frames, j \in 0 .. 1 : o[f].kind = "pt0" =>
          r.mem[f].pte[j] = null_pte \/ r.mem[f].pte[j] = m.mem[f].pte[j]
    /\ AllUser(m, o) => \A page \in pages : \A c \in Pool : ~At(o2, c, rt, page)

LEMMA LessUser ==
    ASSUME NEW m, NEW o, NEW r, NEW o2, NEW rt, NEW pages, Less(m, o, r, o2, rt, pages), AllUser(m, o)
    PROVE  AllUser(r, o2)
<1> SUFFICES ASSUME NEW f \in Frames, NEW j \in 0 .. 1, o2[f].kind = "pt0"
             PROVE  r.mem[f].pte[j] = null_pte \/ "U" \in r.mem[f].pte[j].flags
  BY DEF AllUser
<1>1. o[f].kind = "pt0" BY SMTT(30) DEF Less
<1> QED BY <1>1 DEF Less, AllUser

\* What is mapped was mapped.
LEMMA LessAt ==
    ASSUME NEW m, NEW o, NEW r, NEW o2, NEW rt, NEW pages, Less(m, o, r, o2, rt, pages),
           NEW t \in Frames, NEW page \in UserPages, NEW c \in Pool, At(o2, c, t, page)
    PROVE  At(o, c, t, page)
<1> DEFINE g == o2[c].up[1]
           h == o2[g].up[1]
<1>1. r \in M /\ Owned(r, o2) /\ c \in Frames BY FrameKinds DEF Less
<1>2. g \in Frames /\ h \in Frames BY SMTT(30), <1>1, AtRoot
<1>3. /\ o2[c].kind = "page" /\ o2[g].kind = "pt0" /\ o2[h].kind = "pt1"
      /\ o2[c].up = <<g, VPN0(page)>> /\ o2[g].up = <<h, VPN1(page)>> /\ o2[h].up = <<t, 1>>
  BY Zenon DEF At
<1> HIDE DEF g, h
<1>4. o[c] = o2[c] /\ o[g] = o2[g] /\ o[h] = o2[h] BY <1>1, <1>2, <1>3 DEF Less
<1>5. o[c].up[1] = g /\ o[g].up[1] = h BY <1>3, <1>4
<1> QED BY <1>3, <1>4, <1>5 DEF At

LEMMA LessTrans ==
    ASSUME NEW m, NEW o, NEW m1, NEW o1, NEW m2, NEW o2, NEW rt \in Frames,
           NEW P \in SUBSET UserPages, NEW Q \in SUBSET UserPages,
           Less(m, o, m1, o1, rt, P), Less(m1, o1, m2, o2, rt, Q)
    PROVE  Less(m, o, m2, o2, rt, P \cup Q)
<1>1. m2 \in M /\ Owned(m2, o2) /\ m2.ok = m.ok BY DEF Less
<1>2. ASSUME NEW f \in Frames
      PROVE  /\ \/ o2[f] = o[f] /\ m2.mem[f].data = m.mem[f].data
                \/ o[f].kind = "page" /\ o[f].root = rt /\ o2[f].kind = "free"
             /\ o[f].root # rt \/ o[f].kind = "root" => m2.mem[f] = m.mem[f]
             /\ \A j \in 0 .. 1 : o[f].kind = "pt0" =>
                  m2.mem[f].pte[j] = null_pte \/ m2.mem[f].pte[j] = m.mem[f].pte[j]
  <2>1. CASE o1[f] = o[f] /\ m1.mem[f].data = m.mem[f].data
    BY <2>1 DEF Less
  <2>2. CASE o[f].kind = "page" /\ o[f].root = rt /\ o1[f].kind = "free"
    BY <2>2 DEF Less
  <2> QED BY <2>1, <2>2 DEF Less
<1>3. AllUser(m, o) => \A page \in P \cup Q : \A c \in Pool : ~At(o2, c, rt, page)
  <2> SUFFICES ASSUME AllUser(m, o), NEW page \in P \cup Q, NEW c \in Pool, At(o2, c, rt, page)
               PROVE  FALSE
    OBVIOUS
  <2>1. AllUser(m1, o1) BY LessUser
  <2>2. page \in UserPages OBVIOUS
  <2>3. At(o1, c, rt, page) BY <2>2, LessAt
  <2> QED BY <2>1, <2>3 DEF Less
<1> QED BY <1>1, <1>2, <1>3 DEF Less

LEMMA DropKeeps ==
    ASSUME NEW m \in M, NEW o, Owned(m, o), NEW rt \in Frames, o[rt].kind = "root",
           NEW page \in UserPages
    PROVE  \E o2 : Less(m, o, DropPage(m, rt, page), o2, rt, {page})
<1>1. CASE walk_pt(m, rt, page) = {}
  <2>1. DropPage(m, rt, page) = m BY <1>1 DEF DropPage
  <2>2. ASSUME NEW c \in Pool, At(o, c, rt, page) PROVE FALSE
    <3>1. c \in Frames BY FrameKinds
    <3>2. walk_pt(m, rt, page) = {<<o[c].up[1], VPN0(page)>>} BY <2>2, <3>1, WalkFinds
    <3> QED BY ONLY <1>1, <3>2
  <2>3. Less(m, o, m, o, rt, {page}) BY <2>2 DEF Less
  <2> QED BY <2>1, <2>3
<1>2. CASE walk_pt(m, rt, page) # {}
  <2>1. PICK c \in Pool : At(o, c, rt, page) /\ o[c].root = rt BY <1>2, WalkIsAt
  <2> DEFINE g == o[c].up[1]
             i == VPN0(page)
             r == DropPage(m, rt, page)
             f1 == memory_free_page(m, c)
             o2 == Freed(o, c)
  <2>2. c \in Frames /\ i \in 0 .. 1 BY FrameKinds, PageSplit
  <2>3. /\ walk_pt(m, rt, page) = {<<g, i>>}
        /\ g \in Frames /\ o[g].kind = "pt0"
        /\ m.mem[g].pte[i].ppn = c /\ LeafEntry(m.mem[g].pte[i])
    BY <2>1, <2>2, WalkFinds
  <2>4. o[g].root = rt BY <2>1, <2>2, AtRoot
  <2> HIDE DEF g
  <2>5. r = unmap_user_page(m, g, i)
    <3>1. (CHOOSE x \in {<<g, i>>} : TRUE) = <<g, i>> OBVIOUS
    <3>2. r = LET at == <<g, i>> IN unmap_user_page(m, at[1], at[2])
      BY <1>2, <2>3, <3>1 DEF DropPage
    <3> QED BY ONLY <3>2
  <2> HIDE DEF r, i
  <2>6. m.mem[g].pte[i] # null_pte BY <2>3, NullTyped DEF LeafEntry
  <2>7. CASE "U" \notin m.mem[g].pte[i].flags
    <3>1. r = m BY <2>5, <2>7 DEF unmap_user_page
    <3>2. ~AllUser(m, o) BY <2>2, <2>3, <2>6, <2>7 DEF AllUser
    <3>3. Less(m, o, m, o, rt, {page}) BY <3>2 DEF Less
    <3> QED BY <3>1, <3>3 DEF r
  <2>8. CASE "U" \in m.mem[g].pte[i].flags
    <3>1. r = SetPte(f1, g, i, null_pte) BY <2>3, <2>5, <2>8 DEF unmap_user_page, SetPte
    <3>2. Owned(r, o2) BY <2>2, <2>3, <2>6, <3>1, FreeKeeps
    <3>3. /\ f1 \in M /\ f1.ok = m.ok
          /\ \A f \in Frames : f # c => f1.mem[f] = m.mem[f]
      BY Zenon, FreeIs
    <3> HIDE DEF f1
    <3>4. IsSet(f1, r, g, i, null_pte) BY <2>2, <2>3, <3>1, <3>3, NullTyped, SetPteIs
    <3>5. /\ o2[c].kind = "free"
          /\ \A f \in Frames : f # c => o2[f] = o[f]
      BY <2>2 DEF Freed, Owned, Owners
    <3> HIDE DEF o2
    <3>6. o[c].kind = "page" /\ c # g BY Zenon, <2>1, <2>3 DEF At
    <3>7. r \in M /\ r.ok = m.ok BY <3>3, <3>4 DEF IsSet
    <3>8. ASSUME NEW f \in Frames
          PROVE  /\ \/ o2[f] = o[f] /\ r.mem[f].data = m.mem[f].data
                    \/ o[f].kind = "page" /\ o[f].root = rt /\ o2[f].kind = "free"
                 /\ o[f].root # rt \/ o[f].kind = "root" => r.mem[f] = m.mem[f]
                 /\ \A j \in 0 .. 1 : o[f].kind = "pt0" =>
                      r.mem[f].pte[j] = null_pte \/ r.mem[f].pte[j] = m.mem[f].pte[j]
      <4>1. CASE f = c BY <2>1, <3>5, <3>6, <4>1
      <4>2. CASE f # c BY <2>3, <2>4, <3>3, <3>4, <3>5, <4>2 DEF IsSet
      <4> QED BY <4>1, <4>2
    <3>9. ASSUME NEW d \in Pool, At(o2, d, rt, page) PROVE FALSE
      <4> DEFINE p == o2[d].up[1]
                 h == o2[p].up[1]
      <4>1. d \in Frames /\ p \in Frames /\ h \in Frames
        BY SMTT(30), <3>2, <3>7, <3>9, FrameKinds, AtRoot
      <4>2. /\ o2[d].kind = "page" /\ o2[p].kind = "pt0" /\ o2[h].kind = "pt1"
            /\ o2[d].up = <<p, VPN0(page)>> /\ o2[p].up = <<h, VPN1(page)>> /\ o2[h].up = <<rt, 1>>
        BY Zenon, <3>9 DEF At
      <4> HIDE DEF p, h
      <4>3. d # c /\ p # c /\ h # c BY <3>5, <4>2
      <4>4. o[d] = o2[d] /\ o[p] = o2[p] /\ o[h] = o2[h] BY SMTT(30), <3>5, <4>1, <4>3
      <4>5. At(o, d, rt, page) BY <4>2, <4>4 DEF At
      <4> QED BY <2>1, <2>2, <4>1, <4>3, <4>5, AtUnique
    <3>10. Less(m, o, r, o2, rt, {page}) BY <3>2, <3>7, <3>8, <3>9 DEF Less
    <3> QED BY <3>10 DEF r
  <2> QED BY <2>7, <2>8
<1> QED BY <1>1, <1>2

LEMMA UserPagesAre == Cardinality(UserPages) = 4
<1>1. UserPages = 0 .. 3 BY DEF UserPages, PTE_CNT
<1>2. Cardinality(0 .. 3) = IF 0 > 3 THEN 0 ELSE 3 - 0 + 1
  <2>1. 0 \in Int /\ 3 \in Int OBVIOUS
  <2> QED BY ONLY <2>1, FS_Interval, Zenon
<1>3. (IF 0 > 3 THEN 0 ELSE 3 - 0 + 1) = 4 OBVIOUS
<1> QED BY ONLY <1>1, <1>2, <1>3

LEMMA DropFold ==
    ASSUME NEW m \in M, NEW o, Owned(m, o), NEW rt \in Frames, o[rt].kind = "root"
    PROVE  \E g : /\ g[0] = m /\ g[4] = memory_unmap_and_free_user(m, rt)
                  /\ \A k \in 1 .. 4 : g[k] = DropPage(g[k - 1], rt, k - 1)
<1> DEFINE len == 4
           St == {n \in M : \E p : Owned(n, p) /\ p[rt].kind = "root"}
           Op(n, page) == DropPage(n, rt, page)
           at == [k \in 1 .. len |-> k - 1]
           r == FoldLeft(LAMBDA n, page : Op(n, page), m, at)
           step == [k \in 1 .. len |-> [x \in St |-> Op(x, at[k])]]
           Eq(it) == it = [s \in SUBSET (1 .. len) |->
              IF s = {} THEN m ELSE Op(it[s \ {Max(s)}], at[Max(s)])]
<1>0. m \in St OBVIOUS
<1>1. step \in Steps(len, St)
  <2>1. \A k \in 1 .. len : \A x \in St : Op(x, at[k]) \in St
    <3> SUFFICES ASSUME NEW k \in 1 .. len, NEW x \in St PROVE Op(x, at[k]) \in St OBVIOUS
    <3>1. at[k] \in UserPages BY DEF UserPages, PTE_CNT
    <3> HIDE DEF at
    <3>2. PICK p : Owned(x, p) /\ p[rt].kind = "root" OBVIOUS
    <3>3. PICK q : Less(x, p, Op(x, at[k]), q, rt, {at[k]}) BY <3>1, <3>2, DropKeeps
    <3>4. q[rt].kind = "root" BY <3>2, <3>3 DEF Less
    <3> HIDE DEF Op
    <3> QED BY <3>3, <3>4 DEF Less
  <2> HIDE DEF Op, at, St
  <2> QED BY <2>1 DEF Steps
<1>2. r = memory_unmap_and_free_user(m, rt)
  BY UserPagesAre DEF memory_unmap_and_free_user, DropPage
<1>3. at \in [1 .. len -> 0 .. 3] OBVIOUS
<1> HIDE DEF Op, St, at
<1>4. PICK f : Solves(f, m, len, step, St)
  <2> HIDE DEF step
  <2> QED BY ONLY <1>0, <1>1, FoldExists, len \in Nat
<1>5. ASSUME NEW s \in SUBSET (1 .. len), s # {}
      PROVE  Max(s) \in 1 .. len /\ \A x \in St : step[Max(s)][x] = Op(x, at[Max(s)])
  <2>1. Max(s) \in 1 .. len BY <1>5, MaxIndex
  <2> QED BY <2>1
<1>6. Eq(f) BY <1>4, <1>5 DEF Solves
<1>7. Eq(CHOOSE it : Eq(it)) BY <1>6
<1>8. PICK it : Eq(it) /\ r = it[1 .. len]
  <2>1. DOMAIN at = 1 .. len BY <1>3
  <2>2. r = (CHOOSE it : Eq(it))[1 .. len] BY <2>1 DEF FoldLeft, MapThenFoldSet
  <2> QED BY <1>7, <2>2
<1>9. StepsSolve(it, m, len, step, St) BY <1>5, <1>8 DEF StepsSolve
<1>10. PICK g : Values(g, m, len, step, St, it[1 .. len])
  <2> HIDE DEF step
  <2> QED BY ONLY <1>0, <1>1, <1>9, FoldSteps, len \in Nat
<1>11. g \in [0 .. len -> St] /\ g[0] = m /\ g[len] = r BY <1>8, <1>10 DEF Values
<1>12. \A k \in 1 .. len : g[k] = Op(g[k - 1], k - 1)
  <2> TAKE k \in 1 .. len
  <2>0. k - 1 \in 0 .. len OBVIOUS
  <2>1. g[k - 1] \in St BY <1>11, <2>0
  <2>2. g[k] = step[k][g[k - 1]] BY <1>10 DEF Values
  <2>3. at[k] = k - 1 BY DEF at
  <2> QED BY <2>1, <2>2, <2>3
<1> QED BY <1>2, <1>11, <1>12 DEF Op

LEMMA UnmapKeeps ==
    ASSUME NEW m \in M, NEW o, Owned(m, o), NEW rt \in Frames, o[rt].kind = "root"
    PROVE  \E o2 : Less(m, o, memory_unmap_and_free_user(m, rt), o2, rt, UserPages)
<1>1. PICK g : /\ g[0] = m /\ g[4] = memory_unmap_and_free_user(m, rt)
               /\ \A k \in 1 .. 4 : g[k] = DropPage(g[k - 1], rt, k - 1)
  BY DropFold
<1>2. g[1] = DropPage(g[0], rt, 0) BY <1>1
<1>3. g[2] = DropPage(g[1], rt, 1) BY <1>1
<1>4. g[3] = DropPage(g[2], rt, 2) BY <1>1
<1>5. g[4] = DropPage(g[3], rt, 3) BY <1>1
<1>6. ASSUME NEW n, NEW p, NEW P \in SUBSET UserPages, Less(m, o, n, p, rt, P),
             NEW page \in UserPages
      PROVE  \E q : Less(m, o, DropPage(n, rt, page), q, rt, P \cup {page})
  <2>1. n \in M /\ Owned(n, p) /\ p[rt].kind = "root" BY <1>6 DEF Less
  <2>2. PICK q : Less(n, p, DropPage(n, rt, page), q, rt, {page}) BY <2>1, DropKeeps
  <2> QED BY <1>6, <2>2, LessTrans
<1>7. UserPages = {0, 1, 2, 3} BY DEF UserPages, PTE_CNT
<1>8. PICK o1 : Less(m, o, g[1], o1, rt, {0}) BY <1>1, <1>2, <1>7, DropKeeps
<1>9. PICK o2 : Less(m, o, g[2], o2, rt, {0} \cup {1})
  <2>1. \E q : Less(m, o, DropPage(g[1], rt, 1), q, rt, {0} \cup {1}) BY <1>6, <1>7, <1>8
  <2> QED BY <1>3, <2>1
<1>10. PICK o3 : Less(m, o, g[3], o3, rt, ({0} \cup {1}) \cup {2})
  <2>1. \E q : Less(m, o, DropPage(g[2], rt, 2), q, rt, ({0} \cup {1}) \cup {2}) BY <1>6, <1>7, <1>9
  <2> QED BY <1>4, <2>1
<1>11. PICK o4 : Less(m, o, g[4], o4, rt, (({0} \cup {1}) \cup {2}) \cup {3})
  <2>1. \E q : Less(m, o, DropPage(g[3], rt, 3), q, rt, (({0} \cup {1}) \cup {2}) \cup {3})
    BY <1>6, <1>7, <1>10
  <2> QED BY <1>5, <2>1
<1>12. (({0} \cup {1}) \cup {2}) \cup {3} = UserPages BY <1>7
<1> QED BY <1>1, <1>11, <1>12

\* A space of which all pages are unmapped has nothing.
Cleared(m, o, r, o2, rt, roots, gone, stk) ==
    /\ Spaced(r, o2, roots, gone, stk) /\ GoneMapNothing(r, o2, {rt}) /\ r.ok = m.ok
    /\ View(r, o2, rt) = A!Empty
    /\ \A t \in Frames : t # rt => View(r, o2, t) = View(m, o, t)

LEMMA UnmapClears ==
    ASSUME NEW m, NEW o, NEW roots, NEW gone, NEW stk, Spaced(m, o, roots, gone, stk),
           NEW rt \in Frames, o[rt].kind = "root"
    PROVE  \E o2 : Cleared(m, o, memory_unmap_and_free_user(m, rt), o2, rt, roots, gone, stk)
<1> DEFINE r == memory_unmap_and_free_user(m, rt)
<1> USE DEF Spaced
<1>1. PICK o2 : Less(m, o, r, o2, rt, UserPages) BY UnmapKeeps
<1> HIDE DEF r
<1>2. r \in M /\ Owned(r, o2) /\ r.ok = m.ok BY <1>1 DEF Less
<1>3. AllUser(r, o2) BY <1>1, LessUser
<1>4. ASSUME NEW f \in Frames
      PROVE  /\ \/ o2[f] = o[f] /\ r.mem[f].data = m.mem[f].data
                \/ o[f].kind = "page" /\ o[f].root = rt /\ o2[f].kind = "free"
             /\ o[f].root # rt \/ o[f].kind = "root" => r.mem[f] = m.mem[f]
             /\ \A j \in 0 .. 1 : o[f].kind = "pt0" =>
                  r.mem[f].pte[j] = null_pte \/ r.mem[f].pte[j] = m.mem[f].pte[j]
  BY <1>1 DEF Less
<1>5. NoneDetached(o2) BY <1>4 DEF NoneDetached, Kids
<1>6. \A f \in Frames : o2[f].kind = "stack" <=> f \in stk BY <1>4
<1>7. RootsAre(r, o2, roots \cup gone \cup {main_pt2}) BY <1>4 DEF RootsAre
<1>8. \A f \in Frames : o2[f].kind \notin {"free"} => o2[f] = o[f] BY <1>4
<1>9. GoneMapNothing(r, o2, gone)
  <2> SUFFICES ASSUME NEW f \in Frames, NEW j \in 0 .. 1, o2[f].kind = "pt0", o2[f].root \in gone
               PROVE  r.mem[f].pte[j] = null_pte
    BY DEF GoneMapNothing
  <2> QED BY <1>4, <1>8 DEF GoneMapNothing
<1>10. NoNulls(r, o2)
  <2> SUFFICES ASSUME NEW f \in Frames, o2[f].kind = "page", NEW x \in 0 .. PAGE_SIZE - 1
               PROVE  r.mem[f].data[x] # Null
    BY DEF NoNulls
  <2> QED BY <1>4 DEF NoNulls
<1>11. \A page \in UserPages, c \in Pool : ~At(o2, c, rt, page) BY <1>1 DEF Less
<1>12. ASSUME NEW c \in Pool, o2[c].kind = "page" PROVE o2[c].root # rt
  <2>1. c \in Frames BY FrameKinds
  <2> QED BY <1>2, <1>5, <1>11, <1>12, <2>1, PageIsAt
<1>13. GoneMapNothing(r, o2, {rt})
  <2> SUFFICES ASSUME NEW f \in Frames, NEW j \in 0 .. 1, o2[f].kind = "pt0", o2[f].root = rt
               PROVE  r.mem[f].pte[j] = null_pte
    BY DEF GoneMapNothing
  <2>1. EntryOK(r, o2, f, j) BY <1>2 DEF Owned, Tree, Tabs
  <2> QED BY <1>12, <2>1 DEF EntryOK, Kid
<1>14. View(r, o2, rt) = A!Empty
  <2>1. \A a \in Addrs : View(r, o2, rt)[a] = Null
    <3> SUFFICES ASSUME NEW a \in Addrs PROVE View(r, o2, rt)[a] = Null OBVIOUS
    <3>1. a \div PAGE_SIZE \in UserPages BY AddrSplit
    <3> QED BY <1>11, <3>1, ViewNull
  <2>2. View(r, o2, rt) = [a \in Addrs |-> View(r, o2, rt)[a]] BY DEF View
  <2> QED BY <2>1, <2>2 DEF A!Empty, A!Addrs, Addrs
<1>15. ASSUME NEW t \in Frames, t # rt PROVE View(r, o2, t) = View(m, o, t)
  <2>1. ASSUME NEW c \in Pool, NEW page \in UserPages, At(o, c, t, page)
        PROVE  At(o2, c, t, page) /\ r.mem[c].data = m.mem[c].data
    <3> DEFINE g == o[c].up[1]
               h == o[g].up[1]
    <3>1. c \in Frames BY FrameKinds
    <3>2. /\ g \in Frames /\ h \in Frames
          /\ o[c].root = t /\ o[g].root = t /\ o[h].root = t
      BY SMTT(30), <2>1, <3>1, AtRoot
    <3>3. /\ o[c].kind = "page" /\ o[g].kind = "pt0" /\ o[h].kind = "pt1"
          /\ o[c].up = <<g, VPN0(page)>> /\ o[g].up = <<h, VPN1(page)>> /\ o[h].up = <<t, 1>>
      BY Zenon, <2>1 DEF At
    <3> HIDE DEF g, h
    <3>4. o2[c] = o[c] /\ o2[g] = o[g] /\ o2[h] = o[h] BY <1>4, <1>15, <3>1, <3>2
    <3>5. o2[c].up[1] = g /\ o2[g].up[1] = h BY SMTT(30), <3>3, <3>4
    <3>6. At(o2, c, t, page) BY <3>3, <3>4, <3>5 DEF At
    <3>7. r.mem[c] = m.mem[c] BY <1>4, <1>15, <3>1, <3>2
    <3> QED BY <3>6, <3>7
  <2>2. \A c \in Pool : \A page \in UserPages : At(o, c, t, page) <=> At(o2, c, t, page)
    BY <1>1, <2>1, LessAt
  <2> QED BY <1>2, <2>1, <2>2, ViewSame
<1>16. Spaced(r, o2, roots, gone, stk)
  BY <1>2, <1>3, <1>5, <1>6, <1>7, <1>9, <1>10
<1> QED BY <1>2, <1>13, <1>14, <1>15, <1>16 DEF Cleared, r

------------------------------------------------------------------------------
(* Copying a space *)

\* What is made of the entry i of pt in the table t of the copy, level by level:
\* a page, a table of pages, and a table of those.
CopyEntry(e, deep, n, s, t, i) ==
    IF ~verify_flags(e.flags) THEN n
    ELSE IF Shares(e) \/ ~deep THEN SetPte(n, t, i, e)
    ELSE SetPte(s, t, i, [e EXCEPT !.ppn = s.page])
Entry0(m, pt, t, n, i) ==
    LET e == m.mem[pt].pte[i] IN CopyEntry(e, TRUE, n, ClonePage(n, e.ppn), t, i)
Entry1(m, pt, t, n, i) ==
    LET e == m.mem[pt].pte[i] IN CopyEntry(e, IsTable(e), n, ClonePt0(n, e.ppn), t, i)
Entry2(m, pt, t, n, i) ==
    LET e == m.mem[pt].pte[i] IN CopyEntry(e, IsTable(e), n, ClonePt1(n, e.ppn), t, i)

LEMMA CopyTyped ==
    ASSUME NEW e \in Ptes, NEW deep, NEW n \in M, NEW s \in M, s.ok => n.ok,
           NEW t \in Frames, NEW i \in 0 .. 1
    PROVE  LET r == CopyEntry(e, deep, n, s, t, i) IN r \in M /\ (r.ok => n.ok)
<1> DEFINE e2 == [e EXCEPT !.ppn = s.page]
<1>1. IsSet(n, SetPte(n, t, i, e), t, i, e) BY SetPteIs
<1>2. CASE ~verify_flags(e.flags) BY <1>2 DEF CopyEntry
<1>3. CASE verify_flags(e.flags)
  <2>1. e2 \in Ptes BY <1>3 DEF M, Ptes, verify_flags
  <2> HIDE DEF e2
  <2>2. IsSet(s, SetPte(s, t, i, e2), t, i, e2) BY <2>1, SetPteIs
  <2>3. CopyEntry(e, deep, n, s, t, i) \in {n, SetPte(n, t, i, e), SetPte(s, t, i, e2)}
    BY DEF CopyEntry, e2
  <2> QED BY <1>1, <2>2, <2>3 DEF IsSet
<1> QED BY <1>2, <1>3

LEMMA PageTyped ==
    ASSUME NEW m \in M, NEW pp \in Frames
    PROVE  LET r == ClonePage(m, pp)
               a == memory_alloc_page(m)
           IN /\ r \in M /\ r.ok = a.ok /\ r.page = a.page /\ r.free = a.free
              /\ \A f \in Frames : r.mem[f].pte = a.mem[f].pte
              /\ \A f \in Frames :
                    r.mem[f].data = IF f = a.page THEN m.mem[pp].data ELSE a.mem[f].data
<1> DEFINE a == memory_alloc_page(m)
<1>1. a \in M BY AllocIs
<1>2. a.page \in Frames BY <1>1 DEF M
<1>3. m.mem[pp].data \in [0 .. PAGE_SIZE - 1 -> Words] BY DEF M, Contents
<1>4. ClonePage(m, pp) = [a EXCEPT !.mem[a.page].data = m.mem[pp].data] BY DEF ClonePage
<1> DEFINE d == m.mem[pp].data
           r == ClonePage(m, pp)
<1>5. r = [a EXCEPT !.mem = [a.mem EXCEPT ![a.page] = [a.mem[a.page] EXCEPT !.data = d]]]
  BY <1>4
<1> HIDE DEF a, d, r
<1>6. a.mem[a.page] \in Contents BY <1>1, <1>2 DEF M
<1> DEFINE new == [a.mem[a.page] EXCEPT !.data = d]
<1>7. new \in Contents /\ new.pte = a.mem[a.page].pte /\ new.data = d
  BY <1>3, <1>6 DEF Contents, d
<1> HIDE DEF new
<1>8. /\ r \in M /\ r.ok = a.ok /\ r.page = a.page /\ r.free = a.free
      /\ r.mem = [a.mem EXCEPT ![a.page] = new]
  BY <1>1, <1>2, <1>5, <1>7 DEF M, new
<1>9. \A f \in Frames : r.mem[f] = IF f = a.page THEN new ELSE a.mem[f]
  BY <1>1, <1>8 DEF M
<1> QED BY <1>7, <1>8, <1>9 DEF a, d, r

\* The two rounds of the copying of a table.
Rounds(r, a, b) == r = [b EXCEPT !.page = a.page]

LEMMA Clone0Is ==
    ASSUME NEW m \in M, NEW pt \in Frames
    PROVE  LET a == memory_alloc_page(m)
               b == Entry0(m, pt, a.page, a, 0)
               c == Entry0(m, pt, a.page, b, 1)
           IN /\ Rounds(ClonePt0(m, pt), a, c) /\ b \in M /\ c \in M
              /\ (b.ok => a.ok) /\ (c.ok => b.ok)
<1> DEFINE len == 2
           a == memory_alloc_page(m)
           Op(n, i) == Entry0(m, pt, a.page, n, i)
           at == [k \in 1 .. len |-> k - 1]
           r == FoldLeft(LAMBDA n, i : Op(n, i), a, at)
           step == [k \in 1 .. len |-> [x \in M |-> Op(x, at[k])]]
           Eq(it) == it = [s \in SUBSET (1 .. len) |->
              IF s = {} THEN a ELSE Op(it[s \ {Max(s)}], at[Max(s)])]
<1>1. a \in M /\ a.page \in Frames /\ (a.ok => m.ok)
  <2>1. a \in M /\ (a.ok => m.ok) BY AllocIs
  <2> QED BY <2>1 DEF M
<1>2. ASSUME NEW n \in M, NEW i \in 0 .. 1 PROVE Op(n, i) \in M /\ (Op(n, i).ok => n.ok)
  <2> DEFINE e == m.mem[pt].pte[i]
             s == ClonePage(n, e.ppn)
  <2>1. e \in Ptes /\ e.ppn \in Frames BY DEF M, Contents, Ptes
  <2> HIDE DEF e
  <2>2. s \in M /\ s.ok = memory_alloc_page(n).ok BY <2>1, PageTyped
  <2>3. s.ok => n.ok BY <2>2, AllocIs
  <2> HIDE DEF s, a
  <2>4. CopyEntry(e, TRUE, n, s, a.page, i) \in M /\ (CopyEntry(e, TRUE, n, s, a.page, i).ok => n.ok)
    BY <1>1, <2>1, <2>2, <2>3, CopyTyped
  <2> QED BY <2>4 DEF Entry0, e, s
<1>3. step \in Steps(len, M)
  <2>1. at \in [1 .. len -> 0 .. 1] OBVIOUS
  <2> HIDE DEF Op, at
  <2> QED BY <1>2, <2>1 DEF Steps
<1>4. ClonePt0(m, pt) = [r EXCEPT !.page = a.page]
  BY DEF ClonePt0, CloneTable, Entry0, CopyEntry, SetPte, PTE_CNT
<1> HIDE DEF Op, a
<1>5. PICK f : Solves(f, a, len, step, M)
  <2> HIDE DEF step
  <2> QED BY ONLY <1>1, <1>3, FoldExists, len \in Nat
<1>6. ASSUME NEW s \in SUBSET (1 .. len), s # {}
      PROVE  Max(s) \in 1 .. len /\ \A x \in M : step[Max(s)][x] = Op(x, at[Max(s)])
  <2>1. Max(s) \in 1 .. len BY <1>6, MaxIndex
  <2> QED BY <2>1
<1>7. Eq(f) BY <1>5, <1>6 DEF Solves
<1>8. Eq(CHOOSE it : Eq(it)) BY <1>7
<1>9. PICK it : Eq(it) /\ r = it[1 .. len]
  <2>1. DOMAIN at = 1 .. len OBVIOUS
  <2>2. r = (CHOOSE it : Eq(it))[1 .. len] BY <2>1 DEF FoldLeft, MapThenFoldSet
  <2> QED BY <1>8, <2>2
<1>10. StepsSolve(it, a, len, step, M) BY <1>6, <1>9 DEF StepsSolve
<1>11. PICK g : Values(g, a, len, step, M, it[1 .. len])
  <2> HIDE DEF step
  <2> QED BY ONLY <1>1, <1>3, <1>10, FoldSteps, len \in Nat
<1>12. g \in [0 .. len -> M] /\ g[0] = a /\ g[2] = r BY <1>9, <1>11 DEF Values
<1>13. g[1] = Op(g[0], 0) /\ g[2] = Op(g[1], 1)
  <2>1. g[0] \in M /\ g[1] \in M
    <3>1. 0 \in 0 .. len /\ 1 \in 0 .. len OBVIOUS
    <3> HIDE DEF len
    <3> QED BY ONLY <1>12, <3>1
  <2>2. g[1] = step[1][g[0]] /\ g[2] = step[2][g[1]] BY <1>11 DEF Values
  <2> QED BY <2>1, <2>2
<1> HIDE DEF r
<1>14. Op(a, 0) \in M /\ Op(Op(a, 0), 1) \in M
       /\ (Op(a, 0).ok => a.ok) /\ (Op(Op(a, 0), 1).ok => Op(a, 0).ok)
  BY <1>1, <1>2
<1>15. Rounds(ClonePt0(m, pt), a, Op(Op(a, 0), 1)) BY <1>4, <1>12, <1>13 DEF Rounds
<1> QED BY <1>14, <1>15 DEF Op, a

LEMMA Clone0Typed ==
    ASSUME NEW m \in M, NEW pt \in Frames
    PROVE  LET r == ClonePt0(m, pt) IN r \in M /\ (r.ok => m.ok)
<1> DEFINE a == memory_alloc_page(m)
           b == Entry0(m, pt, a.page, a, 0)
           c == Entry0(m, pt, a.page, b, 1)
<1>1. Rounds(ClonePt0(m, pt), a, c) /\ c \in M /\ (b.ok => a.ok) /\ (c.ok => b.ok) BY Clone0Is
<1>2. a \in M /\ (a.ok => m.ok) BY AllocIs
<1>3. a.page \in Frames BY <1>2 DEF M
<1> HIDE DEF a, b, c
<1> QED BY <1>1, <1>2, <1>3 DEF Rounds, M

LEMMA Clone1Is ==
    ASSUME NEW m \in M, NEW pt \in Frames
    PROVE  LET a == memory_alloc_page(m)
               b == Entry1(m, pt, a.page, a, 0)
               c == Entry1(m, pt, a.page, b, 1)
           IN /\ Rounds(ClonePt1(m, pt), a, c) /\ b \in M /\ c \in M
              /\ (b.ok => a.ok) /\ (c.ok => b.ok)
<1> DEFINE len == 2
           a == memory_alloc_page(m)
           Op(n, i) == Entry1(m, pt, a.page, n, i)
           at == [k \in 1 .. len |-> k - 1]
           r == FoldLeft(LAMBDA n, i : Op(n, i), a, at)
           step == [k \in 1 .. len |-> [x \in M |-> Op(x, at[k])]]
           Eq(it) == it = [s \in SUBSET (1 .. len) |->
              IF s = {} THEN a ELSE Op(it[s \ {Max(s)}], at[Max(s)])]
<1>1. a \in M /\ a.page \in Frames /\ (a.ok => m.ok)
  <2>1. a \in M /\ (a.ok => m.ok) BY AllocIs
  <2> QED BY <2>1 DEF M
<1>2. ASSUME NEW n \in M, NEW i \in 0 .. 1 PROVE Op(n, i) \in M /\ (Op(n, i).ok => n.ok)
  <2> DEFINE e == m.mem[pt].pte[i]
             s == ClonePt0(n, e.ppn)
  <2>1. e \in Ptes /\ e.ppn \in Frames BY DEF M, Contents, Ptes
  <2> HIDE DEF e
  <2>2. s \in M /\ (s.ok => n.ok) BY <2>1, Clone0Typed
  <2> HIDE DEF s, a
  <2>4. LET x == CopyEntry(e, IsTable(e), n, s, a.page, i) IN x \in M /\ (x.ok => n.ok)
    BY <1>1, <2>1, <2>2, CopyTyped
  <2> QED BY <2>4 DEF Entry1, e, s
<1>3. step \in Steps(len, M)
  <2>1. at \in [1 .. len -> 0 .. 1] OBVIOUS
  <2> HIDE DEF Op, at
  <2> QED BY <1>2, <2>1 DEF Steps
<1>4. ClonePt1(m, pt) = [r EXCEPT !.page = a.page]
  BY DEF ClonePt1, CloneTable, Entry1, CopyEntry, SetPte, PTE_CNT
<1> HIDE DEF Op, a
<1>5. PICK f : Solves(f, a, len, step, M)
  <2> HIDE DEF step
  <2> QED BY ONLY <1>1, <1>3, FoldExists, len \in Nat
<1>6. ASSUME NEW s \in SUBSET (1 .. len), s # {}
      PROVE  Max(s) \in 1 .. len /\ \A x \in M : step[Max(s)][x] = Op(x, at[Max(s)])
  <2>1. Max(s) \in 1 .. len BY <1>6, MaxIndex
  <2> QED BY <2>1
<1>7. Eq(f) BY <1>5, <1>6 DEF Solves
<1>8. Eq(CHOOSE it : Eq(it)) BY <1>7
<1>9. PICK it : Eq(it) /\ r = it[1 .. len]
  <2>1. DOMAIN at = 1 .. len OBVIOUS
  <2>2. r = (CHOOSE it : Eq(it))[1 .. len] BY <2>1 DEF FoldLeft, MapThenFoldSet
  <2> QED BY <1>8, <2>2
<1>10. StepsSolve(it, a, len, step, M) BY <1>6, <1>9 DEF StepsSolve
<1>11. PICK g : Values(g, a, len, step, M, it[1 .. len])
  <2> HIDE DEF step
  <2> QED BY ONLY <1>1, <1>3, <1>10, FoldSteps, len \in Nat
<1>12. g \in [0 .. len -> M] /\ g[0] = a /\ g[2] = r BY <1>9, <1>11 DEF Values
<1>13. g[1] = Op(g[0], 0) /\ g[2] = Op(g[1], 1)
  <2>1. g[0] \in M /\ g[1] \in M
    <3>1. 0 \in 0 .. len /\ 1 \in 0 .. len OBVIOUS
    <3> HIDE DEF len
    <3> QED BY ONLY <1>12, <3>1
  <2>2. g[1] = step[1][g[0]] /\ g[2] = step[2][g[1]] BY <1>11 DEF Values
  <2> QED BY <2>1, <2>2
<1> HIDE DEF r
<1>14. Op(a, 0) \in M /\ Op(Op(a, 0), 1) \in M
       /\ (Op(a, 0).ok => a.ok) /\ (Op(Op(a, 0), 1).ok => Op(a, 0).ok)
  BY <1>1, <1>2
<1>15. Rounds(ClonePt1(m, pt), a, Op(Op(a, 0), 1)) BY <1>4, <1>12, <1>13 DEF Rounds
<1> QED BY <1>14, <1>15 DEF Op, a

LEMMA Clone1Typed ==
    ASSUME NEW m \in M, NEW pt \in Frames
    PROVE  LET r == ClonePt1(m, pt) IN r \in M /\ (r.ok => m.ok)
<1> DEFINE a == memory_alloc_page(m)
           b == Entry1(m, pt, a.page, a, 0)
           c == Entry1(m, pt, a.page, b, 1)
<1>1. Rounds(ClonePt1(m, pt), a, c) /\ c \in M /\ (b.ok => a.ok) /\ (c.ok => b.ok) BY Clone1Is
<1>2. a \in M /\ (a.ok => m.ok) BY AllocIs
<1>3. a.page \in Frames BY <1>2 DEF M
<1> HIDE DEF a, b, c
<1> QED BY <1>1, <1>2, <1>3 DEF Rounds, M

LEMMA Clone2Is ==
    ASSUME NEW m \in M, NEW pt \in Frames
    PROVE  LET a == memory_alloc_page(m)
               b == Entry2(m, pt, a.page, a, 0)
               c == Entry2(m, pt, a.page, b, 1)
           IN /\ Rounds(memory_space_clone(m, pt), a, c) /\ b \in M /\ c \in M
              /\ (b.ok => a.ok) /\ (c.ok => b.ok)
<1> DEFINE len == 2
           a == memory_alloc_page(m)
           Op(n, i) == Entry2(m, pt, a.page, n, i)
           at == [k \in 1 .. len |-> k - 1]
           r == FoldLeft(LAMBDA n, i : Op(n, i), a, at)
           step == [k \in 1 .. len |-> [x \in M |-> Op(x, at[k])]]
           Eq(it) == it = [s \in SUBSET (1 .. len) |->
              IF s = {} THEN a ELSE Op(it[s \ {Max(s)}], at[Max(s)])]
<1>1. a \in M /\ a.page \in Frames /\ (a.ok => m.ok)
  <2>1. a \in M /\ (a.ok => m.ok) BY AllocIs
  <2> QED BY <2>1 DEF M
<1>2. ASSUME NEW n \in M, NEW i \in 0 .. 1 PROVE Op(n, i) \in M /\ (Op(n, i).ok => n.ok)
  <2> DEFINE e == m.mem[pt].pte[i]
             s == ClonePt1(n, e.ppn)
  <2>1. e \in Ptes /\ e.ppn \in Frames BY DEF M, Contents, Ptes
  <2> HIDE DEF e
  <2>2. s \in M /\ (s.ok => n.ok) BY <2>1, Clone1Typed
  <2> HIDE DEF s, a
  <2>4. LET x == CopyEntry(e, IsTable(e), n, s, a.page, i) IN x \in M /\ (x.ok => n.ok)
    BY <1>1, <2>1, <2>2, CopyTyped
  <2> QED BY <2>4 DEF Entry2, e, s
<1>3. step \in Steps(len, M)
  <2>1. at \in [1 .. len -> 0 .. 1] OBVIOUS
  <2> HIDE DEF Op, at
  <2> QED BY <1>2, <2>1 DEF Steps
<1>4. memory_space_clone(m, pt) = [r EXCEPT !.page = a.page]
  BY DEF memory_space_clone, CloneTable, Entry2, CopyEntry, SetPte, PTE_CNT
<1> HIDE DEF Op, a
<1>5. PICK f : Solves(f, a, len, step, M)
  <2> HIDE DEF step
  <2> QED BY ONLY <1>1, <1>3, FoldExists, len \in Nat
<1>6. ASSUME NEW s \in SUBSET (1 .. len), s # {}
      PROVE  Max(s) \in 1 .. len /\ \A x \in M : step[Max(s)][x] = Op(x, at[Max(s)])
  <2>1. Max(s) \in 1 .. len BY <1>6, MaxIndex
  <2> QED BY <2>1
<1>7. Eq(f) BY <1>5, <1>6 DEF Solves
<1>8. Eq(CHOOSE it : Eq(it)) BY <1>7
<1>9. PICK it : Eq(it) /\ r = it[1 .. len]
  <2>1. DOMAIN at = 1 .. len OBVIOUS
  <2>2. r = (CHOOSE it : Eq(it))[1 .. len] BY <2>1 DEF FoldLeft, MapThenFoldSet
  <2> QED BY <1>8, <2>2
<1>10. StepsSolve(it, a, len, step, M) BY <1>6, <1>9 DEF StepsSolve
<1>11. PICK g : Values(g, a, len, step, M, it[1 .. len])
  <2> HIDE DEF step
  <2> QED BY ONLY <1>1, <1>3, <1>10, FoldSteps, len \in Nat
<1>12. g \in [0 .. len -> M] /\ g[0] = a /\ g[2] = r BY <1>9, <1>11 DEF Values
<1>13. g[1] = Op(g[0], 0) /\ g[2] = Op(g[1], 1)
  <2>1. g[0] \in M /\ g[1] \in M
    <3>1. 0 \in 0 .. len /\ 1 \in 0 .. len OBVIOUS
    <3> HIDE DEF len
    <3> QED BY ONLY <1>12, <3>1
  <2>2. g[1] = step[1][g[0]] /\ g[2] = step[2][g[1]] BY <1>11 DEF Values
  <2> QED BY <2>1, <2>2
<1> HIDE DEF r
<1>14. Op(a, 0) \in M /\ Op(Op(a, 0), 1) \in M
       /\ (Op(a, 0).ok => a.ok) /\ (Op(Op(a, 0), 1).ok => Op(a, 0).ok)
  BY <1>1, <1>2
<1>15. Rounds(memory_space_clone(m, pt), a, Op(Op(a, 0), 1)) BY <1>4, <1>12, <1>13 DEF Rounds
<1> QED BY <1>14, <1>15 DEF Op, a

LEMMA Clone2Typed ==
    ASSUME NEW m \in M, NEW pt \in Frames
    PROVE  LET r == memory_space_clone(m, pt) IN r \in M /\ (r.ok => m.ok)
<1> DEFINE a == memory_alloc_page(m)
           b == Entry2(m, pt, a.page, a, 0)
           c == Entry2(m, pt, a.page, b, 1)
<1>1. Rounds(memory_space_clone(m, pt), a, c) /\ c \in M /\ (b.ok => a.ok) /\ (c.ok => b.ok) BY Clone2Is
<1>2. a \in M /\ (a.ok => m.ok) BY AllocIs
<1>3. a.page \in Frames BY <1>2 DEF M
<1> HIDE DEF a, b, c
<1> QED BY <1>1, <1>2, <1>3 DEF Rounds, M

\* A copy holds what the original does, level by level.
SamePage(r, c2, m, c) == r.mem[c2].data = m.mem[c].data
SamePt0(r, t2, m, t) ==
    \A i \in 0 .. 1 :
        LET e == m.mem[t].pte[i]
            e2 == r.mem[t2].pte[i]
        IN IF e = null_pte THEN e2 = null_pte ELSE e2 # null_pte /\ SamePage(r, e2.ppn, m, e.ppn)
SamePt1(r, t2, m, t) ==
    \A i \in 0 .. 1 :
        LET e == m.mem[t].pte[i]
            e2 == r.mem[t2].pte[i]
        IN IF e = null_pte THEN e2 = null_pte ELSE e2 # null_pte /\ SamePt0(r, e2.ppn, m, e.ppn)
Same(k, r, f2, m, f) ==
    /\ k = "page" => SamePage(r, f2, m, f)
    /\ k = "pt0" => SamePt0(r, f2, m, f)
    /\ k = "pt1" => SamePt1(r, f2, m, f)
SameEntry(k, r, e2, m, e) ==
    IF e = null_pte THEN e2 = null_pte ELSE e2 # null_pte /\ Same(k, r, e2.ppn, m, e.ppn)

Under(k) == IF k = "page" THEN {"page"} ELSE IF k = "pt0" THEN {"page", "pt0"} ELSE Kids

\* It goes on to, when only frames that are not part of it change, and so does
\* the original.
LEMMA EntryBelow ==
    ASSUME NEW m, NEW o, Owned(m, o), NEW t \in Frames, o[t].kind \in {"pt0", "pt1"},
           NEW i \in 0 .. 1, m.mem[t].pte[i] # null_pte
    PROVE  m.mem[t].pte[i].ppn \in Frames /\ o[m.mem[t].pte[i].ppn].kind = Kid(o[t].kind)
<1>1. EntryOK(m, o, t, i) BY DEF Owned, Tree, Tabs
<1> QED BY <1>1, FrameKinds DEF EntryOK

LEMMA SameKept ==
    ASSUME NEW m, NEW o, Owned(m, o), NEW k \in Kids, NEW f \in Frames, o[f].kind = k,
           NEW r, \A d \in Frames : o[d].kind \in Under(k) => r.mem[d] = m.mem[d],
           NEW n, NEW g
    PROVE  /\ Same(k, m, f, n, g) <=> Same(k, r, f, n, g)
           /\ Same(k, n, g, m, f) <=> Same(k, n, g, r, f)
<1>1. CASE k = "page" BY SMTT(30), <1>1 DEF Same, SamePage, Under
<1>2. ASSUME NEW t \in Frames, o[t].kind = "pt0", NEW x,
             \A d \in Frames : o[d].kind \in {"page", "pt0"} => r.mem[d] = m.mem[d]
      PROVE  /\ SamePt0(m, t, n, x) <=> SamePt0(r, t, n, x)
             /\ SamePt0(n, x, m, t) <=> SamePt0(n, x, r, t)
  <2>1. r.mem[t] = m.mem[t] BY <1>2
  <2>2. ASSUME NEW i \in 0 .. 1, m.mem[t].pte[i] # null_pte
        PROVE  r.mem[m.mem[t].pte[i].ppn] = m.mem[m.mem[t].pte[i].ppn]
    <3>1. Kid("pt0") = "page" BY DEF Kid
    <3> QED BY <1>2, <2>2, <3>1, EntryBelow
  <2>3. \A i \in 0 .. 1 : m.mem[t].pte[i] # null_pte => \A y :
           LET d == m.mem[t].pte[i].ppn
           IN /\ SamePage(m, d, n, y) <=> SamePage(r, d, n, y)
              /\ SamePage(n, y, m, d) <=> SamePage(n, y, r, d)
    BY <2>2 DEF SamePage
  <2>4. SamePt0(m, t, n, x) <=> SamePt0(r, t, n, x) BY <2>1, <2>3 DEF SamePt0
  <2>5. SamePt0(n, x, m, t) <=> SamePt0(n, x, r, t) BY <2>1, <2>3 DEF SamePt0
  <2> QED BY <2>4, <2>5
<1>3. CASE k = "pt0" BY <1>2, <1>3 DEF Same, Under
<1>4. CASE k = "pt1"
  <2>1. r.mem[f] = m.mem[f] /\ \A d \in Frames : o[d].kind \in {"page", "pt0"} => r.mem[d] = m.mem[d]
    BY <1>4 DEF Under, Kids
  <2>2. ASSUME NEW i \in 0 .. 1, m.mem[f].pte[i] # null_pte, NEW x
        PROVE  LET c == m.mem[f].pte[i].ppn
               IN /\ SamePt0(m, c, n, x) <=> SamePt0(r, c, n, x)
                  /\ SamePt0(n, x, m, c) <=> SamePt0(n, x, r, c)
    <3>1. Kid("pt1") = "pt0" BY DEF Kid
    <3>2. m.mem[f].pte[i].ppn \in Frames /\ o[m.mem[f].pte[i].ppn].kind = "pt0"
      BY <1>4, <2>2, <3>1, EntryBelow
    <3> QED BY <1>2, <2>1, <3>2
  <2>3. SamePt1(m, f, n, g) <=> SamePt1(r, f, n, g) BY <2>1, <2>2 DEF SamePt1
  <2>4. SamePt1(n, g, m, f) <=> SamePt1(n, g, r, f) BY <2>1, <2>2 DEF SamePt1
  <2> QED BY <1>4, <2>3, <2>4 DEF Same
<1> QED BY <1>1, <1>3, <1>4 DEF Kids

\* What is new is of the space rt, and only X is not referred to yet.
Fresh(m, o, r, o2, rt, X) ==
    /\ r \in M /\ Owned(r, o2)
    /\ \A f \in Frames : o[f].kind # "free" => o2[f] = o[f] /\ r.mem[f] = m.mem[f]
    /\ \A f \in Frames : o[f].kind = "free" /\ o2[f].kind # "free" =>
          /\ o2[f].root = rt
          /\ o2[f].kind \in Kids \/ (o2[f].kind = "root" /\ f = rt)
          /\ o2[f].kind \in Kids /\ o2[f].up = Detached => f \in X
    /\ AllUser(m, o) => AllUser(r, o2)
    /\ NoNulls(m, o) => NoNulls(r, o2)

LEMMA FreshTrans ==
    ASSUME NEW m, NEW o, NEW m1, NEW o1, NEW m2, NEW o2, NEW rt, NEW X, NEW Y,
           Fresh(m, o, m1, o1, rt, X), Fresh(m1, o1, m2, o2, rt, Y)
    PROVE  Fresh(m, o, m2, o2, rt, X \cup Y)
<1> USE DEF Fresh
<1>1. \A f \in Frames : o[f].kind # "free" => o2[f] = o[f] /\ m2.mem[f] = m.mem[f] OBVIOUS
<1>2. ASSUME NEW f \in Frames, o[f].kind = "free", o2[f].kind # "free"
      PROVE  /\ o2[f].root = rt
             /\ o2[f].kind \in Kids \/ (o2[f].kind = "root" /\ f = rt)
             /\ o2[f].kind \in Kids /\ o2[f].up = Detached => f \in X \cup Y
  <2>1. CASE o1[f].kind = "free" BY <1>2, <2>1
  <2>2. CASE o1[f].kind # "free" BY <1>2, <2>2
  <2> QED BY <2>1, <2>2
<1> QED BY <1>1, <1>2

\* A frame that is allocated to be a copy.
Cloned(m, o, r, o2, rt, k) ==
    /\ Fresh(m, o, r, o2, rt, {r.page}) /\ r.page \in Pool /\ o[r.page].kind = "free"
    /\ o2[r.page] = [kind |-> k, root |-> rt, up |-> Detached]

LEMMA NewFrame ==
    ASSUME NEW m \in M, NEW o, Owned(m, o), memory_alloc_page(m).ok,
           NEW k \in {"root", "pt1", "pt0", "page"}, NEW rt \in Frames,
           k = "root" => rt = memory_alloc_page(m).page
    PROVE  LET a == memory_alloc_page(m)
           IN /\ Cloned(m, o, a, Give(o, a.page, k, rt), rt, k) /\ a.mem[a.page] = Zeroed
<1> DEFINE a == memory_alloc_page(m)
           o2 == Give(o, a.page, k, rt)
<1>1. /\ a \in M /\ a.page \in Pool /\ a.mem[a.page] = Zeroed
      /\ \A f \in Frames : f # a.page => a.mem[f] = m.mem[f]
  BY AllocIs
<1>2. o[a.page].kind = "free" /\ Owned(a, o2) BY AllocKeeps DEF Kinds, Kids, Tabs
<1>3. k = "root" => rt = a.page OBVIOUS
<1> HIDE DEF a
<1>4. a.page \in Frames BY <1>1, FrameKinds
<1>5. \A f \in Frames :
         o2[f] = IF f = a.page THEN [kind |-> k, root |-> rt, up |-> Detached] ELSE o[f]
  BY <1>4 DEF Give, Owned, Owners
<1> HIDE DEF o2
<1>6. AllUser(m, o) => AllUser(a, o2)
  <2> SUFFICES ASSUME AllUser(m, o), NEW f \in Frames, NEW j \in 0 .. 1, o2[f].kind = "pt0"
               PROVE  a.mem[f].pte[j] = null_pte \/ "U" \in a.mem[f].pte[j].flags
    BY DEF AllUser
  <2> QED BY <1>1, <1>5, NullTyped DEF AllUser
<1>7. NoNulls(m, o) => NoNulls(a, o2)
  <2> SUFFICES ASSUME NoNulls(m, o), NEW f \in Frames, o2[f].kind = "page", NEW x \in 0 .. PAGE_SIZE - 1
               PROVE  a.mem[f].data[x] # Null
    BY DEF NoNulls
  <2>1. CASE f = a.page BY <1>1, <2>1, ZeroNotNull
  <2>2. CASE f # a.page BY <1>1, <1>5, <2>2 DEF NoNulls
  <2> QED BY <2>1, <2>2
<1>8. Fresh(m, o, a, o2, rt, {a.page})
  BY <1>1, <1>2, <1>3, <1>5, <1>6, <1>7 DEF Fresh, Kids
<1>9. Cloned(m, o, a, o2, rt, k) BY <1>1, <1>2, <1>4, <1>5, <1>8 DEF Cloned
<1> QED BY <1>1, <1>9 DEF a, o2

\* A table of the copy, of which the entries up to i are made.
MadeEntry(m, n, t, k, pt, j) ==
    IF k = "root" /\ j = 0 THEN n.mem[t].pte[j] = m.mem[pt].pte[j]
    ELSE SameEntry(Kid(k), n, n.mem[t].pte[j], m, m.mem[pt].pte[j])
Building(m, o, n, on, rt, t, k, pt, i) ==
    /\ n \in M /\ Fresh(m, o, n, on, rt, {t}) /\ t \in Pool /\ o[t].kind = "free"
    /\ on[t] = [kind |-> k, root |-> rt, up |-> Detached]
    /\ \A j \in 0 .. 1 : IF j < i THEN MadeEntry(m, n, t, k, pt, j) ELSE n.mem[t].pte[j] = null_pte

LEMMA BuildStart ==
    ASSUME NEW m \in M, NEW o, Owned(m, o), memory_alloc_page(m).ok,
           NEW k \in Tabs, NEW rt \in Frames, k = "root" => rt = memory_alloc_page(m).page, NEW pt
    PROVE  LET a == memory_alloc_page(m)
           IN \E on : Building(m, o, a, on, rt, a.page, k, pt, 0)
<1> DEFINE a == memory_alloc_page(m)
           on == Give(o, a.page, k, rt)
<1>1. Cloned(m, o, a, on, rt, k) /\ a.mem[a.page] = Zeroed BY NewFrame DEF Tabs
<1>2. a \in M BY AllocIs
<1> HIDE DEF a, on
<1>3. Building(m, o, a, on, rt, a.page, k, pt, 0) BY <1>1, <1>2, NullTyped DEF Building, Cloned
<1> QED BY <1>3 DEF a

LEMMA BuildEmpty ==
    ASSUME NEW m, NEW o, NEW n, NEW on, NEW rt, NEW t, NEW k \in Tabs, NEW pt, NEW i \in 0 .. 1,
           Building(m, o, n, on, rt, t, k, pt, i), m.mem[pt].pte[i] = null_pte
    PROVE  Building(m, o, n, on, rt, t, k, pt, i + 1)
<1>1. MadeEntry(m, n, t, k, pt, i) BY DEF Building, MadeEntry, SameEntry
<1>2. \A j \in 0 .. 1 : j < i + 1 <=> j < i \/ j = i OBVIOUS
<1> QED BY <1>1, <1>2 DEF Building

LEMMA BuildShare ==
    ASSUME NEW m \in M, NEW o, NEW n, NEW on, NEW rt \in Frames, NEW t, NEW pt,
           Building(m, o, n, on, rt, t, "root", pt, 0), m.mem[pt].pte[0] = kernel_pte
    PROVE  Building(m, o, SetPte(n, t, 0, kernel_pte), on, rt, t, "root", pt, 1)
<1> USE DEF Building
<1> DEFINE r == SetPte(n, t, 0, kernel_pte)
<1>1. t \in Frames /\ n.mem[t].pte[0] = null_pte /\ on[t].kind = "root" /\ Owned(n, on)
  BY FrameKinds DEF Fresh
<1>2. kernel_pte \in Ptes BY FrameKinds DEF kernel_pte, ptab_pte, Ptes, Flags
<1>3. IsSet(n, r, t, 0, kernel_pte) BY <1>1, <1>2, SetPteIs
<1> HIDE DEF r
<1>4. r \in M /\ r.free = n.free
      /\ (\A f \in Frames : r.mem[f].data = n.mem[f].data)
      /\ (\A f \in Frames : f # t => r.mem[f] = n.mem[f])
      /\ \A f \in Frames, j \in 0 .. 1 :
           r.mem[f].pte[j] = IF f = t /\ j = 0 THEN kernel_pte ELSE n.mem[f].pte[j]
  BY <1>3 DEF IsSet
<1>5. Tree(r, on)
  <2>1. ASSUME NEW f \in Frames, NEW j \in 0 .. 1, on[f].kind \in Tabs PROVE EntryOK(r, on, f, j)
    <3>1. EntryOK(n, on, f, j) BY <1>1, <2>1 DEF Owned, Tree
    <3> QED BY <1>1, <1>4, <3>1 DEF EntryOK
  <2>2. ASSUME NEW c \in Frames, on[c].kind \in Kids, on[c].up # Detached PROVE UpOK(r, on, c)
    <3>1. UpOK(n, on, c) BY <1>1, <2>2 DEF Owned, Tree
    <3>2. on[c].up[1] \in Frames /\ on[c].up[2] \in 0 .. 1 BY SMTT(30), <1>1 DEF Owned, Owners
    <3>3. ~(on[c].up[1] = t /\ on[c].up[2] = 0) BY <1>1, <3>1, NullTyped DEF UpOK
    <3>4. r.mem[on[c].up[1]].pte[on[c].up[2]] = n.mem[on[c].up[1]].pte[on[c].up[2]]
      BY <1>4, <3>2, <3>3
    <3> QED BY Zenon, <3>1, <3>4 DEF UpOK
  <2> QED BY <1>1, <2>1, <2>2 DEF Owned, Tree
<1>6. Owned(r, on) BY <1>1, <1>4, <1>5 DEF Owned, FreeList
<1>7. AllUser(m, o) => AllUser(r, on)
  <2> SUFFICES ASSUME AllUser(m, o), NEW f \in Frames, NEW j \in 0 .. 1, on[f].kind = "pt0"
               PROVE  r.mem[f].pte[j] = null_pte \/ "U" \in r.mem[f].pte[j].flags
    BY DEF AllUser
  <2>1. AllUser(n, on) /\ f # t BY <1>1 DEF Fresh
  <2> QED BY <1>4, <2>1 DEF AllUser
<1>8. NoNulls(m, o) => NoNulls(r, on) BY <1>4 DEF NoNulls, Fresh
<1>9. Fresh(m, o, r, on, rt, {t}) BY <1>4, <1>6, <1>7, <1>8 DEF Fresh
<1>10. MadeEntry(m, r, t, "root", pt, 0) BY <1>1, <1>4 DEF MadeEntry
<1>11. r.mem[t].pte[1] = null_pte BY <1>1, <1>4
<1>12. \A j \in 0 .. 1 : j < 1 <=> j = 0 OBVIOUS
<1>13. Building(m, o, r, on, rt, t, "root", pt, 1) BY <1>4, <1>9, <1>10, <1>11, <1>12
<1> QED BY <1>13 DEF r

LEMMA BuildCopy ==
    ASSUME NEW m \in M, NEW o, Owned(m, o), NEW n, NEW on, NEW rt \in Frames, NEW t, NEW k \in Tabs,
           NEW pt \in Frames, o[pt].kind = k, NEW i \in 0 .. 1, k = "root" => i = 1,
           Building(m, o, n, on, rt, t, k, pt, i), m.mem[pt].pte[i] # null_pte,
           NEW s \in M, NEW os, Cloned(n, on, s, os, rt, Kid(k)),
           Same(Kid(k), s, s.page, n, m.mem[pt].pte[i].ppn)
    PROVE  LET e2 == [m.mem[pt].pte[i] EXCEPT !.ppn = s.page]
           IN Building(m, o, SetPte(s, t, i, e2), Put(os, s.page, t, i), rt, t, k, pt, i + 1)
<1> DEFINE e == m.mem[pt].pte[i]
           c == s.page
           e2 == [e EXCEPT !.ppn = c]
           r == SetPte(s, t, i, e2)
           o2 == Put(os, c, t, i)
           kid == Kid(k)
<1>1. kid \in Kids /\ k \notin Under(kid) /\ kid # k /\ kid # "free" BY DEF Kid, Kids, Tabs, Under
<1>2. /\ n \in M /\ Fresh(m, o, n, on, rt, {t}) /\ t \in Pool /\ o[t].kind = "free"
      /\ on[t] = [kind |-> k, root |-> rt, up |-> Detached]
      /\ n.mem[t].pte[i] = null_pte
  BY DEF Building
<1>3. /\ Fresh(n, on, s, os, rt, {c}) /\ c \in Pool /\ on[c].kind = "free"
      /\ os[c] = [kind |-> kid, root |-> rt, up |-> Detached]
  BY DEF Cloned
<1>4. t \in Frames /\ c \in Frames /\ c # t /\ k # "free" BY <1>2, <1>3, FrameKinds DEF Tabs
<1>5. Owned(n, on) /\ Owned(s, os) BY <1>2, <1>3 DEF Fresh
<1>6. os[t] = on[t] /\ s.mem[t] = n.mem[t] BY <1>2, <1>3, <1>4 DEF Fresh
<1>7. e \in Ptes BY DEF M, Contents, Ptes
<1>8. /\ IF k = "pt0" THEN LeafEntry(e) ELSE TableEntry(e)
      /\ e.ppn \in Frames /\ o[e.ppn].kind = kid
  <2>1. EntryOK(m, o, pt, i) BY DEF Owned, Tree
  <2> QED BY <2>1, FrameKinds DEF EntryOK
<1>9. e2 \in Ptes /\ e2.ppn = c /\ e2.flags = e.flags BY <1>4, <1>7 DEF Ptes
<1> HIDE DEF e, e2, kid, c
<1>10. IF k = "pt0" THEN LeafEntry(e2) ELSE TableEntry(e2) BY <1>8, <1>9 DEF LeafEntry, TableEntry
<1>11. e2 # null_pte BY <1>10, NullTyped DEF LeafEntry, TableEntry
<1>12. Owned(r, o2)
  <2>1. s.mem[t].pte[i] = null_pte BY <1>2, <1>6
  <2>2. os[t].kind = k /\ os[t].root = rt BY <1>2, <1>6
  <2>3. os[c] = [kind |-> Kid(os[t].kind), root |-> os[t].root, up |-> Detached]
    BY <1>3, <2>2 DEF kid
  <2>4. IF os[t].kind = "pt0" THEN LeafEntry(e2) ELSE TableEntry(e2) BY <1>10, <2>2
  <2> QED BY <1>3, <1>4, <1>5, <1>9, <2>1, <2>2, <2>3, <2>4, PutKeeps
<1>13. IsSet(s, r, t, i, e2) BY <1>4, <1>9, SetPteIs
<1> HIDE DEF r
<1>14. r \in M
      /\ (\A f \in Frames : r.mem[f].data = s.mem[f].data)
      /\ (\A f \in Frames : f # t => r.mem[f] = s.mem[f])
      /\ \A f \in Frames, j \in 0 .. 1 :
           r.mem[f].pte[j] = IF f = t /\ j = i THEN e2 ELSE s.mem[f].pte[j]
  BY <1>13 DEF IsSet
<1>15. /\ o2[c] = [kind |-> kid, root |-> rt, up |-> <<t, i>>]
       /\ \A f \in Frames : f # c => o2[f] = os[f]
  <2>1. \A f \in Frames :
           o2[f] = IF f = c THEN [kind |-> os[c].kind, root |-> os[c].root, up |-> <<t, i>>] ELSE os[f]
    BY <1>4, <1>5 DEF Put, Owned, Owners
  <2> HIDE DEF o2
  <2> QED BY <1>3, <1>4, <2>1
<1> HIDE DEF o2
<1>16. Fresh(m, o, s, os, rt, {t} \cup {c}) BY <1>2, <1>3, FreshTrans
<1>17. o[c].kind = "free" BY <1>2, <1>3, <1>4 DEF Fresh
<1>18. AllUser(m, o) => AllUser(r, o2)
  <2> SUFFICES ASSUME AllUser(m, o), NEW f \in Frames, NEW j \in 0 .. 1, o2[f].kind = "pt0"
               PROVE  r.mem[f].pte[j] = null_pte \/ "U" \in r.mem[f].pte[j].flags
    BY DEF AllUser
  <2>1. AllUser(s, os) BY <1>16 DEF Fresh
  <2>2. os[f].kind = "pt0" BY <1>3, <1>15
  <2>3. CASE f = t /\ j = i
    <3>1. k = "pt0" BY <1>2, <1>6, <2>2, <2>3
    <3>2. "U" \in e.flags
      <4>1. e # null_pte BY DEF e
      <4> QED BY <3>1, <4>1 DEF AllUser, e
    <3> QED BY <1>4, <1>9, <1>14, <2>3, <3>2
  <2>4. CASE ~(f = t /\ j = i) BY <1>14, <2>1, <2>2, <2>4 DEF AllUser
  <2> QED BY <2>3, <2>4
<1>19. NoNulls(m, o) => NoNulls(r, o2)
  <2>1. NoNulls(m, o) => NoNulls(s, os) BY <1>16 DEF Fresh
  <2>2. \A f \in Frames : o2[f].kind = os[f].kind BY <1>3, <1>15
  <2> QED BY <1>14, <2>1, <2>2 DEF NoNulls
<1>20. Fresh(m, o, r, o2, rt, {t})
  <2>1. \A f \in Frames : o[f].kind # "free" => o2[f] = o[f] /\ r.mem[f] = m.mem[f]
    BY <1>2, <1>14, <1>15, <1>16, <1>17 DEF Fresh
  <2>2. t # NoFrame BY <1>2, FrameKinds
  <2>3. \A f \in Frames : o[f].kind = "free" /\ o2[f].kind # "free" =>
          /\ o2[f].root = rt
          /\ o2[f].kind \in Kids \/ (o2[f].kind = "root" /\ f = rt)
          /\ o2[f].kind \in Kids /\ o2[f].up = Detached => f \in {t}
    <3> SUFFICES ASSUME NEW f \in Frames, o[f].kind = "free", o2[f].kind # "free"
                 PROVE  /\ o2[f].root = rt
                        /\ o2[f].kind \in Kids \/ (o2[f].kind = "root" /\ f = rt)
                        /\ o2[f].kind \in Kids /\ o2[f].up = Detached => f \in {t}
      OBVIOUS
    <3>1. CASE f = c BY <1>1, <1>15, <2>2, <3>1 DEF Detached
    <3>2. CASE f # c BY <1>15, <1>16, <3>2 DEF Fresh
    <3> QED BY <3>1, <3>2
  <2> QED BY <1>12, <1>14, <1>18, <1>19, <2>1, <2>3 DEF Fresh
<1>21. SameEntry(kid, r, e2, m, e)
  <2>1. Same(kid, s, c, n, e.ppn) BY DEF kid, c, e
  <2>2. \A d \in Frames : os[d].kind \in Under(kid) => r.mem[d] = s.mem[d]
    BY <1>1, <1>2, <1>6, <1>14
  <2>3. Same(kid, r, c, n, e.ppn) BY <1>1, <1>3, <1>4, <1>5, <2>1, <2>2, SameKept
  <2>4. \A d \in Frames : o[d].kind \in Under(kid) => n.mem[d] = m.mem[d]
    BY <1>2 DEF Fresh, Under, Kids
  <2>5. Same(kid, r, c, m, e.ppn) BY <1>1, <1>8, <2>3, <2>4, SameKept
  <2>6. e # null_pte BY DEF e
  <2> QED BY <1>9, <1>11, <2>5, <2>6 DEF SameEntry
<1>22. MadeEntry(m, r, t, k, pt, i)
  <2>1. r.mem[t].pte[i] = e2 BY <1>4, <1>14
  <2>2. ~(k = "root" /\ i = 0) OBVIOUS
  <2> QED BY <1>21, <2>1, <2>2 DEF MadeEntry, e, kid
<1>23. ASSUME NEW j \in 0 .. 1, j < i PROVE MadeEntry(m, r, t, k, pt, j)
  <2>1. MadeEntry(m, n, t, k, pt, j) BY <1>23 DEF Building
  <2>2. r.mem[t].pte[j] = n.mem[t].pte[j] BY <1>4, <1>6, <1>14, <1>23
  <2>3. CASE k = "root" /\ j = 0 BY <2>1, <2>2, <2>3 DEF MadeEntry
  <2>4. CASE ~(k = "root" /\ j = 0)
    <3> DEFINE x == n.mem[t].pte[j]
               y == m.mem[pt].pte[j]
    <3>1. SameEntry(kid, n, x, m, y) BY <2>1, <2>4 DEF MadeEntry, kid
    <3>2. CASE y = null_pte BY <2>2, <2>4, <3>1, <3>2 DEF MadeEntry, SameEntry
    <3>3. CASE y # null_pte
      <4>1. x # null_pte /\ Same(kid, n, x.ppn, m, y.ppn) BY <3>1, <3>3 DEF SameEntry
      <4>2. x.ppn \in Frames /\ on[x.ppn].kind = kid
        <5>1. CASE k = "root"
          <6>1. j = 1 BY SMTT(30), <2>4, <5>1
          <6> QED BY <1>23, <6>1
        <5>2. CASE k # "root"
          <6>1. on[t].kind \in {"pt0", "pt1"} BY <1>2, <5>2 DEF Tabs
          <6> QED BY <1>2, <1>4, <1>5, <4>1, <6>1, EntryBelow DEF kid
        <5> QED BY <5>1, <5>2
      <4>3. \A d \in Frames : on[d].kind \in Under(kid) => r.mem[d] = n.mem[d]
        BY <1>1, <1>2, <1>3, <1>14 DEF Fresh, Under, Kids
      <4> HIDE DEF x, y
      <4>4. Same(kid, r, x.ppn, m, y.ppn) BY <1>1, <1>5, <4>1, <4>2, <4>3, SameKept
      <4>5. SameEntry(kid, r, x, m, y) BY <3>3, <4>1, <4>4 DEF SameEntry
      <4> QED BY <2>2, <2>4, <4>5 DEF MadeEntry, kid, x, y
    <3> QED BY <3>2, <3>3
  <2> QED BY <2>3, <2>4
<1>24. ASSUME NEW j \in 0 .. 1, ~(j < i + 1) PROVE r.mem[t].pte[j] = null_pte
  <2>1. ~(j < i) /\ j # i BY <1>24
  <2>2. n.mem[t].pte[j] = null_pte BY <2>1 DEF Building
  <2> QED BY <1>4, <1>6, <1>14, <2>1, <2>2
<1>25. o2[t] = [kind |-> k, root |-> rt, up |-> Detached] BY <1>2, <1>4, <1>6, <1>15
<1>26. \A j \in 0 .. 1 : j < i + 1 => j < i \/ j = i OBVIOUS
<1>27. Building(m, o, r, o2, rt, t, k, pt, i + 1)
  BY <1>2, <1>14, <1>20, <1>22, <1>23, <1>24, <1>25, <1>26 DEF Building
<1> QED BY <1>27 DEF r, o2, e2, e, c

\* A copy that was made.
CopyMade(m, o, r, rt, k, f) ==
    r \in M /\ \E o2 : Cloned(m, o, r, o2, rt, k) /\ Same(k, r, r.page, m, f)

LEMMA PageCopied ==
    ASSUME NEW m \in M, NEW o, Owned(m, o), NEW rt \in Frames,
           NEW pp \in Frames, o[pp].kind = "page", ClonePage(m, pp).ok
    PROVE  CopyMade(m, o, ClonePage(m, pp), rt, "page", pp)
<1> DEFINE a == memory_alloc_page(m)
           r == ClonePage(m, pp)
           o2 == Give(o, a.page, "page", rt)
<1>1. /\ r \in M /\ r.ok = a.ok /\ r.page = a.page /\ r.free = a.free
      /\ \A f \in Frames : r.mem[f].pte = a.mem[f].pte
      /\ \A f \in Frames :
            r.mem[f].data = IF f = a.page THEN m.mem[pp].data ELSE a.mem[f].data
  BY PageTyped
<1>2. Cloned(m, o, a, o2, rt, "page") BY <1>1, NewFrame
<1>3. a \in M BY AllocIs
<1> HIDE DEF a, r, o2
<1>4. /\ Fresh(m, o, a, o2, rt, {a.page}) /\ a.page \in Pool /\ o[a.page].kind = "free"
      /\ o2[a.page] = [kind |-> "page", root |-> rt, up |-> Detached]
  BY <1>2 DEF Cloned
<1>5. a.page \in Frames BY <1>4, FrameKinds
<1>6. Owned(r, o2)
  <2>1. SameTables(a, r) BY <1>1 DEF SameTables
  <2>2. Owned(a, o2) BY <1>4 DEF Fresh
  <2> QED BY <1>3, <2>1, <2>2, SameOwned
<1>7. \A f \in Frames : o[f].kind # "free" => o2[f] = o[f] /\ r.mem[f] = m.mem[f]
  <2> SUFFICES ASSUME NEW f \in Frames, o[f].kind # "free"
               PROVE  o2[f] = o[f] /\ r.mem[f] = m.mem[f]
    OBVIOUS
  <2>1. o2[f] = o[f] /\ a.mem[f] = m.mem[f] /\ f # a.page BY <1>4 DEF Fresh
  <2>2. r.mem[f].pte = a.mem[f].pte /\ r.mem[f].data = a.mem[f].data BY <1>1, <2>1
  <2>3. r.mem[f] \in Contents /\ a.mem[f] \in Contents BY <1>1, <1>3 DEF M
  <2>4. r.mem[f] = a.mem[f] BY <2>2, <2>3 DEF Contents
  <2> QED BY <2>1, <2>4
<1>8. AllUser(m, o) => AllUser(r, o2)
  <2>1. AllUser(m, o) => AllUser(a, o2) BY <1>4 DEF Fresh
  <2> QED BY <1>1, <2>1 DEF AllUser
<1>9. NoNulls(m, o) => NoNulls(r, o2)
  <2>1. NoNulls(m, o) => NoNulls(a, o2) BY <1>4 DEF Fresh
  <2> QED BY <1>1, <2>1 DEF NoNulls
<1>10. Fresh(m, o, r, o2, rt, {r.page}) BY <1>1, <1>4, <1>6, <1>7, <1>8, <1>9 DEF Fresh
<1>11. Cloned(m, o, r, o2, rt, "page") BY <1>1, <1>4, <1>10 DEF Cloned
<1>12. Same("page", r, r.page, m, pp) BY <1>1, <1>5 DEF Same, SamePage
<1> QED BY <1>1, <1>11, <1>12 DEF CopyMade, r

\* One round, of an entry that is not the kernel's.
LEMMA BuildEntry ==
    ASSUME NEW m \in M, NEW o, Owned(m, o), NEW n, NEW on, NEW rt \in Frames, NEW t, NEW k \in Tabs,
           NEW pt \in Frames, o[pt].kind = k, NEW i \in 0 .. 1, k = "root" => i = 1,
           Building(m, o, n, on, rt, t, k, pt, i),
           NEW deep, k = "pt0" \/ IsTable(m.mem[pt].pte[i]) => deep,
           NEW s \in M,
           s.ok /\ on[m.mem[pt].pte[i].ppn].kind = Kid(k) =>
              CopyMade(n, on, s, rt, Kid(k), m.mem[pt].pte[i].ppn),
           NEW r, r = CopyEntry(m.mem[pt].pte[i], deep, n, s, t, i), r.ok
    PROVE  \E o2 : Building(m, o, r, o2, rt, t, k, pt, i + 1)
<1> DEFINE e == m.mem[pt].pte[i]
           e2 == [e EXCEPT !.ppn = s.page]
<1>1. EntryOK(m, o, pt, i) BY DEF Owned, Tree
<1>2. CASE e = null_pte
  <2>1. ~verify_flags(e.flags) BY <1>2, NullTyped DEF verify_flags
  <2>2. r = n BY <2>1 DEF CopyEntry
  <2> QED BY <1>2, <2>2, BuildEmpty
<1>3. CASE e # null_pte
  <2>1. /\ IF k = "pt0" THEN LeafEntry(e) ELSE TableEntry(e)
        /\ e.ppn \in Pool /\ o[e.ppn].kind = Kid(k)
    BY <1>1, <1>3 DEF EntryOK
  <2>2. verify_flags(e.flags) /\ ~Shares(e)
    BY <2>1 DEF LeafEntry, TableEntry, verify_flags, Shares
  <2>3. k # "pt0" => IsTable(e) BY <2>1 DEF TableEntry, IsTable, verify_flags
  <2>4. deep BY <2>3
  <2>5. r = SetPte(s, t, i, e2) BY <2>2, <2>4 DEF CopyEntry
  <2>6. t \in Frames /\ e.ppn \in Frames BY <2>1, FrameKinds DEF Building
  <2>7. s.page \in Frames /\ e \in Ptes BY DEF M, Contents, Ptes
  <2> HIDE DEF e
  <2>8. e2 \in Ptes BY <2>2, <2>7 DEF Ptes, verify_flags
  <2> HIDE DEF e2
  <2>9. s.ok
    <3>1. IsSet(s, SetPte(s, t, i, e2), t, i, e2) BY <2>6, <2>8, SetPteIs
    <3> QED BY <2>5, <3>1 DEF IsSet
  <2>10. on[e.ppn].kind = Kid(k)
    <3>1. o[e.ppn].kind # "free" BY <2>1 DEF Kid
    <3> QED BY <2>1, <2>6, <3>1 DEF Building, Fresh
  <2>11. CopyMade(n, on, s, rt, Kid(k), e.ppn) BY <2>9, <2>10 DEF e
  <2>12. PICK os : Cloned(n, on, s, os, rt, Kid(k)) /\ Same(Kid(k), s, s.page, n, e.ppn)
    BY SMTT(30), <2>11 DEF CopyMade
  <2>13. Building(m, o, SetPte(s, t, i, e2), Put(os, s.page, t, i), rt, t, k, pt, i + 1)
    BY <1>3, <2>12, BuildCopy DEF e, e2
  <2> QED BY <2>5, <2>13
<1> QED BY <1>2, <1>3

\* A table of which both entries are made.
LEMMA BuildEnd ==
    ASSUME NEW m \in M, NEW o, NEW c, NEW oc, NEW rt \in Frames, NEW k \in Tabs, NEW pt,
           NEW a, Building(m, o, c, oc, rt, a.page, k, pt, 2),
           NEW r, Rounds(r, a, c)
    PROVE  /\ r \in M /\ r.mem = c.mem /\ r.page = a.page /\ r.ok = c.ok
           /\ Cloned(m, o, r, oc, rt, k)
           /\ k = "pt0" => Same("pt0", r, r.page, m, pt)
           /\ k = "pt1" => Same("pt1", r, r.page, m, pt)
           /\ k = "root" => /\ r.mem[r.page].pte[0] = m.mem[pt].pte[0]
                            /\ SameEntry("pt1", r, r.mem[r.page].pte[1], m, m.mem[pt].pte[1])
<1> DEFINE t == a.page
<1>1. c \in M /\ Fresh(m, o, c, oc, rt, {t}) /\ t \in Pool /\ o[t].kind = "free"
      /\ oc[t] = [kind |-> k, root |-> rt, up |-> Detached]
  BY DEF Building
<1>2. MadeEntry(m, c, t, k, pt, 0) /\ MadeEntry(m, c, t, k, pt, 1)
  <2>1. 0 \in 0 .. 1 /\ 1 \in 0 .. 1 /\ 0 < 2 /\ 1 < 2 OBVIOUS
  <2> QED BY <2>1 DEF Building
<1>3. t \in Frames BY <1>1, FrameKinds
<1> HIDE DEF t
<1>4. r \in M /\ r.mem = c.mem /\ r.free = c.free /\ r.page = t /\ r.ok = c.ok
  BY <1>1, <1>3 DEF Rounds, M, t
<1>5. Owned(r, oc)
  <2>1. Owned(c, oc) BY <1>1 DEF Fresh
  <2>2. SameTables(c, r) BY <1>4 DEF SameTables
  <2> QED BY <1>1, <2>1, <2>2, SameOwned
<1>6. AllUser(m, o) => AllUser(r, oc) BY <1>1, <1>4 DEF Fresh, AllUser
<1>7. NoNulls(m, o) => NoNulls(r, oc) BY <1>1, <1>4 DEF Fresh, NoNulls
<1>8. Fresh(m, o, r, oc, rt, {r.page}) BY <1>1, <1>4, <1>5, <1>6, <1>7 DEF Fresh
<1>9. Cloned(m, o, r, oc, rt, k) BY <1>1, <1>4, <1>8 DEF Cloned
<1>10. \A x : \A y : /\ SamePage(c, x, m, y) <=> SamePage(r, x, m, y)
                     /\ SamePt0(c, x, m, y) <=> SamePt0(r, x, m, y)
                     /\ SamePt1(c, x, m, y) <=> SamePt1(r, x, m, y)
  BY <1>4 DEF SamePage, SamePt0, SamePt1
<1>11. \A j \in 0 .. 1 : j = 0 \/ j = 1 OBVIOUS
<1>12. ASSUME k = "pt0" PROVE Same("pt0", r, t, m, pt)
  <2>1. SamePt0(c, t, m, pt)
    BY <1>2, <1>11, <1>12 DEF MadeEntry, SameEntry, Kid, Same, SamePt0
  <2> QED BY <1>10, <2>1 DEF Same
<1>13. ASSUME k = "pt1" PROVE Same("pt1", r, t, m, pt)
  <2>1. SamePt1(c, t, m, pt)
    BY <1>2, <1>11, <1>13 DEF MadeEntry, SameEntry, Kid, Same, SamePt1
  <2> QED BY <1>10, <2>1 DEF Same
<1>14. ASSUME k = "root"
       PROVE  /\ r.mem[t].pte[0] = m.mem[pt].pte[0]
              /\ SameEntry("pt1", r, r.mem[t].pte[1], m, m.mem[pt].pte[1])
  <2>1. r.mem[t].pte[0] = m.mem[pt].pte[0] BY <1>2, <1>4, <1>14 DEF MadeEntry
  <2>2. SameEntry("pt1", c, c.mem[t].pte[1], m, m.mem[pt].pte[1])
    BY <1>2, <1>14 DEF MadeEntry, Kid
  <2>3. \A x : \A y : Same("pt1", c, x, m, y) <=> Same("pt1", r, x, m, y) BY <1>10 DEF Same
  <2> QED BY <1>4, <2>1, <2>2, <2>3 DEF SameEntry
<1> QED BY <1>4, <1>9, <1>12, <1>13, <1>14 DEF t

LEMMA Pt0Copied ==
    ASSUME NEW m \in M, NEW o, Owned(m, o), NEW rt \in Frames,
           NEW pt \in Frames, o[pt].kind = "pt0", ClonePt0(m, pt).ok
    PROVE  CopyMade(m, o, ClonePt0(m, pt), rt, "pt0", pt)
<1> DEFINE a == memory_alloc_page(m)
           b == Entry0(m, pt, a.page, a, 0)
           c == Entry0(m, pt, a.page, b, 1)
           r == ClonePt0(m, pt)
<1>1. /\ Rounds(r, a, c) /\ b \in M /\ c \in M /\ (b.ok => a.ok) /\ (c.ok => b.ok)
  BY Clone0Is
<1>2. a \in M BY AllocIs
<1>3. Kid("pt0") = "page" BY DEF Kid
<1> HIDE DEF r
<1>4. c.ok
  <2> HIDE DEF a, b, c
  <2> QED BY <1>1 DEF Rounds, M, r
<1>5. ASSUME NEW n \in M, NEW on, NEW i \in 0 .. 1, Building(m, o, n, on, rt, a.page, "pt0", pt, i),
             Entry0(m, pt, a.page, n, i).ok
      PROVE  \E o2 : Building(m, o, Entry0(m, pt, a.page, n, i), o2, rt, a.page, "pt0", pt, i + 1)
  <2> DEFINE e == m.mem[pt].pte[i]
             s == ClonePage(n, e.ppn)
             w == Entry0(m, pt, a.page, n, i)
  <2>1. e.ppn \in Frames BY DEF M, Contents, Ptes
  <2>2. s \in M BY <2>1, PageTyped
  <2>3. Owned(n, on) BY <1>5 DEF Building, Fresh
  <2>4. s.ok /\ on[e.ppn].kind = "page" => CopyMade(n, on, s, rt, "page", e.ppn)
    BY <2>1, <2>3, PageCopied
  <2>5. w = CopyEntry(e, TRUE, n, s, a.page, i) BY DEF Entry0
  <2> HIDE DEF a, s, w
  <2>6. w.ok BY SMTT(30), <1>5 DEF w
  <2>7. \E o2 : Building(m, o, w, o2, rt, a.page, "pt0", pt, i + 1)
    BY <1>3, <1>5, <2>2, <2>4, <2>5, <2>6, BuildEntry DEF Tabs
  <2> QED BY <2>7 DEF w
<1>6. PICK oa : Building(m, o, a, oa, rt, a.page, "pt0", pt, 0)
  BY <1>1, <1>4, BuildStart DEF Tabs
<1>7. PICK ob : Building(m, o, b, ob, rt, a.page, "pt0", pt, 1)
  <2>1. b.ok /\ 0 + 1 = 1 /\ 0 \in 0 .. 1 BY <1>1, <1>4
  <2> HIDE DEF a
  <2> QED BY <1>2, <1>5, <1>6, <2>1
<1>8. PICK oc : Building(m, o, c, oc, rt, a.page, "pt0", pt, 2)
  <2>1. 1 + 1 = 2 /\ 1 \in 0 .. 1 OBVIOUS
  <2> HIDE DEF a, b
  <2> QED BY <1>1, <1>4, <1>5, <1>7, <2>1
<1> HIDE DEF a, b, c
<1>9. r \in M /\ Cloned(m, o, r, oc, rt, "pt0") /\ Same("pt0", r, r.page, m, pt)
  <2>1. "pt0" \in Tabs BY DEF Tabs
  <2> QED BY <1>1, <1>8, <2>1, BuildEnd
<1> QED BY <1>9 DEF CopyMade, r

LEMMA Pt1Copied ==
    ASSUME NEW m \in M, NEW o, Owned(m, o), NEW rt \in Frames,
           NEW pt \in Frames, o[pt].kind = "pt1", ClonePt1(m, pt).ok
    PROVE  CopyMade(m, o, ClonePt1(m, pt), rt, "pt1", pt)
<1> DEFINE a == memory_alloc_page(m)
           b == Entry1(m, pt, a.page, a, 0)
           c == Entry1(m, pt, a.page, b, 1)
           r == ClonePt1(m, pt)
<1>1. /\ Rounds(r, a, c) /\ b \in M /\ c \in M /\ (b.ok => a.ok) /\ (c.ok => b.ok)
  BY Clone1Is
<1>2. a \in M BY AllocIs
<1>3. Kid("pt1") = "pt0" BY DEF Kid
<1> HIDE DEF r
<1>4. c.ok
  <2> HIDE DEF a, b, c
  <2> QED BY <1>1 DEF Rounds, M, r
<1>5. ASSUME NEW n \in M, NEW on, NEW i \in 0 .. 1, Building(m, o, n, on, rt, a.page, "pt1", pt, i),
             Entry1(m, pt, a.page, n, i).ok
      PROVE  \E o2 : Building(m, o, Entry1(m, pt, a.page, n, i), o2, rt, a.page, "pt1", pt, i + 1)
  <2> DEFINE e == m.mem[pt].pte[i]
             s == ClonePt0(n, e.ppn)
             w == Entry1(m, pt, a.page, n, i)
  <2>1. e.ppn \in Frames BY DEF M, Contents, Ptes
  <2>2. s \in M BY <2>1, Clone0Typed
  <2>3. Owned(n, on) BY <1>5 DEF Building, Fresh
  <2>4. s.ok /\ on[e.ppn].kind = "pt0" => CopyMade(n, on, s, rt, "pt0", e.ppn)
    BY <2>1, <2>3, Pt0Copied
  <2>5. w = CopyEntry(e, IsTable(e), n, s, a.page, i) BY DEF Entry1
  <2> HIDE DEF a, s, w
  <2>6. w.ok BY SMTT(30), <1>5 DEF w
  <2>7. \E o2 : Building(m, o, w, o2, rt, a.page, "pt1", pt, i + 1)
    BY <1>3, <1>5, <2>2, <2>4, <2>5, <2>6, BuildEntry DEF Tabs
  <2> QED BY <2>7 DEF w
<1>6. PICK oa : Building(m, o, a, oa, rt, a.page, "pt1", pt, 0)
  BY <1>1, <1>4, BuildStart DEF Tabs
<1>7. PICK ob : Building(m, o, b, ob, rt, a.page, "pt1", pt, 1)
  <2>1. b.ok /\ 0 + 1 = 1 /\ 0 \in 0 .. 1 BY <1>1, <1>4
  <2> HIDE DEF a
  <2> QED BY <1>2, <1>5, <1>6, <2>1
<1>8. PICK oc : Building(m, o, c, oc, rt, a.page, "pt1", pt, 2)
  <2>1. 1 + 1 = 2 /\ 1 \in 0 .. 1 OBVIOUS
  <2> HIDE DEF a, b
  <2> QED BY <1>1, <1>4, <1>5, <1>7, <2>1
<1> HIDE DEF a, b, c
<1>9. r \in M /\ Cloned(m, o, r, oc, rt, "pt1") /\ Same("pt1", r, r.page, m, pt)
  <2>1. "pt1" \in Tabs BY DEF Tabs
  <2> QED BY <1>1, <1>8, <2>1, BuildEnd
<1> QED BY <1>9 DEF CopyMade, r

\* The root: its entry 0 is shared, its entry 1 copied.
RootMade(m, o, r, o2, rt) ==
    /\ r \in M /\ Cloned(m, o, r, o2, r.page, "root")
    /\ r.mem[r.page].pte[0] = kernel_pte
    /\ SameEntry("pt1", r, r.mem[r.page].pte[1], m, m.mem[rt].pte[1])

LEMMA RootCopied ==
    ASSUME NEW m \in M, NEW o, Owned(m, o), NEW pt \in Frames, o[pt].kind = "root",
           m.mem[pt].pte[0] = kernel_pte, memory_space_clone(m, pt).ok
    PROVE  \E o2 : RootMade(m, o, memory_space_clone(m, pt), o2, pt)
<1> DEFINE a == memory_alloc_page(m)
           b == Entry2(m, pt, a.page, a, 0)
           c == Entry2(m, pt, a.page, b, 1)
           r == memory_space_clone(m, pt)
<1>1. /\ Rounds(r, a, c) /\ b \in M /\ c \in M /\ (b.ok => a.ok) /\ (c.ok => b.ok)
  BY Clone2Is
<1>2. a \in M BY AllocIs
<1>3. Kid("root") = "pt1" BY DEF Kid
<1> HIDE DEF r
<1>4. c.ok
  <2> HIDE DEF a, b, c
  <2> QED BY <1>1 DEF Rounds, M, r
<1>5. a.page \in Frames BY <1>2 DEF M
<1>6. PICK oa : Building(m, o, a, oa, a.page, a.page, "root", pt, 0)
  BY <1>1, <1>4, <1>5, BuildStart DEF Tabs
<1>7. Building(m, o, b, oa, a.page, a.page, "root", pt, 1)
  <2>1. b = SetPte(a, a.page, 0, kernel_pte)
    BY DEF Entry2, CopyEntry, verify_flags, Shares, kernel_pte, ptab_pte
  <2> HIDE DEF a, b
  <2> QED BY <1>2, <1>5, <1>6, <2>1, BuildShare
<1>8. PICK oc : Building(m, o, c, oc, a.page, a.page, "root", pt, 2)
  <2> DEFINE e == m.mem[pt].pte[1]
             s == ClonePt1(b, e.ppn)
  <2>1. e.ppn \in Frames BY DEF M, Contents, Ptes
  <2>2. s \in M
    <3> HIDE DEF b
    <3> QED BY <1>1, <2>1, Clone1Typed
  <2>3. Owned(b, oa) BY <1>7 DEF Building, Fresh
  <2>4. s.ok /\ oa[e.ppn].kind = "pt1" => CopyMade(b, oa, s, a.page, "pt1", e.ppn)
    <3> HIDE DEF b, a
    <3> QED BY <1>1, <1>5, <2>1, <2>3, Pt1Copied
  <2>5. c = CopyEntry(e, IsTable(e), b, s, a.page, 1) BY SMTT(30) DEF Entry2
  <2> HIDE DEF a, b, c, s
  <2>6. \E o2 : Building(m, o, c, o2, a.page, a.page, "root", pt, 1 + 1)
    <3>1. 1 \in 0 .. 1 /\ "root" \in Tabs BY DEF Tabs
    <3>2. s.ok /\ oa[e.ppn].kind = Kid("root") => CopyMade(b, oa, s, a.page, Kid("root"), e.ppn)
      BY <1>3, <2>4
    <3>3. "root" = "pt0" \/ IsTable(e) => IsTable(e) OBVIOUS
    <3> QED BY ONLY <1>1, <1>4, <1>5, <1>7, <2>2, <2>5, <3>1, <3>2, <3>3, BuildEntry,
                    m \in M, Owned(m, o), pt \in Frames, o[pt].kind = "root" DEF e
  <2> QED BY <2>6
<1> HIDE DEF a, b, c
<1>9. /\ r \in M /\ r.page = a.page /\ Cloned(m, o, r, oc, a.page, "root")
      /\ r.mem[r.page].pte[0] = m.mem[pt].pte[0]
      /\ SameEntry("pt1", r, r.mem[r.page].pte[1], m, m.mem[pt].pte[1])
  <2>1. "root" \in Tabs BY DEF Tabs
  <2> DEFINE rt == a.page
  <2>2. rt \in Frames /\ Building(m, o, c, oc, rt, a.page, "root", pt, 2) BY <1>5, <1>8
  <2> HIDE DEF rt
  <2>3. /\ r \in M /\ r.page = a.page /\ Cloned(m, o, r, oc, rt, "root")
        /\ r.mem[r.page].pte[0] = m.mem[pt].pte[0]
        /\ SameEntry("pt1", r, r.mem[r.page].pte[1], m, m.mem[pt].pte[1])
    BY ONLY <1>1, <2>1, <2>2, BuildEnd, m \in M
  <2> QED BY <2>3 DEF rt
<1>10. RootMade(m, o, r, oc, pt) BY <1>9 DEF RootMade
<1> QED BY <1>10 DEF r

------------------------------------------------------------------------------
(* The space of a child *)

\* The entries that the walk of a page goes by.
Has(m, rt, page) ==
    LET e2 == m.mem[rt].pte[1]
        e1 == m.mem[e2.ppn].pte[VPN1(page)]
    IN e2 # null_pte /\ e1 # null_pte /\ m.mem[e1.ppn].pte[VPN0(page)] # null_pte
PageOf(m, rt, page) ==
    LET e2 == m.mem[rt].pte[1]
        e1 == m.mem[e2.ppn].pte[VPN1(page)]
    IN m.mem[e1.ppn].pte[VPN0(page)].ppn

LEMMA EntriesAre ==
    ASSUME NEW m \in M, NEW o, Owned(m, o), NEW rt \in Frames, o[rt].kind = "root",
           NEW page \in UserPages
    PROVE  /\ \A c \in Frames : At(o, c, rt, page) => Has(m, rt, page)
           /\ Has(m, rt, page) => PageOf(m, rt, page) \in Pool /\ At(o, PageOf(m, rt, page), rt, page)
<1>1. VPN1(page) \in 0 .. 1 /\ VPN0(page) \in 0 .. 1 BY SMTT(30), PageSplit
<1>2. ASSUME NEW c \in Frames, At(o, c, rt, page) PROVE Has(m, rt, page)
  <2>1. walk_pt(m, rt, page) = {<<o[c].up[1], VPN0(page)>>} BY <1>2, WalkFinds
  <2>2. walk_pt(m, rt, page) # {} BY Zenon, <2>1
  <2> QED BY Zenon, <2>2, NullTyped DEF walk_pt, IsTable, verify_flags, Has
<1>3. ASSUME Has(m, rt, page) PROVE PageOf(m, rt, page) \in Pool /\ At(o, PageOf(m, rt, page), rt, page)
  <2> DEFINE e2 == m.mem[rt].pte[1]
             h == e2.ppn
             e1 == m.mem[h].pte[VPN1(page)]
             g == e1.ppn
             e0 == m.mem[g].pte[VPN0(page)]
             c == e0.ppn
  <2>1. e2 # null_pte /\ e1 # null_pte /\ e0 # null_pte BY Zenon, <1>3 DEF Has
  <2>2. c = PageOf(m, rt, page) BY DEF PageOf
  <2>3. h \in Pool /\ o[h] = [kind |-> "pt1", root |-> rt, up |-> <<rt, 1>>]
    <3>1. EntryOK(m, o, rt, 1) BY DEF Owned, Tree, Tabs
    <3>2. o[rt].root = rt BY DEF Owned, Tree
    <3>3. Kid("root") = "pt1" BY SMTT(30) DEF Kid
    <3>4. e2 # null_pte BY Zenon, <2>1
    <3> QED BY <3>1, <3>2, <3>3, <3>4 DEF EntryOK
  <2>4. h \in Frames BY <2>3, FrameKinds
  <2> HIDE DEF h
  <2>5. g \in Pool /\ o[g] = [kind |-> "pt0", root |-> rt, up |-> <<h, VPN1(page)>>]
    <3>1. EntryOK(m, o, h, VPN1(page)) BY <1>1, <2>3, <2>4 DEF Owned, Tree, Tabs
    <3>2. Kid("pt1") = "pt0" BY DEF Kid
    <3> QED BY <2>1, <2>3, <3>1, <3>2 DEF EntryOK
  <2>6. g \in Frames BY <2>5, FrameKinds
  <2> HIDE DEF g
  <2>7. c \in Pool /\ o[c] = [kind |-> "page", root |-> rt, up |-> <<g, VPN0(page)>>]
    <3>1. EntryOK(m, o, g, VPN0(page)) BY <1>1, <2>5, <2>6 DEF Owned, Tree, Tabs
    <3>2. Kid("pt0") = "page" BY DEF Kid
    <3> QED BY <2>1, <2>5, <3>1, <3>2 DEF EntryOK
  <2> HIDE DEF c
  <2>8. At(o, c, rt, page)
    <3>1. o[c].up[1] = g /\ o[g].up[1] = h BY <2>5, <2>7
    <3> QED BY <2>3, <2>5, <2>7, <3>1 DEF At
  <2> QED BY <2>2, <2>7, <2>8
<1> QED BY <1>2, <1>3

LEMMA CopyHas ==
    ASSUME NEW m, NEW o, NEW r, NEW o2, NEW rt, RootMade(m, o, r, o2, rt), NEW page \in UserPages
    PROVE  /\ Has(r, r.page, page) <=> Has(m, rt, page)
           /\ Has(m, rt, page) => r.mem[PageOf(r, r.page, page)].data = m.mem[PageOf(m, rt, page)].data
<1> DEFINE e2 == m.mem[rt].pte[1]
           e1 == m.mem[e2.ppn].pte[VPN1(page)]
           e0 == m.mem[e1.ppn].pte[VPN0(page)]
           d2 == r.mem[r.page].pte[1]
           d1 == r.mem[d2.ppn].pte[VPN1(page)]
           d0 == r.mem[d1.ppn].pte[VPN0(page)]
<1>1. VPN1(page) \in 0 .. 1 /\ VPN0(page) \in 0 .. 1 BY PageSplit
<1>2. IF e2 = null_pte THEN d2 = null_pte ELSE d2 # null_pte /\ SamePt1(r, d2.ppn, m, e2.ppn)
  BY SMTT(30) DEF RootMade, SameEntry, Same
<1>3. SamePt1(r, d2.ppn, m, e2.ppn) =>
         IF e1 = null_pte THEN d1 = null_pte ELSE d1 # null_pte /\ SamePt0(r, d1.ppn, m, e1.ppn)
  BY ZenonT(30), <1>1 DEF SamePt1
<1>4. SamePt0(r, d1.ppn, m, e1.ppn) =>
         IF e0 = null_pte THEN d0 = null_pte
         ELSE d0 # null_pte /\ r.mem[d0.ppn].data = m.mem[e0.ppn].data
  BY Zenon, <1>1 DEF SamePt0, SamePage
<1>5. Has(m, rt, page) <=> e2 # null_pte /\ e1 # null_pte /\ e0 # null_pte BY DEF Has
<1>6. Has(r, r.page, page) <=> d2 # null_pte /\ d1 # null_pte /\ d0 # null_pte BY DEF Has
<1>7. PageOf(m, rt, page) = e0.ppn /\ PageOf(r, r.page, page) = d0.ppn BY DEF PageOf
<1> HIDE DEF e2, e1, e0, d2, d1, d0
<1> QED BY <1>2, <1>3, <1>4, <1>5, <1>6, <1>7

\* The child starts with a copy of its parent's memory.
LEMMA CopyView ==
    ASSUME NEW m \in M, NEW o, Owned(m, o), NEW rt \in Frames, o[rt].kind = "root",
           NEW r, NEW o2, RootMade(m, o, r, o2, rt)
    PROVE  View(r, o2, r.page) = View(m, o, rt)
<1> DEFINE t == r.page
<1>1. r \in M /\ Owned(r, o2) /\ t \in Pool /\ o2[t].kind = "root"
  BY DEF RootMade, Cloned, Fresh
<1>2. t \in Frames BY <1>1, FrameKinds
<1>3. ASSUME NEW a \in Addrs PROVE View(r, o2, t)[a] = View(m, o, rt)[a]
  <2> DEFINE page == a \div PAGE_SIZE
  <2>1. page \in UserPages BY AddrSplit
  <2>2. CASE Has(m, rt, page)
    <3> DEFINE c == PageOf(m, rt, page)
               d == PageOf(r, t, page)
    <3>1. Has(r, t, page) /\ r.mem[d].data = m.mem[c].data BY <2>1, <2>2, CopyHas
    <3>2. c \in Pool /\ At(o, c, rt, page) BY <2>1, <2>2, EntriesAre
    <3>3. d \in Pool /\ At(o2, d, t, page) BY <1>1, <1>2, <2>1, <3>1, EntriesAre
    <3> HIDE DEF c, d, t
    <3>4. View(m, o, rt)[a] = m.mem[c].data[a % PAGE_SIZE] BY <3>2, ViewAt
    <3>5. View(r, o2, t)[a] = r.mem[d].data[a % PAGE_SIZE] BY <1>1, <1>2, <3>3, ViewAt
    <3> QED BY <3>1, <3>4, <3>5
  <2>3. CASE ~Has(m, rt, page)
    <3>1. ~Has(r, t, page) BY <2>1, <2>3, CopyHas
    <3>2. \A c \in Pool : ~At(o, c, rt, page) BY <2>1, <2>3, EntriesAre, FrameKinds
    <3>3. \A c \in Pool : ~At(o2, c, t, page) BY <1>1, <1>2, <2>1, <3>1, EntriesAre, FrameKinds
    <3> QED BY <3>2, <3>3, ViewNull
  <2> QED BY <2>2, <2>3
<1> QED BY <1>3 DEF View

\* The spaces that there were stay as they are.
LEMMA FreshView ==
    ASSUME NEW m \in M, NEW o, Owned(m, o), NEW r, NEW o2, NEW rt, NEW X,
           Fresh(m, o, r, o2, rt, X), NEW t \in Frames, t # rt
    PROVE  View(r, o2, t) = View(m, o, t)
<1>1. r \in M /\ Owned(r, o2) /\ o \in Owners /\ o2 \in Owners BY DEF Owned, Fresh
<1>2. \A f \in Frames : o[f].kind # "free" => o2[f] = o[f] /\ r.mem[f] = m.mem[f] BY DEF Fresh
<1>3. ASSUME NEW c \in Pool, NEW page \in UserPages PROVE At(o, c, t, page) <=> At(o2, c, t, page)
  <2>1. c \in Frames BY FrameKinds
  <2>2. At(o, c, t, page) => At(o2, c, t, page) BY SMTT(30), <1>1, <1>2, <2>1, AtKept
  <2>3. ASSUME At(o2, c, t, page) PROVE At(o, c, t, page)
    <3> DEFINE g == o2[c].up[1]
               h == o2[g].up[1]
    <3>1. /\ g \in Frames /\ h \in Frames
          /\ o2[c].root = t /\ o2[g].root = t /\ o2[h].root = t
      BY SMTT(30), <1>1, <2>1, <2>3, AtRoot
    <3>2. o2[c].kind = "page" /\ o2[g].kind = "pt0" /\ o2[h].kind = "pt1"
          /\ o2[c].up = <<g, VPN0(page)>> /\ o2[g].up = <<h, VPN1(page)>> /\ o2[h].up = <<t, 1>>
      BY Zenon, <2>3 DEF At
    <3> HIDE DEF g, h
    <3>3. o[c].kind # "free" /\ o[g].kind # "free" /\ o[h].kind # "free"
      BY <2>1, <3>1, <3>2 DEF Fresh
    <3>4. o[c] = o2[c] /\ o[g] = o2[g] /\ o[h] = o2[h] BY SMTT(30), <1>2, <2>1, <3>1, <3>3
    <3> QED BY <3>2, <3>4 DEF At
  <2> QED BY <2>2, <2>3
<1>4. ASSUME NEW c \in Pool, NEW page \in UserPages, At(o, c, t, page)
      PROVE  r.mem[c].data = m.mem[c].data
  BY Zenon, <1>2, <1>4, FrameKinds DEF At
<1> QED BY <1>1, <1>3, <1>4, ViewSame

LEMMA CopySpaced ==
    ASSUME NEW m, NEW o, NEW roots, NEW gone, NEW stk, Spaced(m, o, roots, gone, stk),
           NEW rt, NEW r, NEW o2, RootMade(m, o, r, o2, rt)
    PROVE  Spaced(r, o2, roots \cup {r.page}, gone, stk)
<1> USE DEF Spaced
<1> DEFINE t == r.page
<1>1. /\ r \in M /\ Fresh(m, o, r, o2, t, {t}) /\ t \in Pool /\ o[t].kind = "free"
      /\ o2[t] = [kind |-> "root", root |-> t, up |-> Detached]
      /\ r.mem[t].pte[0] = kernel_pte
  BY DEF RootMade, Cloned
<1>2. t \in Frames BY <1>1, FrameKinds
<1> HIDE DEF t
<1>3. \A f \in Frames : o[f].kind # "free" => o2[f] = o[f] /\ r.mem[f] = m.mem[f] BY <1>1 DEF Fresh
<1>4. ASSUME NEW f \in Frames, o[f].kind = "free", o2[f].kind # "free"
      PROVE  /\ o2[f].root = t
             /\ o2[f].kind \in Kids \/ (o2[f].kind = "root" /\ f = t)
             /\ o2[f].kind \in Kids => o2[f].up # Detached
  <2>1. f = t => o2[f].kind \notin Kids BY <1>1 DEF Kids
  <2> QED BY <1>1, <1>4, <2>1 DEF Fresh
<1>5. Owned(r, o2) /\ AllUser(r, o2) /\ NoNulls(r, o2) BY <1>1 DEF Fresh
<1>6. NoneDetached(o2) BY <1>3, <1>4 DEF NoneDetached, Kids
<1>7. \A f \in Frames : o2[f].kind = "stack" <=> f \in stk BY <1>3, <1>4 DEF Kids
<1>8. RootsAre(r, o2, (roots \cup {t}) \cup gone \cup {main_pt2})
  <2> SUFFICES ASSUME NEW f \in Frames
               PROVE  /\ o2[f].kind = "root" <=> f \in (roots \cup {t}) \cup gone \cup {main_pt2}
                      /\ o2[f].kind = "root" => r.mem[f].pte[0] = kernel_pte
    BY DEF RootsAre
  <2>1. CASE f = t BY <1>1, <2>1
  <2>2. CASE f # t /\ o[f].kind # "free" BY <1>3, <2>2 DEF RootsAre
  <2>3. CASE f # t /\ o[f].kind = "free" BY <1>4, <2>3 DEF RootsAre, Kids
  <2> QED BY <2>1, <2>2, <2>3
<1>9. GoneMapNothing(r, o2, gone)
  <2> SUFFICES ASSUME NEW f \in Frames, NEW j \in 0 .. 1, o2[f].kind = "pt0", o2[f].root \in gone
               PROVE  r.mem[f].pte[j] = null_pte
    BY DEF GoneMapNothing
  <2>1. t \notin gone BY <1>1, <1>2 DEF RootsAre
  <2>2. o[f].kind # "free" BY <1>4, <2>1
  <2> QED BY <1>3, <2>2 DEF GoneMapNothing
<1> QED BY <1>1, <1>5, <1>6, <1>7, <1>8, <1>9 DEF t

\* A page that becomes a stack.
LEMMA StackKeeps ==
    ASSUME NEW m, NEW o, NEW roots, NEW gone, NEW stk, Spaced(m, o, roots, gone, stk),
           memory_alloc_page(m).ok
    PROVE  LET r == memory_alloc_page(m)
               o2 == Give(o, r.page, "stack", NoFrame)
           IN /\ r.page \in Pool /\ Spaced(r, o2, roots, gone, stk \cup {r.page})
              /\ \A t \in Frames : View(r, o2, t) = View(m, o, t)
<1> USE DEF Spaced
<1> DEFINE r == memory_alloc_page(m)
           o2 == Give(o, r.page, "stack", NoFrame)
<1>1. /\ r \in M /\ r.page \in Pool
      /\ \A f \in Frames : f # r.page => r.mem[f] = m.mem[f]
  BY AllocIs
<1>2. o[r.page].kind = "free" /\ Owned(r, o2)
  <2>1. NoFrame \in Frames /\ "stack" \in Kinds \ {"free", "kernel"} /\ "stack" # "root"
    BY FrameKinds DEF Kinds
  <2> HIDE DEF r
  <2> QED BY <2>1, AllocKeeps DEF r
<1> HIDE DEF r
<1>3. r.page \in Frames BY <1>1, FrameKinds
<1>4. \A f \in Frames :
         o2[f] = IF f = r.page THEN [kind |-> "stack", root |-> NoFrame, up |-> Detached] ELSE o[f]
  BY <1>3 DEF Give, Owned, Owners
<1> HIDE DEF o2
<1>5. AllUser(r, o2) BY <1>1, <1>4 DEF AllUser
<1>6. NoNulls(r, o2) BY <1>1, <1>4 DEF NoNulls
<1>7. NoneDetached(o2) BY <1>4 DEF NoneDetached, Kids
<1>8. \A f \in Frames : o2[f].kind = "stack" <=> f \in stk \cup {r.page} BY <1>4
<1>9. RootsAre(r, o2, roots \cup gone \cup {main_pt2}) BY <1>1, <1>2, <1>4 DEF RootsAre
<1>10. GoneMapNothing(r, o2, gone) BY <1>1, <1>4 DEF GoneMapNothing
<1>11. Spaced(r, o2, roots, gone, stk \cup {r.page})
  BY <1>1, <1>2, <1>5, <1>6, <1>7, <1>8, <1>9, <1>10
<1>12. ASSUME NEW t \in Frames PROVE View(r, o2, t) = View(m, o, t)
  <2>1. \A f \in Frames : o[f].kind # "free" => o2[f] = o[f] BY <1>2, <1>4
  <2>2. o \in Owners /\ o2 \in Owners BY SMTT(30), <1>2 DEF Owned
  <2>3. ASSUME NEW c \in Pool, NEW page \in UserPages, At(o2, c, t, page) PROVE At(o, c, t, page)
    <3> DEFINE g == o2[c].up[1]
               h == o2[g].up[1]
    <3>1. c \in Frames BY FrameKinds
    <3>2. g \in Frames BY <2>2, <3>1 DEF Owners
    <3>3. h \in Frames BY SMTT(30), <2>2, <3>2 DEF Owners
    <3>4. o2[c].kind = "page" /\ o2[g].kind = "pt0" /\ o2[h].kind = "pt1"
          /\ o2[c].up = <<g, VPN0(page)>> /\ o2[g].up = <<h, VPN1(page)>> /\ o2[h].up = <<t, 1>>
      BY Zenon, <2>3 DEF At
    <3>5. g = o2[c].up[1] /\ h = o2[g].up[1] OBVIOUS
    <3> HIDE DEF g, h
    <3>6. o[c] = o2[c] /\ o[g] = o2[g] /\ o[h] = o2[h] BY <1>4, <3>1, <3>2, <3>3, <3>4
    <3>7. g = o[c].up[1] /\ h = o[g].up[1] BY <3>5, <3>6
    <3>8. o[c].kind = "page" /\ o[g].kind = "pt0" /\ o[h].kind = "pt1"
          /\ o[c].up = <<g, VPN0(page)>> /\ o[g].up = <<h, VPN1(page)>> /\ o[h].up = <<t, 1>>
      BY <3>4, <3>6
    <3> QED BY Zenon, <3>7, <3>8 DEF At
  <2>4. \A c \in Pool : \A page \in UserPages : At(o, c, t, page) => At(o2, c, t, page)
    BY SMTT(30), <2>1, <2>2, AtKept, FrameKinds
  <2>5. ASSUME NEW c \in Pool, NEW page \in UserPages, At(o, c, t, page)
        PROVE  r.mem[c].data = m.mem[c].data
    BY Zenon, <1>1, <1>2, <2>5, FrameKinds DEF At
  <2> QED BY <1>1, <1>2, <2>3, <2>4, <2>5, ViewSame
<1> QED BY <1>1, <1>11, <1>12 DEF r, o2

\* A store.
StoreWord(m, c, x, v) == [m EXCEPT !.mem[c].data[x] = v]
Stores(m, o, r, rt, a, v, roots, gone, stk) ==
    /\ Spaced(r, o, roots, gone, stk)
    /\ View(m, o, rt)[a] # Null /\ View(r, o, rt) = [View(m, o, rt) EXCEPT ![a] = v]
    /\ \A t \in Frames : t # rt => View(r, o, t) = View(m, o, t)

LEMMA StoreKeeps ==
    ASSUME NEW m, NEW o, NEW roots, NEW gone, NEW stk, Spaced(m, o, roots, gone, stk),
           NEW rt \in Frames, NEW a \in Addrs, NEW c \in Pool, At(o, c, rt, a \div PAGE_SIZE),
           NEW v \in Words, v # Null,
           NEW r, r = StoreWord(m, c, a % PAGE_SIZE, v)
    PROVE  Stores(m, o, r, rt, a, v, roots, gone, stk)
<1> USE DEF Spaced
<1> DEFINE page == a \div PAGE_SIZE
           x == a % PAGE_SIZE
<1>1. page \in UserPages /\ x \in 0 .. PAGE_SIZE - 1 /\ a = PAGE_SIZE * page + x
  BY SMTT(30), AddrSplit
<1>2. c \in Frames /\ o[c].kind = "page" BY Zenon, FrameKinds DEF At
<1>3. At(o, c, rt, page) OBVIOUS
<1>4. r = StoreWord(m, c, x, v) OBVIOUS
<1> HIDE DEF page, x
<1> DEFINE d1 == [m.mem[c].data EXCEPT ![x] = v]
           new1 == [m.mem[c] EXCEPT !.data = d1]
<1>5. m.mem[c] \in Contents BY <1>2 DEF M
<1>6. d1 \in [0 .. PAGE_SIZE - 1 -> Words] /\ \A y \in 0 .. PAGE_SIZE - 1 :
          d1[y] = IF y = x THEN v ELSE m.mem[c].data[y]
  BY <1>1, <1>5 DEF Contents
<1>7. r = [m EXCEPT !.mem = [m.mem EXCEPT ![c] = new1]] BY <1>4 DEF StoreWord
<1> HIDE DEF d1
<1>8. new1 \in Contents /\ new1.pte = m.mem[c].pte /\ new1.data = d1 BY <1>5, <1>6 DEF Contents
<1> HIDE DEF new1
<1>9. r \in M /\ r.free = m.free /\ r.ok = m.ok /\ r.mem = [m.mem EXCEPT ![c] = new1]
  BY <1>2, <1>7, <1>8 DEF M
<1>10. \A f \in Frames : r.mem[f] = IF f = c THEN new1 ELSE m.mem[f] BY <1>9 DEF M
<1>11. (\A f \in Frames : r.mem[f].pte = m.mem[f].pte) /\ (\A f \in Frames : f # c => r.mem[f] = m.mem[f])
  BY <1>2, <1>8, <1>10
<1>12. \A y \in 0 .. PAGE_SIZE - 1 : r.mem[c].data[y] = IF y = x THEN v ELSE m.mem[c].data[y]
  BY <1>2, <1>6, <1>8, <1>10
<1>13. SameTables(m, r) BY <1>9, <1>11 DEF SameTables
<1>14. Owned(r, o) BY <1>13, SameOwned
<1>15. NoNulls(r, o)
  <2> SUFFICES ASSUME NEW f \in Frames, o[f].kind = "page", NEW y \in 0 .. PAGE_SIZE - 1
               PROVE  r.mem[f].data[y] # Null
    BY DEF NoNulls
  <2>1. CASE f = c BY <1>2, <1>12, <2>1 DEF NoNulls
  <2>2. CASE f # c BY <1>11, <2>2 DEF NoNulls
  <2> QED BY <2>1, <2>2
<1>16. Spaced(r, o, roots, gone, stk)
  <2>1. AllUser(r, o) BY <1>11 DEF AllUser
  <2>2. RootsAre(r, o, roots \cup gone \cup {main_pt2}) BY <1>11 DEF RootsAre
  <2>3. GoneMapNothing(r, o, gone) BY <1>11 DEF GoneMapNothing
  <2> QED BY <1>9, <1>14, <1>15, <2>1, <2>2, <2>3
<1>17. View(m, o, rt)[a] # Null
  <2>1. View(m, o, rt)[a] = m.mem[c].data[x] BY ViewAt DEF x
  <2> QED BY <1>1, <1>2, <2>1 DEF NoNulls
<1>18. ASSUME NEW b \in Addrs
       PROVE  View(r, o, rt)[b] = IF b = a THEN v ELSE View(m, o, rt)[b]
  <2> DEFINE q == b \div PAGE_SIZE
             y == b % PAGE_SIZE
  <2>1. q \in UserPages /\ y \in 0 .. PAGE_SIZE - 1 /\ b = PAGE_SIZE * q + y BY AddrSplit
  <2>2. CASE \E d \in Pool : At(o, d, rt, q)
    <3>1. PICK d \in Pool : At(o, d, rt, q) BY <2>2
    <3>2. View(m, o, rt)[b] = m.mem[d].data[y] BY <3>1, ViewAt
    <3>3. View(r, o, rt)[b] = r.mem[d].data[y] BY <1>9, <1>14, <3>1, ViewAt
    <3> HIDE DEF q, y
    <3>4. d \in Frames BY FrameKinds
    <3>5. d = c <=> q = page
      <4>1. q = page => d = c BY <1>1, <1>2, <1>3, <3>1, <3>4, AtUnique
      <4>2. d = c => q = page BY <1>1, <1>2, <1>3, <2>1, <3>1, AtUnique
      <4> QED BY <4>1, <4>2
    <3>6. b = a <=> q = page /\ y = x
      <4>1. b = a => q = page /\ y = x BY DEF q, y, page, x
      <4> QED BY <1>1, <2>1, <4>1
    <3>7. CASE d = c BY <1>12, <2>1, <3>2, <3>3, <3>5, <3>6, <3>7
    <3>8. CASE d # c BY <1>11, <3>2, <3>3, <3>4, <3>5, <3>6, <3>8
    <3> QED BY <3>7, <3>8
  <2>3. CASE \A d \in Pool : ~At(o, d, rt, q)
    <3>1. View(m, o, rt)[b] = Null /\ View(r, o, rt)[b] = Null BY <2>3, ViewNull
    <3>2. b # a BY <1>3, <2>3 DEF page
    <3> QED BY <3>1, <3>2
  <2> QED BY <2>2, <2>3
<1>19. View(r, o, rt) = [View(m, o, rt) EXCEPT ![a] = v]
  <2> DEFINE new == View(r, o, rt)
             old == View(m, o, rt)
  <2>1. new = [b \in Addrs |-> new[b]] /\ old = [b \in Addrs |-> old[b]] BY DEF View
  <2>2. \A b \in Addrs : new[b] = IF b = a THEN v ELSE old[b] BY <1>18
  <2> HIDE DEF new, old
  <2>3. new = [old EXCEPT ![a] = v] BY <2>1, <2>2
  <2> QED BY <2>3 DEF new, old
<1>20. ASSUME NEW t \in Frames, t # rt PROVE View(r, o, t) = View(m, o, t)
  <2>1. ASSUME NEW d \in Pool, NEW q \in UserPages, At(o, d, t, q) PROVE r.mem[d].data = m.mem[d].data
    <3>1. d \in Frames BY FrameKinds
    <3>2. o[d].root = t BY <1>20, <2>1, <3>1, AtRoot
    <3>3. o[c].root = rt BY <1>1, <1>2, <1>3, AtRoot
    <3> QED BY <1>11, <1>20, <3>1, <3>2, <3>3
  <2> QED BY <1>9, <1>14, <2>1, ViewSame
<1> QED BY <1>16, <1>17, <1>19, <1>20 DEF Stores

------------------------------------------------------------------------------
(* The inductive invariant *)

\* What is committed.
Committed(r) == [mem |-> r.mem, free |-> r.free, page |-> NoFrame, ok |-> TRUE]

LEMMA CommittedKeeps ==
    ASSUME NEW m, NEW o, NEW roots, NEW gone, NEW stk, Spaced(m, o, roots, gone, stk)
    PROVE  /\ Spaced(Committed(m), o, roots, gone, stk)
           /\ \A t \in Frames : View(Committed(m), o, t) = View(m, o, t)
<1> USE DEF Spaced
<1> DEFINE r == Committed(m)
<1>1. r \in M /\ r.mem = m.mem /\ r.free = m.free /\ r.ok
  BY FrameKinds DEF Committed, M
<1> HIDE DEF r
<1>2. Owned(r, o)
  <2>1. FreeList(r, o) BY <1>1 DEF Owned, FreeList
  <2>2. \A f \in Frames, j \in 0 .. 1 : EntryOK(m, o, f, j) => EntryOK(r, o, f, j)
    BY SMTT(30), <1>1 DEF EntryOK
  <2>3. \A f \in Frames : UpOK(m, o, f) => UpOK(r, o, f) BY <1>1 DEF UpOK
  <2>4. Tree(r, o) BY <2>2, <2>3 DEF Owned, Tree
  <2> QED BY <2>1, <2>4 DEF Owned
<1>3. Spaced(r, o, roots, gone, stk)
  BY <1>1, <1>2 DEF AllUser, NoNulls, RootsAre, GoneMapNothing
<1>4. \A t \in Frames : View(r, o, t) = View(m, o, t) BY <1>1 DEF View
<1> QED BY <1>3, <1>4 DEF r

\* The control of a process, and the owners of the frames.
Control ==
    /\ status \in {"running", "halted", "out of memory", "fault", "elf_load", "fault in elf_load"}
    /\ pc \in [Procs -> {"none", "user", "loading"}]
    /\ mtag \in [Procs -> Frames] /\ mtag[Main] = main_pt2
    /\ \A p, q \in Procs : mtag[p] = mtag[q] /\ mtag[p] # NoFrame => p = q
    /\ status = "running" => \A p \in Procs : pc[p] = "none" <=> mtag[p] = NoFrame
    /\ image \in [Procs -> Images \cup {Null}] /\ idx \in [Procs -> Nat \ {0}]
    /\ \A p \in Procs : pc[p] = "loading" => image[p] \in Images
    /\ stacks \subseteq Pool /\ dead \subseteq Pool /\ dead \cap Spaces = {}

\* The frames are owned: where there is no panic any more to come.
Mems(o) == Spaced(Now, o, Spaces, dead, stacks)
IInv == Control /\ \E o : Mems(o)

\* What the processes hold, by their page tables.
FramesAt(m, rt, a) ==
    {e.ppn : e \in {m.mem[x[1]].pte[x[2]] : x \in walk_pt(m, rt, a \div PAGE_SIZE)}}
Held(m, rt) ==
    [a \in Addrs |->
        IF rt = NoFrame \/ FramesAt(m, rt, a) = {} THEN Null
        ELSE m.mem[CHOOSE f \in FramesAt(m, rt, a) : TRUE].data[a % PAGE_SIZE]]
HeldBy == [p \in Procs |-> Held(Now, mtag[p])]

LEMMA FramesAre ==
    ASSUME NEW m \in M, NEW o, Owned(m, o), NEW rt \in Frames, o[rt].kind = "root", NEW a \in Addrs
    PROVE  /\ FramesAt(m, rt, a) # {} => \E c \in Pool : At(o, c, rt, a \div PAGE_SIZE)
           /\ \A c \in Pool : At(o, c, rt, a \div PAGE_SIZE) => FramesAt(m, rt, a) = {c}
<1> DEFINE page == a \div PAGE_SIZE
<1>1. page \in UserPages BY AddrSplit
<1> HIDE DEF page
<1>2. FramesAt(m, rt, a) = {m.mem[x[1]].pte[x[2]].ppn : x \in walk_pt(m, rt, page)}
  BY DEF FramesAt, page
<1>3. ASSUME FramesAt(m, rt, a) # {} PROVE \E c \in Pool : At(o, c, rt, page)
  <2>1. walk_pt(m, rt, page) # {} BY <1>2, <1>3
  <2> QED BY <1>1, <2>1, WalkIsAt
<1>4. ASSUME NEW c \in Pool, At(o, c, rt, page) PROVE FramesAt(m, rt, a) = {c}
  <2> DEFINE g == o[c].up[1]
  <2>1. c \in Frames BY FrameKinds
  <2>2. walk_pt(m, rt, page) = {<<g, VPN0(page)>>} /\ m.mem[g].pte[VPN0(page)].ppn = c
    BY <1>1, <1>4, <2>1, WalkFinds
  <2> HIDE DEF g
  <2> QED BY <1>2, <2>2
<1> QED BY <1>3, <1>4 DEF page

LEMMA HeldIs ==
    ASSUME NEW m \in M, NEW o, Owned(m, o), NEW rt \in Frames, o[rt].kind = "root"
    PROVE  Held(m, rt) = View(m, o, rt)
<1>1. rt # NoFrame BY FrameKinds DEF Owned
<1>2. ASSUME NEW a \in Addrs PROVE Held(m, rt)[a] = View(m, o, rt)[a]
  <2>1. Held(m, rt)[a] = IF FramesAt(m, rt, a) = {} THEN Null
                         ELSE m.mem[CHOOSE f \in FramesAt(m, rt, a) : TRUE].data[a % PAGE_SIZE]
    BY <1>1 DEF Held
  <2>2. CASE \E c \in Pool : At(o, c, rt, a \div PAGE_SIZE)
    <3>1. PICK c \in Pool : At(o, c, rt, a \div PAGE_SIZE) BY <2>2
    <3>2. FramesAt(m, rt, a) = {c} BY <3>1, FramesAre
    <3>3. (CHOOSE f \in {c} : TRUE) = c OBVIOUS
    <3>4. Held(m, rt)[a] = m.mem[c].data[a % PAGE_SIZE] BY <2>1, <3>2, <3>3
    <3> QED BY <3>1, <3>4, ViewAt
  <2>3. CASE \A c \in Pool : ~At(o, c, rt, a \div PAGE_SIZE)
    <3>1. FramesAt(m, rt, a) = {} BY <2>3, FramesAre
    <3> QED BY <2>1, <2>3, <3>1, ViewNull
  <2> QED BY <2>2, <2>3
<1> QED BY <1>2 DEF Held, View

LEMMA HeldNone == Held(Now, NoFrame) = A!Empty /\ Held(Now', NoFrame) = A!Empty
BY DEF Held, A!Empty, A!Addrs, Addrs

\* A step that commits r.
LEMMA Commits ==
    ASSUME NEW o, Mems(o), NEW r, NEW o2, Spaced(r, o2, Spaces', dead', stacks'),
           mem' = r.mem, free_list' = r.free,
           NEW rt \in Frames, \A t \in Frames : t # rt => View(r, o2, t) = View(Now, o, t)
    PROVE  /\ Mems(o2)'
           /\ rt \in Spaces' => Held(Now', rt) = View(r, o2, rt)
           /\ \A t \in (Spaces \cap Spaces') \cap Frames : t # rt => Held(Now', t) = Held(Now, t)
           /\ \A t \in Spaces \cap Frames : Held(Now, t) = View(Now, o, t)
<1>1. Now' = Committed(r) BY DEF Now, Committed
<1>2. Spaced(Now', o2, Spaces', dead', stacks') /\ \A t \in Frames : View(Now', o2, t) = View(r, o2, t)
  BY <1>1, CommittedKeeps
<1>3. Mems(o2)' BY <1>2 DEF Mems
<1>4. \A t \in Spaces' \cap Frames : Held(Now', t) = View(Now', o2, t)
  <2> SUFFICES ASSUME NEW t \in Spaces' \cap Frames PROVE Held(Now', t) = View(Now', o2, t) OBVIOUS
  <2>1. o2[t].kind = "root" BY <1>2 DEF Spaced, RootsAre
  <2>2. Now' \in M /\ Owned(Now', o2) BY <1>2 DEF Spaced
  <2> QED BY <2>1, <2>2, HeldIs
<1>5. \A t \in Spaces \cap Frames : Held(Now, t) = View(Now, o, t)
  <2> SUFFICES ASSUME NEW t \in Spaces \cap Frames PROVE Held(Now, t) = View(Now, o, t) OBVIOUS
  <2>1. o[t].kind = "root" BY DEF Mems, Spaced, RootsAre
  <2>2. Now \in M /\ Owned(Now, o) BY DEF Mems, Spaced
  <2> QED BY <2>1, <2>2, HeldIs
<1> QED BY <1>2, <1>3, <1>4, <1>5

\* One that leaves memory alone.
LEMMA LeavesMemory ==
    ASSUME IInv, Control', UNCHANGED <<mem, free_list, mtag, stacks, dead>>
    PROVE  IInv' /\ HeldBy' = HeldBy
<1>1. Now' = Now BY DEF Now
<1>2. Spaces' = Spaces BY DEF Spaces
<1>3. PICK o : Mems(o) BY DEF IInv
<1>4. Mems(o)' BY <1>1, <1>2, <1>3 DEF Mems
<1>5. HeldBy' = HeldBy BY <1>1 DEF HeldBy
<1> QED BY <1>4, <1>5 DEF IInv

\* What a step does to the memory of p: it becomes new, and the others stay.
Becomes(p, new) == HeldBy'[p] = new /\ \A q \in Procs \ {p} : HeldBy'[q] = HeldBy[q]

LEMMA BecomesIs ==
    ASSUME Control, NEW o, Mems(o), NEW r, NEW o2, Spaced(r, o2, Spaces', dead', stacks'),
           mem' = r.mem, free_list' = r.free,
           NEW p \in Procs, mtag' = mtag, mtag[p] # NoFrame,
           \A t \in Frames : t # mtag[p] => View(r, o2, t) = View(Now, o, t)
    PROVE  /\ Mems(o2)' /\ Becomes(p, View(r, o2, mtag[p]))
           /\ HeldBy[p] = View(Now, o, mtag[p])
<1>1. mtag[p] \in Frames /\ mtag[p] \in Spaces /\ Spaces' = Spaces BY DEF Control, Spaces
<1>2. /\ Mems(o2)' /\ Held(Now', mtag[p]) = View(r, o2, mtag[p])
      /\ \A t \in (Spaces \cap Spaces') \cap Frames : t # mtag[p] => Held(Now', t) = Held(Now, t)
      /\ \A t \in Spaces \cap Frames : Held(Now, t) = View(Now, o, t)
  BY <1>1, Commits
<1>3. \A q \in Procs : HeldBy'[q] = Held(Now', mtag[q]) /\ HeldBy[q] = Held(Now, mtag[q])
  BY DEF HeldBy
<1>4. ASSUME NEW q \in Procs \ {p} PROVE HeldBy'[q] = HeldBy[q]
  <2>1. CASE mtag[q] = NoFrame BY <1>3, <2>1, HeldNone
  <2>2. CASE mtag[q] # NoFrame
    <3>1. mtag[q] # mtag[p] /\ mtag[q] \in Frames BY <2>2 DEF Control
    <3>2. mtag[q] \in Spaces BY <2>2 DEF Spaces
    <3> QED BY <1>1, <1>2, <1>3, <3>1, <3>2
  <2> QED BY <2>1, <2>2
<1> QED BY <1>1, <1>2, <1>3, <1>4 DEF Becomes

\* A root in use is one, and no process that has exited had it.
LEMMA RootInUse ==
    ASSUME Control, NEW o, Mems(o), NEW p \in Procs, mtag[p] # NoFrame
    PROVE  mtag[p] \in Frames /\ mtag[p] \in Spaces /\ o[mtag[p]].kind = "root" /\ mtag[p] \notin dead
<1>1. mtag[p] \in Frames /\ mtag[p] \in Spaces /\ mtag[p] \notin dead BY DEF Control, Spaces
<1> QED BY <1>1 DEF Mems, Spaced, RootsAre

LEMMA StartControl == Init => Control
<1> SUFFICES ASSUME Init PROVE Control OBVIOUS
<1>1. main_pt2 \in Frames /\ NoFrame \in Frames /\ main_pt2 # NoFrame BY FrameKinds
<1>2. PICK im \in Images : image = [p \in Procs |-> IF p = Main THEN im ELSE Null] BY DEF Init
<1>3. mtag \in [Procs -> Frames] /\ mtag[Main] = main_pt2
      /\ \A p \in Procs : mtag[p] = IF p = Main THEN main_pt2 ELSE NoFrame
  BY <1>1, MemoryAssumption DEF Init
<1>4. pc \in [Procs -> {"none", "user", "loading"}]
      /\ \A p \in Procs : pc[p] = IF p = Main THEN "loading" ELSE "none"
  BY DEF Init
<1>5. image \in [Procs -> Images \cup {Null}] /\ \A p \in Procs : pc[p] = "loading" => image[p] \in Images
  BY <1>2, <1>4
<1> QED BY <1>1, <1>3, <1>4, <1>5 DEF Init, Control

\* The owners at the start.
Owners0 ==
    [f \in Frames |->
        [kind |-> IF f \in Pool THEN "free" ELSE IF f = main_pt2 THEN "root" ELSE "kernel",
         root |-> IF f = main_pt2 THEN main_pt2 ELSE NoFrame, up |-> Detached]]

LEMMA StartMems == Init => Mems(Owners0)
<1> SUFFICES ASSUME Init PROVE Mems(Owners0) OBVIOUS
<1> DEFINE m == Now
           o == Owners0
           rootmem == [Zeroed EXCEPT !.pte[0] = kernel_pte]
           kernmem == [Zeroed EXCEPT !.pte = [i \in DOMAIN @ |-> leaf_pte(main_pt1, {"R", "W", "G"})]]
<1>1. m.mem = [f \in Frames |-> IF f = main_pt2 THEN rootmem
                                ELSE IF f = main_pt1 THEN kernmem ELSE Junk]
  BY FrameKinds DEF Init, Now, kernel_pte
<1>2. m.free = [i \in 1 .. PoolSize |-> PoolSize + 1 - i] /\ m.page = NoFrame /\ m.ok = TRUE
      /\ m = [mem |-> m.mem, free |-> m.free, page |-> NoFrame, ok |-> TRUE]
  BY DEF Init, Now
<1>3. kernel_pte \in Ptes /\ leaf_pte(main_pt1, {"R", "W", "G"}) \in Ptes
  BY FrameKinds DEF kernel_pte, ptab_pte, leaf_pte, Ptes, Flags
<1>4. rootmem \in Contents /\ rootmem.pte[0] = kernel_pte /\ rootmem.pte[1] = null_pte
  BY <1>3, NullTyped DEF Contents
<1>5. kernmem \in Contents BY <1>3, NullTyped DEF Contents, Zeroed, PTE_CNT
<1> HIDE DEF rootmem, kernmem
<1>6. m.mem \in [Frames -> Contents] BY <1>1, <1>4, <1>5, NullTyped
<1>7. m.free \in Seq(Pool) /\ DOMAIN m.free = Pool
  <2>1. m.free \in [1 .. PoolSize -> Pool] BY <1>2, MemoryAssumption DEF Pool
  <2>2. PoolSize \in Nat BY MemoryAssumption
  <2> HIDE DEF m
  <2>3. m.free \in Seq(Pool) BY <2>1, <2>2
  <2> QED BY <2>1, <2>3 DEF Pool
<1>8. \A i \in Pool : m.free[i] \in Pool /\ m.free[i] = PoolSize + 1 - i BY <1>2, MemoryAssumption DEF Pool
<1> HIDE DEF m
<1>9. m \in M BY <1>2, <1>6, <1>7, FrameKinds DEF M
<1>10. \A f \in Frames :
          /\ o[f].kind = IF f \in Pool THEN "free" ELSE IF f = main_pt2 THEN "root" ELSE "kernel"
          /\ o[f].root = IF f = main_pt2 THEN main_pt2 ELSE NoFrame
          /\ o[f].up = Detached
  BY DEF Owners0
<1>11. o \in Owners BY FrameKinds DEF Owners0, Owners, Kinds, Tabs, Kids, Detached
<1> HIDE DEF o
<1>12. FreeList(m, o)
  <2>1. \A i \in DOMAIN m.free : o[m.free[i]].kind = "free" BY <1>7, <1>8, <1>10, FrameKinds
  <2>2. \A f \in Pool : PoolSize + 1 - f \in Pool /\ m.free[PoolSize + 1 - f] = f
    BY <1>8, MemoryAssumption DEF Pool
  <2>3. \A f \in Frames : o[f].kind = "free" => \E i \in DOMAIN m.free : m.free[i] = f
    BY <1>7, <1>10, <2>2
  <2>4. \A i, j \in DOMAIN m.free : m.free[i] = m.free[j] => i = j
    <3>1. PoolSize \in Nat /\ \A i \in Pool : i \in Int BY MemoryAssumption DEF Pool
    <3>2. \A i, j \in Pool : m.free[i] = m.free[j] => PoolSize + 1 - i = PoolSize + 1 - j BY <1>8
    <3>3. \A i, j \in Int : PoolSize + 1 - i = PoolSize + 1 - j => i = j BY <3>1
    <3> QED BY <1>7, <3>1, <3>2, <3>3
  <2> QED BY <2>1, <2>3, <2>4 DEF FreeList
<1>13. Tree(m, o)
  <2>1. \A f \in Frames : o[f].kind \in Tabs <=> f = main_pt2 BY <1>10, FrameKinds DEF Tabs
  <2>2. m.mem[main_pt2].pte[0] = kernel_pte /\ m.mem[main_pt2].pte[1] = null_pte
        /\ o[main_pt2].kind = "root"
    BY <1>1, <1>4, <1>10, FrameKinds
  <2>3. \A i \in 0 .. 1 : EntryOK(m, o, main_pt2, i)
    <3>1. \A i \in 0 .. 1 : i = 0 \/ i = 1 OBVIOUS
    <3> QED BY <2>2, <3>1 DEF EntryOK
  <2>4. \A c \in Frames : o[c].up = Detached BY <1>10
  <2>5. \A f \in Frames : o[f].kind = "root" => o[f].root = f BY <1>10, FrameKinds
  <2> QED BY <2>1, <2>3, <2>4, <2>5 DEF Tree
<1>14. Owned(m, o) BY <1>10, <1>11, <1>12, <1>13, FrameKinds DEF Owned
<1>15. Spaces = {main_pt2} /\ dead = {} /\ stacks = {}
  BY FrameKinds, MemoryAssumption DEF Init, Spaces
<1>16. \A f \in Frames : o[f].kind \notin {"page", "pt0", "stack"} \cup Kids BY <1>10 DEF Kids
<1>17. RootsAre(m, o, (Spaces \cup dead) \cup {main_pt2})
  BY <1>1, <1>4, <1>10, <1>15, FrameKinds DEF RootsAre
<1>18. AllUser(m, o) /\ NoneDetached(o) /\ GoneMapNothing(m, o, dead) /\ NoNulls(m, o)
  BY <1>16 DEF AllUser, NoneDetached, GoneMapNothing, NoNulls
<1>19. Spaced(m, o, Spaces, dead, stacks) BY <1>9, <1>14, <1>15, <1>16, <1>17, <1>18 DEF Spaced
<1> QED BY <1>19 DEF Mems, m, o

LEMMA PanicKeeps ==
    ASSUME IInv, NEW reason \in {"halted", "fault", "elf_load", "fault in elf_load"}, Panic(reason)
    PROVE  IInv' /\ HeldBy' = HeldBy
<1>1. Control' BY DEF IInv, Control, Panic, Spaces
<1> QED BY <1>1, LeavesMemory DEF Panic

LEMMA StoreStep ==
    ASSUME IInv, NEW p \in Procs, NEW a \in StoreAt, NEW v \in {p}, Store(p, a, v)
    PROVE  /\ IInv'
           /\ HeldBy[p][a] # Null /\ Becomes(p, [HeldBy[p] EXCEPT ![a] = v])
<1>1. PICK o : Mems(o) BY DEF IInv
<1>2. Control /\ status = "running" /\ pc[p] = "user" BY DEF IInv, Store, Running
<1>3. mtag[p] # NoFrame BY <1>2 DEF Control
<1>4. mtag[p] \in Frames /\ o[mtag[p]].kind = "root" BY <1>1, <1>2, <1>3, RootInUse
<1>5. Spaced(Now, o, Spaces, dead, stacks) BY <1>1 DEF Mems
<1>6. Now \in M /\ Owned(Now, o) BY <1>5 DEF Spaced
<1>7. a \in Addrs /\ v \in Words /\ v # Null BY ImagesAssumption DEF Words
<1>8. PICK e \in Entry(p, a) : mem' = [mem EXCEPT ![e.ppn].data[a % PAGE_SIZE] = v] BY DEF Store
<1>9. e.ppn \in FramesAt(Now, mtag[p], a) BY <1>8 DEF Entry, FramesAt, Now
<1>10. PICK c \in Pool : At(o, c, mtag[p], a \div PAGE_SIZE) BY <1>4, <1>6, <1>7, <1>9, FramesAre
<1>11. e.ppn = c BY <1>4, <1>6, <1>7, <1>9, <1>10, FramesAre
<1> DEFINE r == StoreWord(Now, c, a % PAGE_SIZE, v)
<1>12. mem' = r.mem /\ free_list' = r.free BY <1>8, <1>11 DEF StoreWord, Now, Store
<1>13. Stores(Now, o, r, mtag[p], a, v, Spaces, dead, stacks)
  BY <1>4, <1>5, <1>7, <1>10, StoreKeeps
<1> HIDE DEF r
<1>14. UNCHANGED <<status, pc, mtag, image, idx, stacks, dead>> /\ Spaces' = Spaces BY DEF Store, Spaces
<1>15. Control' BY <1>2, <1>14 DEF Control
<1>16. /\ Mems(o)' /\ Becomes(p, View(r, o, mtag[p]))
       /\ HeldBy[p] = View(Now, o, mtag[p])
  BY <1>1, <1>2, <1>3, <1>12, <1>13, <1>14, BecomesIs DEF Stores
<1> QED BY <1>13, <1>15, <1>16 DEF IInv, Stores

LEMMA PageFaultStep ==
    ASSUME IInv, NEW p \in Procs, NEW a \in StoreAt, PageFault(p, a)
    PROVE  /\ IInv'
           /\ HeldBy' = HeldBy \/ Becomes(p, A!Extended(HeldBy[p], {a \div PAGE_SIZE}))
<1> DEFINE page == a \div PAGE_SIZE
           r == memory_alloc_and_map_page(Now, mtag[p], page, {"U", "R", "W"})
<1>1. PICK o : Mems(o) BY DEF IInv
<1>2. Control /\ status = "running" /\ pc[p] = "user" BY DEF IInv, PageFault, Running
<1>3. mtag[p] # NoFrame BY <1>2 DEF Control
<1>4. mtag[p] \in Frames /\ o[mtag[p]].kind = "root" /\ mtag[p] \notin dead
  BY <1>1, <1>2, <1>3, RootInUse
<1>5. Spaced(Now, o, Spaces, dead, stacks) BY <1>1 DEF Mems
<1>6. Now \in M /\ Owned(Now, o) BY <1>5 DEF Spaced
<1>7. page \in UserPages BY ImagesAssumption, AddrSplit
<1>8. UNCHANGED <<pc, mtag, image, idx, stacks, dead>> /\ Spaces' = Spaces BY DEF PageFault, Spaces
<1>9. Commit(r) BY DEF PageFault
<1>10. CASE ~r.ok
  <2>1. status' = "out of memory" /\ UNCHANGED <<mem, free_list>> BY <1>9, <1>10 DEF Commit
  <2>2. Control' BY <1>2, <1>8, <2>1 DEF Control
  <2> QED BY <1>8, <2>1, <2>2, LeavesMemory
<1>11. CASE r.ok
  <2>1. {"U", "R", "W"} \in MapFlags BY DEF MapFlags
  <2>2. PICK o2 : Maps(Now, o, r, o2, mtag[p], {page})
    <3> HIDE DEF page
    <3> QED BY <1>4, <1>6, <1>7, <1>11, <2>1, MapKeeps
  <2> HIDE DEF r, page
  <2>3. {page} \in SUBSET UserPages BY <1>7
  <2>4. Spaced(r, o2, Spaces, dead, stacks) BY <1>4, <1>5, <2>2, <2>3, MapsSpaced
  <2>5. View(r, o2, mtag[p]) = A!Extended(View(Now, o, mtag[p]), {page})
    BY <1>4, <1>5, <2>2, <2>3, MapsView
  <2>6. \A t \in Frames : t # mtag[p] => View(r, o2, t) = View(Now, o, t)
    <3>1. r \in M /\ Grown(Now, o, r, o2, mtag[p], {}) BY <2>2 DEF Maps, Grown
    <3> QED BY <1>6, <3>1, GrownView
  <2>7. mem' = r.mem /\ free_list' = r.free /\ status' = status BY <1>9, <1>11 DEF Commit
  <2>8. Control' BY <1>2, <1>8, <2>7 DEF Control
  <2>9. /\ Mems(o2)' /\ Becomes(p, View(r, o2, mtag[p]))
        /\ HeldBy[p] = View(Now, o, mtag[p])
    BY <1>1, <1>2, <1>3, <1>8, <2>4, <2>6, <2>7, BecomesIs
  <2> QED BY <2>5, <2>8, <2>9 DEF IInv, page
<1> QED BY <1>10, <1>11

\* What a program asks for is written to what is mapped.
Written(p, seg) ==
    /\ A!Writes(A!Extended(HeldBy[p], Loading(seg).pages), Loading(seg))
    /\ Becomes(p, A!WithSegment(HeldBy[p], Loading(seg)))

LEMMA LoadStep ==
    ASSUME IInv, NEW p \in Procs, LoadSegment(p)
    PROVE  LET seg == image[p].segs[idx[p]]
           IN /\ IInv'
              /\ seg \in Segments /\ IsHeader(seg)
              /\ HeldBy' = HeldBy \/ Written(p, seg)
              /\ status' = "running" => InUserRange(seg) /\ Written(p, seg)
              /\ Fits(seg) => status' # "fault in elf_load"
<1> DEFINE seg == image[p].segs[idx[p]]
           rt == mtag[p]
           mapped == memory_alloc_and_map_range(Now, rt, seg.vaddr, seg.memsz, LoadFlags)
           read == Filled(mapped, rt, ReadRun(seg))
           r == Filled(read, rt, ClearRun(seg))
           faults == NoFrame \in {read.page, r.page}
<1>1. PICK o : Mems(o) BY DEF IInv
<1>2. Control /\ status = "running" /\ pc[p] = "loading" /\ idx[p] <= Len(image[p].segs)
  BY DEF IInv, LoadSegment, Running
<1>3. rt # NoFrame BY <1>2 DEF Control
<1>4. rt \in Frames /\ o[rt].kind = "root" /\ rt \notin dead BY <1>1, <1>2, <1>3, RootInUse
<1>5. Spaced(Now, o, Spaces, dead, stacks) BY <1>1 DEF Mems
<1>6. image[p] \in Images /\ idx[p] \in Nat \ {0} BY <1>2 DEF Control
<1>7. image[p].segs \in Seq(Headers) BY <1>6, ImagesAssumption
<1>8. idx[p] \in DOMAIN image[p].segs /\ seg \in Headers
  <2> DEFINE segs == image[p].segs
  <2>1. segs \in Seq(Headers) /\ idx[p] \in Nat \ {0} /\ idx[p] <= Len(segs)
    BY <1>2, <1>6, <1>7
  <2>2. seg = segs[idx[p]] BY DEF seg
  <2> HIDE DEF segs, seg
  <2>3. idx[p] \in 1 .. Len(segs) BY <2>1
  <2>4. DOMAIN segs = 1 .. Len(segs) BY <2>1
  <2>5. segs[idx[p]] \in Headers BY <2>1, <2>3
  <2> QED BY <2>2, <2>3, <2>4, <2>5 DEF segs
<1>9. seg \in Segments BY <1>6, <1>8 DEF Segments
<1>10. IsHeader(seg)
  <2>1. seg.data \in Words BY <1>6, <1>8 DEF Words
  <2>2. USER_START \in Nat /\ ADDR_MOD \in Nat /\ Null \notin Int
    BY MemoryAssumption, ImagesAssumption
  <2> HIDE DEF seg
  <2> QED BY <1>8, <2>1, <2>2 DEF IsHeader, Headers
<1>11. IF ~InUserRange(seg) THEN Panic("elf_load")
       ELSE IF mapped.ok /\ faults THEN Panic("fault in elf_load")
       ELSE Commit(r) /\ idx' = [idx EXCEPT ![p] = @ + 1]
            /\ UNCHANGED <<pc, mtag, image, stacks, dead, calls>>
  BY DEF LoadSegment, LoadFlags
<1> HIDE DEF seg
<1>12. InUserRange(seg) =>
          /\ r.ok = mapped.ok
          /\ Fits(seg) /\ mapped.ok => ~faults
          /\ mapped.ok /\ ~faults => \E o2 : SegmentIn(Now, o, r, o2, rt, seg, Spaces, dead, stacks)
  <2> HIDE DEF rt
  <2> QED BY <1>4, <1>5, <1>10, SegmentLoads
<1> HIDE DEF r, mapped, read, faults
<1>13. CASE ~InUserRange(seg)
  <2>1. Panic("elf_load") BY <1>11, <1>13
  <2>2. IInv' /\ HeldBy' = HeldBy BY <2>1, PanicKeeps
  <2> QED BY <1>9, <1>10, <2>1, <2>2 DEF Panic, seg
<1>14. CASE InUserRange(seg) /\ mapped.ok /\ faults
  <2>1. Panic("fault in elf_load") /\ ~Fits(seg) BY <1>11, <1>12, <1>14
  <2>2. IInv' /\ HeldBy' = HeldBy BY <2>1, PanicKeeps
  <2> QED BY <1>9, <1>10, <2>1, <2>2 DEF Panic, seg
<1>15. CASE InUserRange(seg) /\ ~(mapped.ok /\ faults)
  <2>1. /\ Commit(r) /\ idx' = [idx EXCEPT ![p] = @ + 1]
        /\ UNCHANGED <<pc, mtag, image, stacks, dead>>
    BY <1>11, <1>15
  <2>2. idx' \in [Procs -> Nat \ {0}] BY <1>2, <1>6, <2>1 DEF Control
  <2>3. Spaces' = Spaces BY <2>1 DEF Spaces
  <2>4. status' \in {"running", "out of memory"} /\ (status' = "running" => r.ok)
    BY <1>2, <2>1 DEF Commit
  <2>5. Control' BY <1>2, <2>1, <2>2, <2>3, <2>4 DEF Control
  <2>6. CASE ~r.ok
    <3>1. UNCHANGED <<mem, free_list>> BY <2>1, <2>6 DEF Commit
    <3>2. IInv' /\ HeldBy' = HeldBy BY <2>1, <2>5, <3>1, LeavesMemory
    <3> QED BY <1>9, <1>10, <2>4, <2>6, <3>2 DEF seg
  <2>7. CASE r.ok
    <3>1. PICK o2 : SegmentIn(Now, o, r, o2, rt, seg, Spaces, dead, stacks)
      BY <1>12, <1>15, <2>7
    <3>2. mem' = r.mem /\ free_list' = r.free BY <2>1, <2>7 DEF Commit
    <3>3. /\ Mems(o2)' /\ Becomes(p, View(r, o2, mtag[p]))
          /\ HeldBy[p] = View(Now, o, mtag[p])
      BY <1>1, <1>2, <1>3, <2>1, <2>3, <3>1, <3>2, BecomesIs DEF SegmentIn
    <3>4. Written(p, seg) BY <3>1, <3>3 DEF SegmentIn, Written
    <3>5. IInv' BY <2>5, <3>3 DEF IInv
    <3> QED BY <1>9, <1>10, <1>15, <2>4, <3>4, <3>5 DEF seg
  <2> QED BY <2>6, <2>7
<1> QED BY <1>13, <1>14, <1>15

LEMMA LoadedStep ==
    ASSUME IInv, NEW p \in Procs, Loaded(p)
    PROVE  IInv' /\ HeldBy' = HeldBy
<1>1. Spaces' = Spaces BY DEF Loaded, Spaces
<1>2. Control /\ status = "running" /\ pc[p] = "loading" BY DEF IInv, Loaded, Running
<1>3. /\ pc' \in [Procs -> {"none", "user", "loading"}]
      /\ \A q \in Procs : pc'[q] = IF q = p THEN "user" ELSE pc[q]
  BY <1>2 DEF Loaded, Control
<1>4. /\ image' \in [Procs -> Images \cup {Null}] /\ idx' \in [Procs -> Nat \ {0}]
      /\ \A q \in Procs : pc'[q] = "loading" => image'[q] \in Images
  BY <1>2, <1>3 DEF Loaded, Control
<1>5. Control' BY <1>1, <1>2, <1>3, <1>4 DEF Control, Loaded
<1> QED BY <1>5, LeavesMemory DEF Loaded

LEMMA ExecStep ==
    ASSUME IInv, NEW p \in Procs, NEW im \in Images, Exec(p, im)
    PROVE  /\ IInv'
           /\ HeldBy' = HeldBy \/ Becomes(p, A!Empty)
<1> DEFINE r == memory_unmap_and_free_user(Now, mtag[p])
<1>1. PICK o : Mems(o) BY DEF IInv
<1>2. Control /\ status = "running" /\ pc[p] = "user" BY DEF IInv, Exec, Running
<1>3. mtag[p] # NoFrame BY <1>2 DEF Control
<1>4. mtag[p] \in Frames /\ o[mtag[p]].kind = "root" BY <1>1, <1>2, <1>3, RootInUse
<1>5. Spaced(Now, o, Spaces, dead, stacks) BY <1>1 DEF Mems
<1>6. CASE ~im.header
  <2>1. Panic("elf_load") BY <1>6 DEF Exec
  <2> QED BY <2>1, PanicKeeps
<1>7. CASE im.header
  <2>1. /\ Commit(r) /\ pc' = [pc EXCEPT ![p] = "loading"]
        /\ image' = [image EXCEPT ![p] = im] /\ idx' = [idx EXCEPT ![p] = 1]
        /\ UNCHANGED <<mtag, stacks, dead>>
    BY <1>7 DEF Exec
  <2>2. PICK o2 : Cleared(Now, o, r, o2, mtag[p], Spaces, dead, stacks) BY <1>4, <1>5, UnmapClears
  <2>3. Spaces' = Spaces BY <2>1 DEF Spaces
  <2>4. r.ok BY <2>2 DEF Cleared, Now
  <2> HIDE DEF r
  <2>5. mem' = r.mem /\ free_list' = r.free /\ status' = status BY <2>1, <2>4 DEF Commit
  <2>6. /\ pc' \in [Procs -> {"none", "user", "loading"}]
        /\ \A q \in Procs : pc'[q] = IF q = p THEN "loading" ELSE pc[q]
    BY <1>2, <2>1 DEF Control
  <2>7. /\ image' \in [Procs -> Images \cup {Null}] /\ idx' \in [Procs -> Nat \ {0}]
        /\ \A q \in Procs : pc'[q] = "loading" => image'[q] \in Images
    BY <1>2, <2>1, <2>6 DEF Control
  <2>8. Control' BY <1>2, <2>1, <2>3, <2>5, <2>6, <2>7 DEF Control
  <2>9. Mems(o2)' /\ Becomes(p, View(r, o2, mtag[p]))
    BY <1>1, <1>2, <1>3, <2>1, <2>2, <2>3, <2>5, BecomesIs DEF Cleared
  <2> QED BY <2>2, <2>8, <2>9 DEF IInv, Cleared
<1> QED BY <1>6, <1>7

LEMMA ExitStep ==
    ASSUME IInv, NEW p \in Procs, Exit(p)
    PROVE  /\ IInv'
           /\ HeldBy' = HeldBy \/ Becomes(p, A!Empty)
<1> DEFINE rt == mtag[p]
           r == memory_unmap_and_free_user(Now, rt)
<1>1. PICK o : Mems(o) BY DEF IInv
<1>2. Control /\ status = "running" /\ pc[p] = "user" BY DEF IInv, Exit, Running
<1>3. rt # NoFrame BY <1>2 DEF Control
<1>4. rt \in Frames /\ rt \in Spaces /\ o[rt].kind = "root" /\ rt \notin dead
  BY <1>1, <1>2, <1>3, RootInUse
<1>5. Spaced(Now, o, Spaces, dead, stacks) BY <1>1 DEF Mems
<1>6. CASE p = Main
  <2>1. Panic("halted") BY <1>6 DEF Exit
  <2> QED BY <2>1, PanicKeeps
<1>7. CASE p # Main
  <2>1. /\ Commit(r) /\ dead' = dead \cup {rt} /\ mtag' = [mtag EXCEPT ![p] = NoFrame]
        /\ pc' = [pc EXCEPT ![p] = "none"] /\ UNCHANGED <<image, idx, stacks>>
    BY <1>7 DEF Exit
  <2>2. PICK o2 : Cleared(Now, o, r, o2, rt, Spaces, dead, stacks) BY <1>4, <1>5, UnmapClears
  <2>3. r.ok BY <2>2 DEF Cleared, Now
  <2> HIDE DEF r, rt
  <2>4. mem' = r.mem /\ free_list' = r.free /\ status' = status BY <2>1, <2>3 DEF Commit
  <2>5. mtag' \in [Procs -> Frames] /\ \A q \in Procs : mtag'[q] = IF q = p THEN NoFrame ELSE mtag[q]
    BY <1>2, <2>1, FrameKinds DEF Control
  <2>6. Spaces' = Spaces \ {rt}
    <3>1. \A q \in Procs : mtag[q] = rt <=> q = p BY <1>2, <1>3 DEF Control, rt
    <3> QED BY <1>3, <2>5, <3>1 DEF Spaces
  <2>7. rt \in Pool
    <3>1. rt # main_pt2 BY <1>2, <1>3, <1>7, MemoryAssumption DEF Control, rt
    <3>2. rt \notin {main_pt1, NoFrame} BY <1>4, <1>5 DEF Spaced, Owned
    <3> QED BY <1>4, <3>1, <3>2, FrameKinds
  <2>8. /\ pc' \in [Procs -> {"none", "user", "loading"}]
        /\ \A q \in Procs : pc'[q] = IF q = p THEN "none" ELSE pc[q]
    BY <1>2, <2>1 DEF Control
  <2>9. Control'
    <3>1. dead' \subseteq Pool /\ dead' \cap Spaces' = {} BY <1>2, <2>1, <2>6, <2>7 DEF Control
    <3>2. mtag'[Main] = main_pt2 BY <1>2, <1>7, <2>5, MemoryAssumption DEF Control
    <3>3. \A q, s \in Procs : mtag'[q] = mtag'[s] /\ mtag'[q] # NoFrame => q = s
      BY <1>2, <2>5 DEF Control
    <3>4. status' = "running" => \A q \in Procs : pc'[q] = "none" <=> mtag'[q] = NoFrame
      BY <1>2, <2>4, <2>5, <2>8 DEF Control
    <3>5. \A q \in Procs : pc'[q] = "loading" => image'[q] \in Images
      BY <1>2, <2>1, <2>8 DEF Control
    <3> QED BY <1>2, <2>1, <2>4, <2>5, <2>8, <3>1, <3>2, <3>3, <3>4, <3>5 DEF Control
  <2>10. Spaced(r, o2, Spaces', dead', stacks')
    <3>1. Spaced(r, o2, Spaces, dead, stacks) /\ GoneMapNothing(r, o2, {rt}) BY <2>2 DEF Cleared
    <3>2. (Spaces' \cup dead') \cup {main_pt2} = (Spaces \cup dead) \cup {main_pt2}
      BY <1>4, <2>1, <2>6
    <3>3. GoneMapNothing(r, o2, dead') BY <2>1, <3>1 DEF Spaced, GoneMapNothing
    <3> QED BY <2>1, <3>1, <3>2, <3>3 DEF Spaced
  <2>11. \A t \in Frames : t # rt => View(r, o2, t) = View(Now, o, t) BY <2>2 DEF Cleared
  <2>12. /\ Mems(o2)'
         /\ \A t \in (Spaces \cap Spaces') \cap Frames : t # rt => Held(Now', t) = Held(Now, t)
    BY <1>1, <1>4, <2>4, <2>10, <2>11, Commits
  <2>13. Becomes(p, A!Empty)
    <3>1. \A q \in Procs : HeldBy'[q] = Held(Now', mtag'[q]) /\ HeldBy[q] = Held(Now, mtag[q])
      BY DEF HeldBy
    <3>2. ASSUME NEW q \in Procs \ {p} PROVE HeldBy'[q] = HeldBy[q]
      <4>1. mtag'[q] = mtag[q] BY <2>5
      <4>2. CASE mtag[q] = NoFrame BY <3>1, <4>1, <4>2, HeldNone
      <4>3. CASE mtag[q] # NoFrame
        <5>1. mtag[q] # rt /\ mtag[q] \in Frames BY <1>2, <4>3 DEF Control, rt
        <5>2. mtag[q] \in Spaces /\ mtag[q] \in Spaces' BY <2>6, <4>3, <5>1 DEF Spaces
        <5> QED BY <2>12, <3>1, <4>1, <5>1, <5>2
      <4> QED BY <4>2, <4>3
    <3>3. HeldBy'[p] = A!Empty BY <2>5, <3>1, HeldNone
    <3> QED BY <3>2, <3>3 DEF Becomes
  <2> QED BY <2>9, <2>12, <2>13 DEF IInv
<1> QED BY <1>6, <1>7

LEMMA ForkStep ==
    ASSUME IInv, NEW p \in Procs, NEW q \in Procs, Fork(p, q)
    PROVE  /\ IInv'
           /\ HeldBy' = HeldBy \/ (p # q /\ HeldBy[q] = A!Empty /\ Becomes(q, HeldBy[p]))
<1> DEFINE c == memory_space_clone(Now, mtag[p])
           s == memory_alloc_page(c)
           t == c.page
<1>1. PICK o : Mems(o) BY DEF IInv
<1>2. Control /\ status = "running" /\ pc[p] = "user" /\ pc[q] = "none" BY DEF IInv, Fork, Running
<1>3. mtag[p] # NoFrame /\ mtag[q] = NoFrame /\ p # q BY <1>2 DEF Control
<1>4. mtag[p] \in Frames /\ o[mtag[p]].kind = "root" BY <1>1, <1>2, <1>3, RootInUse
<1>5. Spaced(Now, o, Spaces, dead, stacks) BY <1>1 DEF Mems
<1>6. Now \in M /\ Owned(Now, o) BY <1>5 DEF Spaced
<1>7. /\ Commit(s) /\ pc' = [pc EXCEPT ![q] = "user"] /\ UNCHANGED <<image, idx, dead>>
      /\ stacks' = IF s.ok THEN stacks \cup {s.page} ELSE stacks
      /\ mtag' = [mtag EXCEPT ![q] = IF s.ok THEN t ELSE NoFrame]
  BY DEF Fork
<1>8. c \in M BY <1>4, <1>6, Clone2Typed
<1>9. /\ pc' \in [Procs -> {"none", "user", "loading"}]
      /\ \A x \in Procs : pc'[x] = IF x = q THEN "user" ELSE pc[x]
  BY <1>2, <1>7 DEF Control
<1>10. \A x \in Procs : pc'[x] = "loading" => image'[x] \in Images BY <1>2, <1>7, <1>9 DEF Control
<1>11. CASE ~s.ok
  <2> HIDE DEF s
  <2>1. mtag' = mtag BY <1>2, <1>3, <1>7, <1>11 DEF Control
  <2>2. status' = "out of memory" /\ UNCHANGED <<mem, free_list, stacks>> BY <1>7, <1>11 DEF Commit
  <2>3. Spaces' = Spaces BY <2>1 DEF Spaces
  <2>4. Control'
    <3>1. image' = image /\ idx' = idx /\ dead' = dead BY <1>7
    <3>2. status' \in {"out of memory"} /\ status' # "running" /\ stacks' = stacks BY <2>2
    <3> QED BY <1>2, <1>9, <1>10, <2>1, <2>3, <3>1, <3>2 DEF Control
  <2> QED BY <1>7, <2>1, <2>2, <2>4, LeavesMemory
<1>12. CASE s.ok
  <2>1. c.ok
    <3> HIDE DEF c
    <3> QED BY <1>8, <1>12, AllocIs
  <2>2. Now.mem[mtag[p]].pte[0] = kernel_pte BY <1>4, <1>5 DEF Spaced, RootsAre
  <2>3. PICK oc : RootMade(Now, o, c, oc, mtag[p]) BY <1>4, <1>6, <2>1, <2>2, RootCopied
  <2> HIDE DEF c
  <2>4. Spaced(c, oc, Spaces \cup {t}, dead, stacks) BY <1>5, <2>3, CopySpaced
  <2>5. t \in Pool /\ o[t].kind = "free" /\ Fresh(Now, o, c, oc, t, {t}) BY <2>3 DEF RootMade, Cloned
  <2>6. t \in Frames /\ t # NoFrame /\ t \notin Spaces /\ t \notin dead
    BY <1>5, <2>5, FrameKinds DEF Spaced, RootsAre
  <2>7. PICK os :
           /\ s.page \in Pool /\ Spaced(s, os, Spaces \cup {t}, dead, stacks \cup {s.page})
           /\ \A x \in Frames : View(s, os, x) = View(c, oc, x)
    BY <1>12, <2>4, StackKeeps
  <2> HIDE DEF s, t
  <2>8. \A x \in Frames : x # t => View(s, os, x) = View(Now, o, x)
    BY <1>6, <2>5, <2>6, <2>7, FreshView
  <2>9. View(s, os, t) = View(Now, o, mtag[p])
    <3>1. View(c, oc, c.page) = View(Now, o, mtag[p]) BY <1>4, <1>6, <2>3, CopyView
    <3> QED BY <2>6, <2>7, <3>1 DEF t
  <2>10. mem' = s.mem /\ free_list' = s.free /\ status' = status BY <1>7, <1>12 DEF Commit
  <2>11. mtag' \in [Procs -> Frames] /\ \A x \in Procs : mtag'[x] = IF x = q THEN t ELSE mtag[x]
    BY <1>2, <1>7, <1>12, <2>6 DEF Control
  <2>12. Spaces' = Spaces \cup {t} BY <1>3, <2>6, <2>11 DEF Spaces
  <2>13. Control'
    <3>1. stacks' \subseteq Pool /\ dead' \subseteq Pool /\ dead' \cap Spaces' = {}
      BY <1>2, <1>7, <2>6, <2>7, <2>12 DEF Control
    <3>2. mtag'[Main] = main_pt2 BY <1>2, <1>3, <2>11, MemoryAssumption, FrameKinds DEF Control
    <3>3. \A x \in Procs : mtag[x] # t BY <2>6 DEF Spaces
    <3>4. \A x, y \in Procs : mtag'[x] = mtag'[y] /\ mtag'[x] # NoFrame => x = y
      BY <1>2, <2>11, <3>3 DEF Control
    <3>5. status' = "running" => \A x \in Procs : pc'[x] = "none" <=> mtag'[x] = NoFrame
      BY <1>2, <1>9, <2>6, <2>11 DEF Control
    <3> QED BY <1>2, <1>7, <1>9, <1>10, <2>10, <2>11, <3>1, <3>2, <3>4, <3>5 DEF Control
  <2>14. Spaced(s, os, Spaces', dead', stacks') BY <1>7, <1>12, <2>7, <2>12
  <2>15. /\ Mems(os)'
         /\ t \in Spaces' => Held(Now', t) = View(s, os, t)
         /\ \A x \in (Spaces \cap Spaces') \cap Frames : x # t => Held(Now', x) = Held(Now, x)
         /\ \A x \in Spaces \cap Frames : Held(Now, x) = View(Now, o, x)
    BY <1>1, <2>6, <2>8, <2>10, <2>14, Commits
  <2>16. \A x \in Procs : HeldBy'[x] = Held(Now', mtag'[x]) /\ HeldBy[x] = Held(Now, mtag[x])
    BY DEF HeldBy
  <2>17. HeldBy[q] = A!Empty BY <1>3, <2>16, HeldNone
  <2>18. HeldBy'[q] = HeldBy[p]
    <3>1. mtag[p] \in Spaces BY <1>3 DEF Spaces
    <3> QED BY <1>4, <2>9, <2>11, <2>12, <2>15, <2>16, <3>1
  <2>19. ASSUME NEW x \in Procs \ {q} PROVE HeldBy'[x] = HeldBy[x]
    <3>1. mtag'[x] = mtag[x] BY <2>11
    <3>2. CASE mtag[x] = NoFrame BY <2>16, <3>1, <3>2, HeldNone
    <3>3. CASE mtag[x] # NoFrame
      <4>1. mtag[x] \in Spaces /\ mtag[x] \in Frames BY <1>2, <3>3 DEF Control, Spaces
      <4>2. mtag[x] # t BY <2>6, <4>1
      <4> QED BY <2>12, <2>15, <2>16, <3>1, <4>1, <4>2
    <3> QED BY <3>2, <3>3
  <2> QED BY <1>3, <2>13, <2>15, <2>17, <2>18, <2>19 DEF IInv, Becomes
<1> QED BY <1>11, <1>12

------------------------------------------------------------------------------
(* The specification *)

\* What a step may do to the memory of p.
Changes(p) ==
    \/ HeldBy' = HeldBy
    \/ Becomes(p, A!Empty)
    \/ \E a \in StoreAt : /\ HeldBy[p][a] # Null
                          /\ Becomes(p, [HeldBy[p] EXCEPT ![a] = p])
    \/ \E a \in StoreAt : Becomes(p, A!Extended(HeldBy[p], {a \div PAGE_SIZE}))
    \/ \E seg \in Segments : Written(p, seg)
    \/ \E q \in Procs \ {p} : HeldBy[p] = A!Empty /\ Becomes(p, HeldBy[q])

LEMMA StepKeeps ==
    ASSUME IInv, [Next]_vars
    PROVE  IInv' /\ \E p \in Procs : Changes(p)
<1>0. Main \in Procs BY MemoryAssumption
<1>1. CASE UNCHANGED vars
  <2>1. Control' BY <1>1 DEF IInv, Control, vars, Spaces
  <2>2. UNCHANGED <<mem, free_list, mtag, stacks, dead>> BY <1>1 DEF vars
  <2>3. IInv' /\ HeldBy' = HeldBy BY <2>1, <2>2, LeavesMemory
  <2> QED BY <1>0, <2>3 DEF Changes
<1>2. ASSUME NEW p \in Procs, NEW a \in StoreAt, PageFault(p, a)
      PROVE  IInv' /\ Changes(p)
  BY <1>2, PageFaultStep DEF Changes
<1>3. ASSUME NEW p \in Procs, NEW a \in StoreAt, Store(p, a, p)
      PROVE  IInv' /\ Changes(p)
  <2>1. p \in {p} OBVIOUS
  <2> QED BY <1>3, <2>1, StoreStep DEF Changes
<1>4. ASSUME NEW p \in Procs, OtherFault(p)
      PROVE  IInv' /\ Changes(p)
  <2>1. Panic("fault") BY <1>4 DEF OtherFault
  <2> QED BY <2>1, PanicKeeps DEF Changes
<1>5. ASSUME NEW p \in Procs, LoadSegment(p)
      PROVE  IInv' /\ Changes(p)
  <2> DEFINE seg == image[p].segs[idx[p]]
  <2>1. IInv' /\ seg \in Segments /\ (HeldBy' = HeldBy \/ Written(p, seg)) BY <1>5, LoadStep
  <2> HIDE DEF seg
  <2> QED BY <2>1 DEF Changes
<1>6. ASSUME NEW p \in Procs, Loaded(p)
      PROVE  IInv' /\ Changes(p)
  BY <1>6, LoadedStep DEF Changes
<1>7. ASSUME NEW p \in Procs, Exit(p)
      PROVE  IInv' /\ Changes(p)
  BY <1>7, ExitStep DEF Changes
<1>8. ASSUME NEW p \in Procs, NEW im \in Images, Exec(p, im)
      PROVE  IInv' /\ Changes(p)
  BY <1>8, ExecStep DEF Changes
<1>9. ASSUME NEW p \in Procs, NEW q \in Procs, Fork(p, q)
      PROVE  IInv' /\ Changes(q)
  BY <1>9, ForkStep DEF Changes
<1>10. Next => \/ UNCHANGED vars
               \/ \E p \in Procs :
                     \/ \E a \in StoreAt : PageFault(p, a) \/ Store(p, a, p)
                     \/ OtherFault(p) \/ LoadSegment(p) \/ Loaded(p) \/ Exit(p)
                     \/ \E im \in Images : Exec(p, im)
                     \/ \E q \in Procs : Fork(p, q)
  BY DEF Next, Stopped
<1>11. \/ UNCHANGED vars
       \/ \E p \in Procs :
             \/ \E a \in StoreAt : PageFault(p, a) \/ Store(p, a, p)
             \/ OtherFault(p) \/ LoadSegment(p) \/ Loaded(p) \/ Exit(p)
             \/ \E im \in Images : Exec(p, im)
             \/ \E q \in Procs : Fork(p, q)
  BY <1>10
<1> QED BY ONLY <1>1, <1>2, <1>3, <1>4, <1>5, <1>6, <1>7, <1>8, <1>9, <1>11

\* The frames always have their owners: what every property of the spaces rests on.
THEOREM FramesAreOwned == Spec => []IInv
<1>1. Init => IInv BY StartControl, StartMems DEF IInv
<1> QED BY <1>1, StepKeeps, PTL DEF Spec

------------------------------------------------------------------------------
(* Memories of their own *)

SpaceNow == [p \in Procs |-> [a \in Addrs |-> WordAt(p, a)]]

LEMMA SpaceIs == SpaceNow = HeldBy
<1>1. Now.mem = mem BY DEF Now
<1>2. \A p, a : Frame(p, a) = FramesAt(Now, mtag[p], a) BY <1>1 DEF Frame, Entry, FramesAt
<1> DEFINE Some(fs) == CHOOSE f \in fs : TRUE
           WordOf(p, fs, a) == IF mtag[p] = NoFrame \/ fs = {} THEN Null
                             ELSE mem[Some(fs)].data[a % PAGE_SIZE]
<1>3. SpaceNow = [p \in Procs |-> [a \in Addrs |-> WordOf(p, Frame(p, a), a)]] BY DEF SpaceNow, WordAt
<1>4. HeldBy = [p \in Procs |-> [a \in Addrs |-> WordOf(p, FramesAt(Now, mtag[p], a), a)]]
  BY <1>1 DEF HeldBy, Held
<1> HIDE DEF WordOf
<1>5. ASSUME NEW p \in Procs, NEW a \in Addrs
      PROVE  WordOf(p, Frame(p, a), a) = WordOf(p, FramesAt(Now, mtag[p], a), a)
  BY SMTT(30), <1>2
<1> QED BY <1>3, <1>4, <1>5

\* A!Next, of two spaces.
NextOf(s, t) ==
    \E p \in Procs :
        /\ \A q \in Procs \ {p} : t[q] = s[q]
        /\ \/ t[p] = A!Empty
           \/ t[p] \in A!Stored(s[p]) \/ t[p] \in A!Grown(s[p])
           \/ t[p] \in A!Loaded(s[p])
           \/ t[p] \in (IF s[p] = A!Empty THEN {s[q] : q \in Procs \ {p}} ELSE {})

LEMMA NextIs == NextOf(SpaceNow, SpaceNow') => A!Next
BY Zenon DEF A!Next, A!Copied, NextOf, SpaceNow

LEMMA StepMaps ==
    ASSUME IInv, [Next]_vars
    PROVE  [A!Next]_SpaceNow
<1>1. PICK p \in Procs : Changes(p) BY StepKeeps
<1> DEFINE s == HeldBy
           t == HeldBy'
<1>2. SpaceNow = s /\ SpaceNow' = t
  <2>1. (SpaceNow = HeldBy)' BY SpaceIs, PTL
  <2> QED BY <2>1, SpaceIs
<1>3. s[p] \in [Addrs -> {s[p][a] : a \in Addrs}] BY DEF HeldBy, Held
<1>4. \A new : Becomes(p, new) => t[p] = new /\ \A q \in Procs \ {p} : t[q] = s[q] BY DEF Becomes
<1> HIDE DEF s, t
<1>5. CASE HeldBy' = HeldBy BY <1>2, <1>5 DEF s, t
<1>6. CASE Becomes(p, A!Empty) BY <1>2, <1>4, <1>6, NextIs DEF NextOf
<1>7. ASSUME NEW a \in StoreAt, HeldBy[p][a] # Null, Becomes(p, [HeldBy[p] EXCEPT ![a] = p])
      PROVE  A!Next
  <2>1. a \in Addrs BY ImagesAssumption
  <2>2. t[p] = [s[p] EXCEPT ![a] = p] /\ s[p][a] # Null /\ \A q \in Procs \ {p} : t[q] = s[q]
    BY <1>4, <1>7 DEF s
  <2>3. t[p] \in A!Stored(s[p]) BY <2>1, <2>2 DEF A!Stored, A!Addrs, Addrs
  <2> QED BY <1>2, <2>2, <2>3, NextIs DEF NextOf
<1>8. ASSUME NEW a \in StoreAt, Becomes(p, A!Extended(HeldBy[p], {a \div PAGE_SIZE})) PROVE A!Next
  <2>1. a \in Addrs BY ImagesAssumption
  <2>2. t[p] = A!Extended(s[p], {a \div PAGE_SIZE}) /\ \A q \in Procs \ {p} : t[q] = s[q]
    BY <1>4, <1>8 DEF s
  <2>3. t[p] \in A!Grown(s[p]) BY <2>1, <2>2 DEF A!Grown, A!PageOf, A!Addrs, Addrs
  <2> QED BY <1>2, <2>2, <2>3, NextIs DEF NextOf
<1>9. ASSUME NEW seg \in Segments, Written(p, seg) PROVE A!Next
  <2> DEFINE x == Loading(seg)
  <2>1. /\ t[p] = A!WithSegment(s[p], x) /\ A!Writes(A!Extended(s[p], x.pages), x)
        /\ \A q \in Procs \ {p} : t[q] = s[q]
    BY <1>4, <1>9 DEF s, Written
  <2> HIDE DEF x
  <2>2. t[p] \in A!Loaded(s[p]) BY <2>1 DEF A!Loaded, x
  <2> QED BY <1>2, <2>1, <2>2, NextIs DEF NextOf
<1>10. ASSUME NEW q \in Procs \ {p}, HeldBy[p] = A!Empty, Becomes(p, HeldBy[q]) PROVE A!Next
  <2>1. t[p] = s[q] /\ s[p] = A!Empty /\ \A x \in Procs \ {p} : t[x] = s[x] BY <1>4, <1>10 DEF s
  <2> QED BY <1>2, <2>1, NextIs DEF NextOf
<1> QED BY <1>1, <1>5, <1>6, <1>7, <1>8, <1>9, <1>10 DEF Changes

LEMMA StartMaps == Init => A!Init
<1> SUFFICES ASSUME Init PROVE A!Init OBVIOUS
<1>1. Control /\ Mems(Owners0) BY StartControl, StartMems
<1>2. \A p \in Procs : SpaceNow[p] = Held(Now, mtag[p]) BY SpaceIs DEF HeldBy
<1>3. ASSUME NEW p \in Procs PROVE SpaceNow[p] = A!Empty
  <2>1. CASE mtag[p] = NoFrame BY <1>2, <2>1, HeldNone
  <2>2. CASE mtag[p] # NoFrame
    <3> DEFINE rt == mtag[p]
    <3>1. rt \in Frames /\ Owners0[rt].kind = "root" BY <1>1, <2>2, RootInUse
    <3>2. Now \in M /\ Owned(Now, Owners0) BY <1>1 DEF Mems, Spaced
    <3>3. \A c \in Pool : Owners0[c].kind = "free" BY SMTT(30), FrameKinds DEF Owners0
    <3> HIDE DEF rt
    <3>4. \A page : \A c \in Pool : ~At(Owners0, c, rt, page) BY <3>3 DEF At
    <3>5. Held(Now, rt) = View(Now, Owners0, rt) BY <3>1, <3>2, HeldIs
    <3>6. View(Now, Owners0, rt) = [a \in Addrs |-> Null] BY <3>4 DEF View
    <3> QED BY <1>2, <3>5, <3>6 DEF A!Empty, A!Addrs, Addrs, rt
  <2> QED BY <2>1, <2>2
<1> QED BY <1>3 DEF A!Init, SpaceNow

\* Every process has a memory of its own: it changes by what the process does, page by
\* page zeroed, and a child's begins as its parent's; memory.c, whatever frames it gives
\* to whom, implements AddressSpaces.
THEOREM MemoryIsOwn == Spec => OwnMemory
BY StartMaps, StepMaps, FramesAreOwned, PTL DEF Spec, OwnMemory, A!Spec, SpaceNow

------------------------------------------------------------------------------
(* Loading *)

\* What was written is what the segment says, if it fits.
LEMMA WrittenHolds ==
    ASSUME NEW p \in Procs, NEW seg, IsHeader(seg), InUserRange(seg), Fits(seg),
           NEW h, h = A!WithSegment(HeldBy[p], Loading(seg)), NEW k \in 0 .. seg.memsz - 1
    PROVE  /\ seg.vaddr + k \in Addrs
           /\ k < seg.filesz /\ k < seg.rest => h[seg.vaddr + k] = seg.data
           /\ k >= seg.filesz => h[seg.vaddr + k] = 0
<1> DEFINE a == seg.vaddr + k
           one == Touched(ReadRun(seg))
           two == Touched(ClearRun(seg))
<1>1. /\ seg.vaddr \in Nat /\ seg.filesz \in Nat /\ seg.memsz \in Nat /\ seg.rest \in Nat
      /\ seg.filesz <= seg.memsz /\ seg.vaddr + seg.memsz < USER_END /\ USER_END \in Int
  BY FitsIs, MemoryAssumption DEF IsHeader, InUserRange, Fits, USER_END, PTE_CNT
<1>2. ClearRun(seg).from = seg.vaddr + seg.filesz /\ ClearRun(seg).count = seg.memsz - seg.filesz
  BY FitsIs
<1>3. a \in Addrs BY <1>1 DEF Addrs
<1>4. k < seg.filesz /\ k < seg.rest => a \in one /\ a \notin two
  BY <1>1, <1>2 DEF Touched, ReadRun
<1>5. k >= seg.filesz => a \in two BY <1>1, <1>2 DEF Touched
<1>6. /\ Loading(seg).read = one /\ Loading(seg).clear = two /\ Loading(seg).data = seg.data
  BY DEF Loading
<1> HIDE DEF a, one, two
<1>7. /\ a \in two => h[a] = 0
      /\ a \notin two /\ a \in one => h[a] = seg.data
  BY <1>3, <1>6 DEF A!WithSegment, A!Addrs, Addrs
<1> QED BY <1>3, <1>4, <1>5, <1>7 DEF a

LEMMA LoadHolds ==
    ASSUME IInv, NEW p \in Procs, NEW seg, Loads(p, seg), Fits(seg)
    PROVE  status' # "fault in elf_load" /\ (status' = "running" => Holds(p, seg)')
<1>1. LoadSegment(p) /\ seg = image[p].segs[idx[p]] BY DEF Loads
<1>2. /\ IsHeader(seg)
      /\ status' = "running" => InUserRange(seg) /\ Written(p, seg)
      /\ status' # "fault in elf_load"
  BY <1>1, LoadStep
<1>3. ASSUME status' = "running" PROVE Holds(p, seg)'
  <2> DEFINE h == HeldBy'[p]
  <2>1. InUserRange(seg) /\ h = A!WithSegment(HeldBy[p], Loading(seg))
    BY <1>2, <1>3 DEF Written, Becomes
  <2>2. h = SpaceNow'[p]
    <3>1. (SpaceNow = HeldBy)' BY SpaceIs, PTL
    <3> QED BY <3>1
  <2>3. \A a \in Addrs : SpaceNow'[p][a] = WordAt(p, a)' BY DEF SpaceNow
  <2> HIDE DEF h
  <2>4. ASSUME NEW k \in 0 .. seg.memsz - 1
        PROVE  /\ k < seg.filesz /\ k < seg.rest => WordAt(p, seg.vaddr + k)' = seg.data
               /\ k >= seg.filesz => WordAt(p, seg.vaddr + k)' = 0
    <3>1. /\ seg.vaddr + k \in Addrs
          /\ k < seg.filesz /\ k < seg.rest => h[seg.vaddr + k] = seg.data
          /\ k >= seg.filesz => h[seg.vaddr + k] = 0
      BY <1>2, <2>1, WrittenHolds
    <3>2. h[seg.vaddr + k] = WordAt(p, seg.vaddr + k)' BY <2>2, <2>3, <3>1
    <3> QED BY <3>1, <3>2
  <2> QED BY <2>4 DEF Holds
<1> QED BY <1>2, <1>3

\* A segment that fits is loaded without a fault, and is then in the memory of the
\* process, data and zeroes: whatever other headers ask of elf_load.
THEOREM FittingOnesLoad == Spec => FittingSegmentsLoad
<1>1. ASSUME IInv, [Next]_vars
      PROVE  [\A p \in Procs, seg \in Segments : Loads(p, seg) /\ Fits(seg) =>
                 status' # "fault in elf_load" /\ (status' = "running" => Holds(p, seg)')]_vars
  BY <1>1, LoadHolds
<1> QED BY <1>1, FramesAreOwned, PTL DEF Spec, FittingSegmentsLoad

------------------------------------------------------------------------------
(* Pages in one place *)

LEMMA IsTyped == IInv => TypeOK
<1> SUFFICES ASSUME IInv PROVE TypeOK OBVIOUS
<1>1. PICK o : Mems(o) BY DEF IInv
<1>2. Control BY DEF IInv
<1>3. Now \in M BY <1>1 DEF Mems, Spaced
<1>4. mem \in [Frames -> Contents] /\ free_list \in Seq(Pool) BY <1>3 DEF M, Now
<1>5. ASSUME NEW f \in Frames, NEW i \in 0 .. PTE_CNT - 1
      PROVE  /\ mem[f].pte[i].ppn \in Frames
             /\ mem[f].pte[i].flags \subseteq {"V", "R", "W", "X", "U", "G"}
             /\ "V" \in mem[f].pte[i].flags \/ mem[f].pte[i] = null_pte
  <2>1. i \in 0 .. 1 BY DEF PTE_CNT
  <2>2. mem[f].pte[i] \in Ptes BY <1>4, <2>1 DEF Contents
  <2> QED BY <2>2 DEF Ptes, Flags
<1>6. \A p \in Procs : (pc[p] = "none") = (mtag[p] = NoFrame) \/ status # "running"
  BY <1>2 DEF Control
<1>7. /\ status \in {"running", "halted", "out of memory", "fault", "elf_load", "fault in elf_load"}
      /\ pc \in [Procs -> {"none", "user", "loading"}]
      /\ stacks \subseteq Pool /\ dead \subseteq Pool
  BY <1>2 DEF Control
<1> QED BY <1>4, <1>5, <1>6, <1>7 DEF TypeOK

\* The frames of a kind, the entries that refer to frames in the tables of a kind.
Level(o, k) == {f \in Frames : o[f].kind = k}
Edges(o, k) == UNION {Refs(pt) : pt \in Level(o, k)}
Valid(pt, i) == "V" \in mem[pt].pte[i].flags /\ "G" \notin mem[pt].pte[i].flags

LEMMA RefsAre ==
    ASSUME NEW pt
    PROVE  \A r : r \in Refs(pt) <=> \E i \in 0 .. 1 : Valid(pt, i) /\ r = <<pt, i>>
BY DEF Refs, Valid, PTE_CNT

\* What an entry refers to knows it, and what is in a tree is referred to.
LEMMA RefDown ==
    ASSUME NEW o, Mems(o), NEW pt \in Frames, o[pt].kind \in Tabs, NEW i \in 0 .. 1, Valid(pt, i)
    PROVE  LET c == mem[pt].pte[i].ppn
           IN c \in Pool /\ o[c] = [kind |-> Kid(o[pt].kind), root |-> o[pt].root, up |-> <<pt, i>>]
<1>1. EntryOK(Now, o, pt, i) BY DEF Mems, Spaced, Owned, Tree
<1>2. Now.mem = mem BY DEF Now
<1>3. mem[pt].pte[i] # null_pte /\ mem[pt].pte[i] # kernel_pte
  BY DEF Valid, null_pte, kernel_pte, ptab_pte
<1> QED BY <1>1, <1>2, <1>3 DEF EntryOK

LEMMA RefUp ==
    ASSUME NEW o, Mems(o), NEW c \in Frames, o[c].kind \in Kids
    PROVE  \E pt \in Frames, i \in 0 .. 1 :
               /\ Valid(pt, i) /\ mem[pt].pte[i].ppn = c /\ o[c].up = <<pt, i>>
               /\ o[pt].kind \in Tabs /\ Kid(o[pt].kind) = o[c].kind
<1> DEFINE pt == o[c].up[1]
           i == o[c].up[2]
           e == mem[pt].pte[i]
<1>1. Owned(Now, o) /\ NoneDetached(o) BY DEF Mems, Spaced
<1>2. pt \in Frames /\ i \in 0 .. 1 /\ o[c].up = <<pt, i>> BY <1>1 DEF Owned, Owners
<1>3. Now.mem = mem BY DEF Now
<1>4. UpOK(Now, o, c) BY <1>1 DEF NoneDetached, Owned, Tree
<1>5. e.ppn = c /\ "V" \in e.flags /\ o[pt].kind \in Tabs /\ Kid(o[pt].kind) = o[c].kind
  BY <1>3, <1>4 DEF UpOK
<1>6. EntryOK(Now, o, pt, i) BY <1>1, <1>2, <1>5 DEF Owned, Tree
<1>7. "G" \notin e.flags
  <2>1. e # null_pte BY <1>5, NullTyped
  <2>2. e # kernel_pte
    <3>1. o[main_pt1].kind = "kernel" BY <1>1, FrameKinds DEF Owned
    <3>2. c # main_pt1 BY SMTT(30), <3>1 DEF Kids
    <3> QED BY <1>5, <3>2 DEF kernel_pte, ptab_pte
  <2>3. LeafEntry(e) \/ TableEntry(e) BY Zenon, <1>3, <1>6, <2>1, <2>2 DEF EntryOK
  <2> HIDE DEF e
  <2>4. "G" \notin {"V", "R", "W", "X", "U"} /\ "G" \notin {"V"} OBVIOUS
  <2>5. CASE LeafEntry(e)
    <3>1. e.flags \subseteq {"V", "R", "W", "X", "U"} BY <2>5 DEF LeafEntry
    <3> QED BY <2>4, <3>1, Zenon
  <2>6. CASE TableEntry(e)
    <3>1. e.flags = {"V"} BY <2>6 DEF TableEntry
    <3> QED BY <2>4, <3>1, Zenon
  <2> QED BY <2>3, <2>5, <2>6
<1> HIDE DEF pt, i
<1> QED BY <1>2, <1>5, <1>7 DEF Valid

LEMMA LevelsBelow ==
    ASSUME NEW o, Mems(o), NEW k \in Tabs
    PROVE  Below(Edges(o, k)) = Level(o, Kid(k))
<1>1. ASSUME NEW c \in Below(Edges(o, k)) PROVE c \in Level(o, Kid(k))
  <2>1. PICK r \in Edges(o, k) : c = mem[r[1]].pte[r[2]].ppn BY DEF Below
  <2>2. PICK pt \in Level(o, k) : r \in Refs(pt) BY DEF Edges
  <2>3. PICK i \in 0 .. 1 : Valid(pt, i) /\ r = <<pt, i>> BY <2>2, RefsAre
  <2>4. pt \in Frames /\ o[pt].kind = k BY DEF Level
  <2>5. c = mem[pt].pte[i].ppn BY <2>1, <2>3
  <2>6. c \in Pool /\ o[c] = [kind |-> Kid(k), root |-> o[pt].root, up |-> <<pt, i>>]
    BY <2>3, <2>4, <2>5, RefDown
  <2> QED BY <2>6, FrameKinds DEF Level
<1>2. ASSUME NEW c \in Level(o, Kid(k)) PROVE c \in Below(Edges(o, k))
  <2>1. c \in Frames /\ o[c].kind = Kid(k) /\ o[c].kind \in Kids BY DEF Level, Kid, Kids
  <2>2. PICK pt \in Frames, i \in 0 .. 1 :
           /\ Valid(pt, i) /\ mem[pt].pte[i].ppn = c
           /\ o[pt].kind \in Tabs /\ Kid(o[pt].kind) = o[c].kind
    BY <2>1, RefUp
  <2>3. o[pt].kind = k BY <2>1, <2>2 DEF Kid, Tabs
  <2>4. <<pt, i>> \in Edges(o, k) BY <2>2, <2>3, RefsAre DEF Edges, Level
  <2>5. <<pt, i>>[1] = pt /\ <<pt, i>>[2] = i OBVIOUS
  <2> QED BY <2>2, <2>4, <2>5 DEF Below
<1> QED BY <1>1, <1>2

LEMMA SpaceFrames ==
    ASSUME Control
    PROVE  Spaces \cup dead \cup {main_pt2} \subseteq Frames
<1>1. ASSUME NEW r \in Spaces PROVE r \in Frames
  <2>1. PICK p \in Procs : r = mtag[p] BY DEF Spaces
  <2> QED BY <2>1 DEF Control
<1>2. dead \subseteq Pool BY DEF Control
<1> QED BY <1>1, <1>2, FrameKinds

LEMMA LevelsAre ==
    ASSUME NEW o, Mems(o), NEW roots, roots = Spaces \cup dead \cup {main_pt2}, Control
    PROVE  /\ roots = Level(o, "root")
           /\ Tables1(roots) = Edges(o, "root") /\ Tables0(roots) = Edges(o, "pt1")
           /\ Leaves(roots) = Edges(o, "pt0")
<1>1. RootsAre(Now, o, roots) BY DEF Mems, Spaced
<1>2. roots \subseteq Frames BY SpaceFrames
<1>3. roots = Level(o, "root") BY <1>1, <1>2 DEF RootsAre, Level
<1>4. Tables1(roots) = Edges(o, "root") BY <1>3 DEF Tables1, Edges
<1>5. Below(Tables1(roots)) = Level(o, "pt1") BY <1>4, LevelsBelow DEF Tabs, Kid
<1>6. Tables0(roots) = Edges(o, "pt1") BY <1>5 DEF Tables0, Edges
<1>7. Below(Tables0(roots)) = Level(o, "pt0") BY <1>6, LevelsBelow DEF Tabs, Kid
<1>8. Leaves(roots) = Edges(o, "pt0") BY <1>7 DEF Leaves, Edges
<1> QED BY <1>3, <1>4, <1>6, <1>8

LEMMA CountNone == ASSUME NEW S, S = {} PROVE Cardinality(S) = 0
BY FS_EmptySet, Zenon

LEMMA CountOne == ASSUME NEW S, NEW x, S = {x} PROVE Cardinality(S) = 1
BY FS_Singleton, Zenon

LEMMA CountIf ==
    ASSUME NEW P \in BOOLEAN
    PROVE  Cardinality({x \in {1} : P}) = IF P THEN 1 ELSE 0
<1>1. CASE P
  <2>1. {x \in {1} : P} = {1} BY <1>1
  <2> QED BY <1>1, <2>1, CountOne
<1>2. CASE ~P
  <2>1. {x \in {1} : P} = {} BY <1>2
  <2> QED BY <1>2, <2>1, CountNone
<1> QED BY <1>1, <1>2

LEMMA CountFree ==
    ASSUME NEW o, Mems(o), NEW f \in Pool
    PROVE  Cardinality({i \in DOMAIN free_list : free_list[i] = f}) = IF o[f].kind = "free" THEN 1 ELSE 0
<1>1. FreeList(Now, o) /\ f \in Frames BY FrameKinds DEF Mems, Spaced, Owned
<1>2. Now.free = free_list BY DEF Now
<1> DEFINE S == {i \in DOMAIN free_list : free_list[i] = f}
<1>3. CASE o[f].kind = "free"
  <2>1. PICK i \in DOMAIN free_list : free_list[i] = f BY <1>1, <1>2, <1>3 DEF FreeList
  <2>2. S = {i} BY <1>1, <1>2, <2>1 DEF FreeList
  <2> HIDE DEF S
  <2>3. Cardinality(S) = 1 BY <2>2, CountOne
  <2> QED BY <1>3, <2>3 DEF S
<1>4. CASE o[f].kind # "free"
  <2>1. S = {} BY <1>1, <1>2, <1>4 DEF FreeList
  <2> HIDE DEF S
  <2>2. Cardinality(S) = 0 BY <2>1, CountNone
  <2> QED BY <1>4, <2>2 DEF S
<1> QED BY <1>3, <1>4

AllEdges(o) == Edges(o, "root") \cup Edges(o, "pt1") \cup Edges(o, "pt0")

LEMMA EdgeKnown ==
    ASSUME NEW o, Mems(o), NEW r \in AllEdges(o)
    PROVE  LET c == mem[r[1]].pte[r[2]].ppn
           IN c \in Frames /\ o[c].kind \in Kids /\ o[c].up = r
<1>1. PICK k \in Tabs : r \in Edges(o, k) BY DEF AllEdges, Tabs
<1>2. PICK pt \in Level(o, k) : r \in Refs(pt) BY <1>1 DEF Edges
<1>3. PICK i \in 0 .. 1 : Valid(pt, i) /\ r = <<pt, i>> BY <1>2, RefsAre
<1>4. pt \in Frames /\ o[pt].kind = k BY DEF Level
<1> DEFINE c == mem[pt].pte[i].ppn
<1>5. c \in Pool /\ o[c] = [kind |-> Kid(k), root |-> o[pt].root, up |-> <<pt, i>>]
  BY <1>3, <1>4, RefDown
<1>6. mem[r[1]].pte[r[2]].ppn = c BY <1>3
<1> HIDE DEF c
<1>7. c \in Frames /\ o[c].kind = Kid(k) /\ o[c].up = r BY <1>3, <1>5, FrameKinds
<1> QED BY <1>6, <1>7 DEF Kid, Kids

LEMMA CountEdges ==
    ASSUME NEW o, Mems(o), NEW f \in Pool
    PROVE  Cardinality({r \in AllEdges(o) : mem[r[1]].pte[r[2]].ppn = f})
               = IF o[f].kind \in Kids THEN 1 ELSE 0
<1> DEFINE S == {r \in AllEdges(o) : mem[r[1]].pte[r[2]].ppn = f}
<1>1. f \in Frames BY FrameKinds
<1>2. \A r \in S : o[f].kind \in Kids /\ o[f].up = r BY EdgeKnown
<1>3. CASE o[f].kind \in Kids
  <2>1. PICK pt \in Frames, i \in 0 .. 1 :
           /\ Valid(pt, i) /\ mem[pt].pte[i].ppn = f /\ o[pt].kind \in Tabs
    BY <1>1, <1>3, RefUp
  <2>2. <<pt, i>> \in Edges(o, o[pt].kind) BY <2>1, RefsAre DEF Edges, Level
  <2>3. <<pt, i>> \in AllEdges(o) BY <2>1, <2>2 DEF AllEdges, Tabs
  <2>4. <<pt, i>> \in S BY <2>1, <2>3
  <2> HIDE DEF S
  <2>5. S = {<<pt, i>>} BY <1>2, <2>4
  <2>6. Cardinality(S) = 1 BY <2>5, CountOne
  <2> QED BY <1>3, <2>6 DEF S
<1>4. CASE o[f].kind \notin Kids
  <2> HIDE DEF S
  <2>1. S = {} BY <1>2, <1>4
  <2>2. Cardinality(S) = 0 BY <2>1, CountNone
  <2> QED BY <1>4, <2>2 DEF S
<1> QED BY <1>3, <1>4

LEMMA EachOnce == IInv => PagesInOnePlace
<1> SUFFICES ASSUME IInv PROVE PagesInOnePlace OBVIOUS
<1>1. PICK o : Mems(o) BY DEF IInv
<1>2. Control BY DEF IInv
<1> DEFINE roots == (Spaces \cup dead) \ {main_pt2}
           refs == Tables1(roots \cup {main_pt2}) \cup Tables0(roots \cup {main_pt2})
                   \cup Leaves(roots \cup {main_pt2})
<1>3. roots \cup {main_pt2} = Spaces \cup dead \cup {main_pt2} OBVIOUS
<1>4. refs = AllEdges(o)
  <2> HIDE DEF roots
  <2> QED BY <1>1, <1>2, <1>3, LevelsAre DEF AllEdges
<1>5. ASSUME NEW f \in Pool
      PROVE  Cardinality({i \in DOMAIN free_list : free_list[i] = f})
             + Cardinality({x \in {1} : f \in stacks}) + Cardinality({x \in {1} : f \in roots})
             + Cardinality({r \in refs : mem[r[1]].pte[r[2]].ppn = f}) = 1
  <2> DEFINE k == o[f].kind
  <2>1. f \in Frames /\ f \notin {main_pt1, main_pt2, NoFrame} BY FrameKinds
  <2>2. f \in stacks <=> k = "stack" BY <1>1, <2>1 DEF Mems, Spaced
  <2>3. f \in roots <=> k = "root"
    <3>1. RootsAre(Now, o, Spaces \cup dead \cup {main_pt2}) BY <1>1 DEF Mems, Spaced
    <3> QED BY <2>1, <3>1 DEF RootsAre
  <2>4. k \in {"free", "stack", "root"} \cup Kids
    <3>1. Owned(Now, o) BY <1>1 DEF Mems, Spaced
    <3>2. k \in Kinds /\ k # "kernel" BY <2>1, <3>1 DEF Owned, Owners
    <3> QED BY <3>2 DEF Kinds, Tabs, Kids
  <2> HIDE DEF roots, refs
  <2> DEFINE n1 == Cardinality({i \in DOMAIN free_list : free_list[i] = f})
             n2 == Cardinality({x \in {1} : f \in stacks})
             n3 == Cardinality({x \in {1} : f \in roots})
             n4 == Cardinality({r \in refs : mem[r[1]].pte[r[2]].ppn = f})
  <2>5. n1 = IF k = "free" THEN 1 ELSE 0 BY <1>1, CountFree
  <2>6. n2 = IF k = "stack" THEN 1 ELSE 0 BY <2>2, CountIf
  <2>7. n3 = IF k = "root" THEN 1 ELSE 0 BY <2>3, CountIf
  <2>8. n4 = IF k \in Kids THEN 1 ELSE 0 BY <1>1, <1>4, CountEdges
  <2> HIDE DEF n1, n2, n3, n4, k
  <2>9. n1 + n2 + n3 + n4 = 1 BY <2>4, <2>5, <2>6, <2>7, <2>8 DEF Kids
  <2> QED BY <2>9 DEF n1, n2, n3, n4
<1> QED BY <1>5 DEF PagesInOnePlace

LEMMA DeadAreEmpty == IInv => DeadMapNothing
<1> SUFFICES ASSUME IInv PROVE DeadMapNothing OBVIOUS
<1>1. PICK o : Mems(o) BY DEF IInv
<1>2. Control /\ Owned(Now, o) /\ Now.mem = mem BY <1>1 DEF IInv, Mems, Spaced, Now
<1> DEFINE Of(k) == {f \in Frames : o[f].kind = k /\ o[f].root \in dead}
<1>3. ASSUME NEW k \in Tabs, NEW tabs, tabs \subseteq Of(k)
      PROVE  Below(UNION {Refs(pt) : pt \in tabs}) \subseteq Of(Kid(k))
  <2> SUFFICES ASSUME NEW c \in Below(UNION {Refs(pt) : pt \in tabs}) PROVE c \in Of(Kid(k)) OBVIOUS
  <2>1. PICK r \in UNION {Refs(pt) : pt \in tabs} : c = mem[r[1]].pte[r[2]].ppn BY DEF Below
  <2>2. PICK pt \in tabs : r \in Refs(pt) OBVIOUS
  <2>3. PICK i \in 0 .. 1 : Valid(pt, i) /\ r = <<pt, i>> BY <2>2, RefsAre
  <2>4. pt \in Frames /\ o[pt].kind = k /\ o[pt].root \in dead BY <1>3
  <2>5. c = mem[pt].pte[i].ppn BY <2>1, <2>3
  <2>6. c \in Pool /\ o[c] = [kind |-> Kid(k), root |-> o[pt].root, up |-> <<pt, i>>]
    BY <1>1, <2>3, <2>4, <2>5, RefDown
  <2>7. c \in Frames /\ o[c].kind = Kid(k) /\ o[c].root \in dead BY <2>4, <2>6, FrameKinds
  <2> QED BY <2>7
<1>4. dead \subseteq Of("root")
  <2>1. RootsAre(Now, o, Spaces \cup dead \cup {main_pt2}) BY <1>1 DEF Mems, Spaced
  <2>2. \A f \in dead : f \in Frames /\ o[f].kind = "root" BY <1>2, <2>1, FrameKinds DEF Control, RootsAre
  <2>3. \A f \in dead : o[f].root = f BY <1>2, <2>2 DEF Owned, Tree
  <2> QED BY <2>2, <2>3
<1> HIDE DEF Of
<1>5. "root" \in Tabs /\ "pt1" \in Tabs /\ Kid("root") = "pt1" /\ Kid("pt1") = "pt0" BY DEF Tabs, Kid
<1>6. Below(Tables1(dead)) \subseteq Of("pt1") BY <1>3, <1>4, <1>5 DEF Tables1
<1>7. Below(Tables0(dead)) \subseteq Of("pt0") BY <1>3, <1>5, <1>6 DEF Tables0
<1>8. ASSUME NEW pt \in Of("pt0") PROVE Refs(pt) = {}
  <2>1. GoneMapNothing(Now, o, dead) BY <1>1 DEF Mems, Spaced
  <2>2. \A j \in 0 .. 1 : mem[pt].pte[j] = null_pte BY <1>2, <2>1 DEF GoneMapNothing, Of
  <2>3. \A j \in 0 .. 1 : ~Valid(pt, j) BY <2>2, NullTyped DEF Valid
  <2> QED BY <2>3, RefsAre
<1>9. \A r : r \notin Leaves(dead) BY <1>7, <1>8 DEF Leaves
<1> QED BY <1>9 DEF DeadMapNothing

LEMMA KernelIsMapped == IInv => KernelMapped
<1> SUFFICES ASSUME IInv, NEW r \in Spaces PROVE mem[r].pte[0] = mem[main_pt2].pte[0]
  BY DEF KernelMapped
<1>1. PICK o : Mems(o) BY DEF IInv
<1>2. RootsAre(Now, o, Spaces \cup dead \cup {main_pt2}) BY <1>1 DEF Mems, Spaced
<1>3. r \in Frames /\ main_pt2 \in Frames BY SpaceFrames DEF IInv
<1>4. Now.mem[r].pte[0] = kernel_pte /\ Now.mem[main_pt2].pte[0] = kernel_pte
  BY <1>2, <1>3 DEF RootsAre
<1> QED BY <1>4 DEF Now

\* No page is freed twice, mapped twice, used as table and data at once, or lost; what has
\* exited maps nothing, and the kernel is mapped in every space: for any pool and programs.
THEOREM SpacesAreApart == Spec => []SpacesApart
<1>1. IInv => SpacesApart BY IsTyped, EachOnce, DeadAreEmpty, KernelIsMapped DEF SpacesApart
<1> QED BY <1>1, FramesAreOwned, PTL

==============================================================================
