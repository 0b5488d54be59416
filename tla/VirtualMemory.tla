---------------------------- MODULE VirtualMemory ----------------------------
(***************************************************************************)
(* VirtualMemory (src/vmem.cc): the map from virtual to physical pages,    *)
(* the tables of the page table, and the free list both take pages from.   *)
(* All cores share it.  Latencies are left out.                            *)
(***************************************************************************)
EXTENDS Integers, Sequences

CONSTANTS Cpu,
          Vpage,            \* virtual page numbers
          pt_levels,
          pte_page_size,    \* entries of a table
          tables_per_page,  \* how many tables a physical page holds
          PageOrder         \* the free list when it is filled: populate_pages and shuffle_pages

VirtualMemoryAssumption ==
  /\ Vpage \subseteq Nat
  /\ pt_levels \in Nat \ {0} /\ pte_page_size \in Nat \ {0} /\ tables_per_page \in Nat \ {0}
  /\ PageOrder \in Seq(Nat) /\ PageOrder # <<>>
  /\ \A i, j \in 1..Len(PageOrder) : PageOrder[i] = PageOrder[j] => i = j

VARIABLES vpage_to_ppage_map,   \* <<cpu, virtual page>> to physical page
          page_table,           \* <<cpu, level, upper bits of the address>> to table
          ppage_free_list,
          active_pte_page, next_pte_page, \* where the next table goes: page and position
          refilled              \* history: the free list has run empty

maps == <<vpage_to_ppage_map, page_table>>
vmem == <<vpage_to_ppage_map, page_table, ppage_free_list, active_pte_page, next_pte_page, refilled>>

Page == {PageOrder[i] : i \in 1..Len(PageOrder)}
Level == 1..pt_levels

\* A table is a position in a page; an address of the page table is an entry of one.
Table == Page \X (0..tables_per_page - 1)
PteAddress == [table : Table, offset : 0..pte_page_size - 1]

\* How many pages an entry stands for, n levels above the lowest.
Span[n \in Nat] == IF n = 0 THEN 1 ELSE pte_page_size * Span[n - 1]

\* The bits of page v above shamt(l), and the ones level l looks at.
Prefix(v, l) == v \div Span[l - 1]
Offset(v, l) == Prefix(v, l) % pte_page_size

TableKey(c, v, l) == <<c, l, Prefix(v, l)>>
\* The root, which the constructors of the walkers ask for at address 0, and the rest.
Keys == {<<c, pt_levels, 0>> : c \in Cpu} \cup {TableKey(c, v, l) : c \in Cpu, v \in Vpage, l \in Level}

-----------------------------------------------------------------------------
Init ==
  /\ vpage_to_ppage_map = <<>> /\ page_table = <<>>
  /\ ppage_free_list = PageOrder
  /\ active_pte_page = 0 /\ next_pte_page = 0
  /\ refilled = FALSE

\* ppage_pop.  The last page taken brings all of them back.
Pop ==
  IF Len(ppage_free_list) > 1
    THEN ppage_free_list' = Tail(ppage_free_list) /\ UNCHANGED refilled
    ELSE ppage_free_list' = PageOrder /\ refilled' = TRUE

KeepPages == UNCHANGED <<ppage_free_list, refilled>>

\* What insert and try_emplace of the maps do: a key that is there keeps its value.
TryEmplace(f, x, y) == [z \in DOMAIN f \cup {x} |-> IF z \in DOMAIN f THEN f[z] ELSE y]

\* va_to_pa: the page it returns, and what it changes.
PpageFresh(c, v) == Head(ppage_free_list)  \* mutant

Ppage(c, v) ==
  IF <<c, v>> \in DOMAIN vpage_to_ppage_map THEN vpage_to_ppage_map[<<c, v>>] ELSE Head(ppage_free_list)

VaToPa(c, v) ==
  /\ vpage_to_ppage_map' = TryEmplace(vpage_to_ppage_map, <<c, v>>, Ppage(c, v))
  /\ IF <<c, v>> \in DOMAIN vpage_to_ppage_map THEN KeepPages ELSE Pop
  /\ UNCHANGED <<page_table, active_pte_page, next_pte_page>>

PagePickedOnce == IF active_pte_page = 0 THEN Head(ppage_free_list) ELSE active_pte_page  \* mutant

\* get_pte_pa.  A page is taken for tables whenever the last one is full, even
\* if the table exists.
PagePicked == IF next_pte_page = 0 THEN Head(ppage_free_list) ELSE active_pte_page

TableOf(c, v, l) ==
  IF TableKey(c, v, l) \in DOMAIN page_table THEN page_table[TableKey(c, v, l)]
                                             ELSE <<PagePicked, next_pte_page>>

PteOf(c, v, l) == [table |-> TableOf(c, v, l), offset |-> Offset(v, l)]

GetPtePa(c, v, l) ==
  /\ active_pte_page' = PagePicked
  /\ IF next_pte_page = 0 THEN Pop ELSE KeepPages
  /\ page_table' = TryEmplace(page_table, TableKey(c, v, l), TableOf(c, v, l))
  /\ next_pte_page' = IF TableKey(c, v, l) \in DOMAIN page_table
                        THEN next_pte_page ELSE (next_pte_page + 1) % tables_per_page
  /\ UNCHANGED vpage_to_ppage_map

Next == \E c \in Cpu, v \in Vpage : VaToPa(c, v) \/ \E l \in Level : GetPtePa(c, v, l)

Spec == Init /\ [][Next]_vmem
-----------------------------------------------------------------------------
(* Properties *)

\* The maps are partial functions to pages and tables, and a page can be taken.
TypeOK ==
  /\ DOMAIN vpage_to_ppage_map \subseteq Cpu \X Vpage
  /\ \A x \in DOMAIN vpage_to_ppage_map : vpage_to_ppage_map[x] \in Page
  /\ DOMAIN page_table \subseteq Keys
  /\ \A k \in DOMAIN page_table : page_table[k] \in Table
  /\ ppage_free_list \in Seq(Page) /\ ppage_free_list # <<>>
  /\ next_pte_page \in 0..tables_per_page - 1
  /\ next_pte_page # 0 => active_pte_page \in Page
  /\ refilled \in BOOLEAN

Injective(f) == \A x, y \in DOMAIN f : f[x] = f[y] => x = y
Free == {ppage_free_list[i] : i \in 1..Len(ppage_free_list)}

\* As long as the free list has not run empty, no physical page serves twice: not
\* for two virtual pages, not for a virtual page and a table, no table for two
\* keys, and no page in use is still in the free list (vmem.cc:92-150).
NoPageTwice ==
  ~refilled =>
    /\ Injective(vpage_to_ppage_map) /\ Injective(page_table)
    /\ \A x \in DOMAIN vpage_to_ppage_map, k \in DOMAIN page_table :
         vpage_to_ppage_map[x] # page_table[k][1]
    /\ \A x \in DOMAIN vpage_to_ppage_map : vpage_to_ppage_map[x] \notin Free
    /\ \A k \in DOMAIN page_table : page_table[k][1] \notin Free

\* "If a page table page does not already exist, one will be created"
\* (inc/vmem.h:112): a page leaves the free list only for a new translation or a
\* new table.
OnlyFaultsTakePages == [][ppage_free_list' # ppage_free_list => maps' # maps]_vmem
=============================================================================
