--------------------------------- MODULE Mmu ---------------------------------
(***************************************************************************)
(* Virtual memory: address_translate, the walk of the page tables and the  *)
(* loads, stores and fetches of src/iomap.c on top of the bus of Iomap.    *)
(*                                                                         *)
(* The page tables are scaled down: a page holds PageSize words and as     *)
(* many entries, an entry is one word, and there are Levels levels (three  *)
(* in Sv39, four in Sv48).  The registers that steer the translation are   *)
(* those of the hart; each access brings them along as a record cpu:       *)
(*   cpu.priv, cpu.mprv, cpu.mpp, cpu.sum, cpu.mxr   privilege, mstatus    *)
(*   cpu.xlen   the current register width                                 *)
(*   cpu.mode   of satp: "bare" or "paged"                                 *)
(***************************************************************************)
EXTENDS Iomap

CONSTANTS
    PageSize,   \* words of a page, a power of two
    Levels,     \* levels of the page tables
    PpnBits,    \* the width of a physical page number, 44 in Sv39
    Root,       \* the page number in satp
    Cpus,       \* the register settings the guest uses
    VAddrs,     \* the addresses it uses
    Values,     \* what it stores: one or two words
    MaxChanges  \* bound: the changes of the items, one of memory counting twice

PRIV_U == 0
PRIV_S == 1
PRIV_M == 3

VpnBits == CHOOSE w \in 0 .. PageSize : 2 ^ w = PageSize

\* The bits of an entry, without the global bit and the two for software.
PTE_V == 1
PTE_R == 2
PTE_W == 4
PTE_X == 8
PTE_U == 16
PTE_A == 32
PTE_D == 64
PpnUnit == 128

Has(pte, bit) == (pte \div bit) % 2 = 1
With(pte, bit) == IF Has(pte, bit) THEN pte ELSE pte + bit
PpnOf(pte) == (pte \div PpnUnit) % 2 ^ PpnBits
IsLeaf(pte) == Has(pte, PTE_R) \/ Has(pte, PTE_X)

ASSUME MmuAssumption ==
    /\ PageSize \in Nat \ {0} /\ 2 ^ VpnBits = PageSize
    /\ Levels \in Nat \ {0}
    /\ Levels * VpnBits <= PpnBits /\ Root \in 0 .. 2 ^ PpnBits - 1
    /\ 2 ^ PpnBits * PageSize <= Space
    /\ VAddrs \subseteq 0 .. Space - 1
    /\ Values \subseteq Seq(Nat) /\ \A value \in Values : Len(value) \in 1 .. 2
    /\ MaxChanges \in Nat
    /\ Cpus \subseteq [priv : 0 .. 3, mprv : BOOLEAN, mpp : 0 .. 3, sum : BOOLEAN,
                       mxr : BOOLEAN, xlen : 1 .. AddrBits, mode : {"bare", "paged"}]

\* What there is to know about powers: the provers do not know it.
ASSUME PageAssumption ==
    /\ 2 ^ PpnBits \in Nat \ {0}
    /\ \A w \in 1 .. AddrBits : 2 ^ w \in Nat \ {0}
    /\ PageSize ^ 0 = 1 /\ \A i \in 0 .. Levels - 1 : PageSize ^ (i + 1) = PageSize ^ i * PageSize
    /\ \A i \in 0 .. Levels :
          /\ PageSize ^ i \in Nat \ {0} /\ 2 ^ (PpnBits - VpnBits * i) \in Nat \ {0}
          /\ 2 ^ (PpnBits - VpnBits * i) * PageSize ^ i = 2 ^ PpnBits

\* The registers of the host interface begin a page, and every register width
\* is of whole pages.
ASSUME AlignAssumption ==
    /\ PageSize > 1
    /\ \A i \in DOMAIN Modules : Modules[i].kind = "htif" => Modules[i].start % PageSize = 0
    /\ \A cpu \in Cpus : 2 ^ cpu.xlen % PageSize = 0

VARIABLE changes    \* how much the accesses have changed

memVars == <<busVars, changes>>

Vpn(va, i) == (va \div PageSize ^ (i + 1)) % PageSize

-----------------------------------------------------------------------------
(* The walk.                                                               *)

\* The walk before its first level.
Start == [on |-> TRUE, found |-> FALSE, level |-> Levels, at |-> 0, pte |-> 0, base |-> Root]

\* The walk w one level further down, at level i.  The result of a read is not
\* looked at: an entry that cannot be read keeps the value of the level above.
Down(s, va, w, i) ==
    LET at == w.base * PageSize + Vpn(va, i)
        data == read_bytes(s, at, 1).data
        pte == IF data = <<>> THEN w.pte ELSE data[1]
    IN  [on |-> Has(pte, PTE_V) /\ ~ IsLeaf(pte), found |-> Has(pte, PTE_V) /\ IsLeaf(pte),
         level |-> i, at |-> at, pte |-> pte, base |-> PpnOf(pte)]

\* The leaf that decides about va, if the walk has found one.
Leaf(s, va) ==
    LET walk[k \in 0 .. Levels] ==
          IF k = 0 THEN Start
          ELSE LET w == walk[k - 1] IN IF w.on THEN Down(s, va, w, Levels - k) ELSE w
    IN  walk[Levels]

PrivilegeOk(cpu, priv, pte) ==
    IF priv = PRIV_S THEN Has(pte, PTE_U) => cpu.sum ELSE Has(pte, PTE_U)

AccessOk(cpu, pte, access) ==
    Has(pte, access) \/ (access = PTE_R /\ cpu.mxr /\ Has(pte, PTE_X))

\* Mutant: the dirty bit is set by every access.
Marked_Dirty(pte, access) == With(With(pte, PTE_A), PTE_D)

\* The entry after the access: accessed, and dirty when it was a store.
Marked(pte, access) ==
    IF access = PTE_W THEN With(With(pte, PTE_A), PTE_D) ELSE With(pte, PTE_A)

\* A page of level i takes the lower i page numbers from the address.  The
\* mask that should drop their bits from the entry drops as many from the top
\* (the shift by a mask counts modulo 64).
PageOf(va, i, pte) ==
    IF i = 0 THEN PpnOf(pte)
    ELSE (PpnOf(pte) % 2 ^ (PpnBits - VpnBits * i)) + ((va \div PageSize) % PageSize ^ i)

Misaligned(i, pte) == PpnOf(pte) % PageSize ^ i # 0

NoTranslation(s) == [ok |-> FALSE, pa |-> 0, s |-> s]

\* With the entry pte to be left in the place of the leaf.  It is written back
\* before the alignment of a large page is checked.
MarkAndPlace(s, leaf, pte, va) ==
    LET marked == IF pte = leaf.pte THEN s ELSE write_bytes(s, leaf.at, <<pte>>, 1).s
    IN  IF Misaligned(leaf.level, pte) THEN NoTranslation(marked)
        ELSE [ok |-> TRUE, s |-> marked,
              pa |-> PageOf(va, leaf.level, pte) * PageSize + (va % PageSize)]

UseLeaf(s, cpu, priv, va, access, leaf) ==
    IF ~ leaf.found \/ ~ PrivilegeOk(cpu, priv, leaf.pte) \/ ~ AccessOk(cpu, leaf.pte, access)
    THEN NoTranslation(s)
    ELSE MarkAndPlace(s, leaf, Marked(leaf.pte, access), va)

translate_action(s, cpu, priv, va, access) == UseLeaf(s, cpu, priv, va, access, Leaf(s, va))

\* Mutant: fetches, too, use the privilege in MPP.
EffectivePriv_AlsoFetch(cpu, access) == IF cpu.mprv THEN cpu.mpp ELSE cpu.priv

EffectivePriv(cpu, access) == IF cpu.mprv /\ access # PTE_X THEN cpu.mpp ELSE cpu.priv

address_translate(s, cpu, va, access) ==
    LET priv == EffectivePriv(cpu, access)
    IN  IF priv = PRIV_M THEN [ok |-> TRUE, pa |-> va % 2 ^ cpu.xlen, s |-> s]
        ELSE IF cpu.mode = "bare" THEN [ok |-> TRUE, pa |-> va, s |-> s]
        ELSE translate_action(s, cpu, priv, va, access)

-----------------------------------------------------------------------------
(* Loads, stores and fetches: what read_vaddr, write_vaddr and code_vaddr  *)
(* return, and the exception they leave for the hart.                      *)

Done(s, data) == [ok |-> TRUE, s |-> s, data |-> data]
Faults(s, cause, tval) == [ok |-> FALSE, s |-> s, cause |-> cause, tval |-> tval]

Physical(s, pa, access, value, n) ==
    IF access = PTE_W THEN write_bytes(s, pa, value, n) ELSE read_bytes(s, pa, n)

Reported(r, cause, va) == IF r.ok THEN Done(r.s, r.data) ELSE Faults(r.s, cause, va)

\* Where translation is the identity a refusal is an access fault, otherwise it
\* is reported as a page fault.
Whole(t, va, access, value, n) ==
    Reported(Physical(t.s, t.pa, access, value, n), IF t.pa = va THEN "access" ELSE "page", va)

Room(va) == PageSize - (va % PageSize)

\* Mutant: a fault of the second page is not reported.
SecondPart_Lost(t, va, access, value, n) ==
    IF ~ t.ok THEN Done(t.s, <<>>)
    ELSE Reported(Physical(t.s, t.pa, access, value, n), "page", va)

\* The rest of an access that crosses a page; its failure is always a page fault.
SecondPart(t, va, access, value, n) ==
    IF ~ t.ok THEN Faults(t.s, "page", va)
    ELSE Reported(Physical(t.s, t.pa, access, value, n), "page", va)

Joined(first, second) ==
    IF second.ok THEN Done(second.s, first.data \o second.data) ELSE second

\* The first part has been made when the second one fails.
AfterFirst(first, cpu, va, access, value, n) ==
    LET next == (va + Room(va)) % Space
    IN  IF ~ first.ok THEN Faults(first.s, "page", va)
        ELSE IF first.s.htif.power # "on" THEN Done(first.s, <<>>)
        ELSE Joined(first, SecondPart(address_translate(first.s, cpu, next, access), next, access,
                                      SubSeq(value, Room(va) + 1, n), n - Room(va)))

\* An access whose first page is mapped to itself is not split.
MakeAccess(t, cpu, va, access, value, n) ==
    IF ~ t.ok THEN Faults(t.s, "page", va)
    ELSE IF t.pa = va \/ Room(va) >= n THEN Whole(t, va, access, value, n)
    ELSE AfterFirst(Physical(t.s, t.pa, access, SubSeq(value, 1, Room(va)), Room(va)),
                    cpu, va, access, value, n)

vaddr(s, cpu, va, access, value, n) ==
    MakeAccess(address_translate(s, cpu, va, access), cpu, va, access, value, n)

-----------------------------------------------------------------------------
(* The guest makes accesses of one or two words.  A fetch is of two, which *)
(* stand for the halves of its four bytes: they may be on different pages. *)

Quiet(s) == [s EXCEPT !.htif.printed = NoChar]

Access(cpu, va, access, value, n) ==
    /\ phase = "running" /\ bus.htif.power = "on"
    /\ bus' = vaddr(Quiet(bus), cpu, va, access, value, n).s
    /\ changes' = changes + (IF bus'.ram # bus.ram THEN 2 ELSE IF bus' # Quiet(bus) THEN 1 ELSE 0)
    /\ changes' <= MaxChanges
    /\ UNCHANGED <<phase, registered, address_items>>

Load == \E cpu \in Cpus, va \in VAddrs, n \in 1 .. 2 : Access(cpu, va, PTE_R, <<>>, n)

Store == \E cpu \in Cpus, va \in VAddrs, value \in Values :
    Access(cpu, va, PTE_W, value, Len(value))

Fetch == \E cpu \in Cpus, va \in VAddrs : Access(cpu, va, PTE_X, <<>>, 2)

Init == BusInit /\ changes = 0
Next ==
    \/ RegisterNext /\ UNCHANGED changes
    \/ Boot /\ UNCHANGED changes
    \/ Load
    \/ Store
    \/ Fetch
Spec == Init /\ [][Next]_memVars

-----------------------------------------------------------------------------
(* The page tables as a whole, worked out from the root instead of from an *)
(* address: the tables of a level are the root or the pages that pointers  *)
(* of the level above lead to, each for a prefix of the virtual page       *)
(* numbers; every other valid entry maps the pages below its own prefix.   *)

\* The memory words a load can reach: the bus refuses the last of an item.
Reachable ==
    UNION { address_items[i].start .. LastOf(address_items[i]) - 1 :
                i \in { j \in DOMAIN address_items : address_items[j].kind = "memory" } }

EntriesOf(table, i) ==
    { [level |-> i, at |-> table.page * PageSize + k, prefix |-> table.prefix * PageSize + k] :
          k \in { m \in 0 .. PageSize - 1 : table.page * PageSize + m \in Reachable } }

IsPointer(pte) == Has(pte, PTE_V) /\ ~ IsLeaf(pte)

\* The tables that the pointers in tables of level i lead to.
PointedBy(s, tables, i) ==
    LET pointers == { e \in UNION { EntriesOf(t, i) : t \in tables } : IsPointer(s.ram[e.at]) }
    IN  { [page |-> PpnOf(s.ram[e.at]), prefix |-> e.prefix] : e \in pointers }

\* The tables k levels below the root.
Tables(s) ==
    LET tables[k \in 0 .. Levels - 1] ==
          IF k = 0 THEN {[page |-> Root, prefix |-> 0]}
          ELSE PointedBy(s, tables[k - 1], Levels - k)
    IN  tables

EntriesAt(s, k) == UNION { EntriesOf(t, Levels - 1 - k) : t \in Tables(s)[k] }

Entries(s) == UNION { EntriesAt(s, k) : k \in 0 .. Levels - 1 }

LeafEntries(s) == { e \in Entries(s) : Has(s.ram[e.at], PTE_V) /\ IsLeaf(s.ram[e.at]) }

\* The leaf entries for the page of va: one or none.
LeavesFor(leaves, va) ==
    LET vpn == (va \div PageSize) % PageSize ^ Levels
    IN  { e \in leaves : vpn \div PageSize ^ e.level = e.prefix }

\* U mode has its own pages, S mode the others and with SUM all of them.
AllowedFor(cpu, priv, pte, access) ==
    /\ Has(pte, PTE_U) => priv # PRIV_S \/ cpu.sum
    /\ ~ Has(pte, PTE_U) => priv = PRIV_S
    /\ \/ Has(pte, access)
       \/ access = PTE_R /\ Has(pte, PTE_X) /\ cpu.mxr

\* A page of level i begins at a multiple of its size, and its page number
\* fits where the walk keeps it.
WellPlaced(e, pte) == PpnOf(pte) % PageSize ^ e.level = 0
InReach(e, pte) == PpnOf(pte) < 2 ^ (PpnBits - VpnBits * e.level)

\* The physical address of an address of a large or a small page.
AddressIn(e, pte, va) ==
    LET words == PageSize ^ (e.level + 1)
    IN  PpnOf(pte) * PageSize + (va % words)

Translated(cpu, access) ==
    /\ cpu.mode = "paged"
    /\ IF access = PTE_X \/ ~ cpu.mprv THEN cpu.priv # PRIV_M ELSE cpu.mpp # PRIV_M

RightsOf(cpu, access) == IF access # PTE_X /\ cpu.mprv THEN cpu.mpp ELSE cpu.priv

Accesses == {PTE_R, PTE_W, PTE_X}

\* Translation is total and exact: an address is translated if and only if one
\* leaf of the tables maps it, is aligned and allows the access to the mode
\* that makes it, and then to that address of the page; fetches ignore MPRV.
TranslationAgrees ==
    phase = "running" =>
    LET leaves == LeafEntries(bus)
    IN  \A cpu \in Cpus, va \in VAddrs, access \in Accesses : Translated(cpu, access) =>
          LET mapped == LeavesFor(leaves, va)
              t == address_translate(bus, cpu, va, access)
              allowed == { e \in mapped : WellPlaced(e, bus.ram[e.at])
                             /\ AllowedFor(cpu, RightsOf(cpu, access), bus.ram[e.at], access) }
          IN  /\ t.ok <=> allowed # {}
              /\ \A e \in allowed : InReach(e, bus.ram[e.at]) =>
                     t.pa = AddressIn(e, bus.ram[e.at], va)

BitsOf(pte) == { b \in {PTE_V, PTE_R, PTE_W, PTE_X, PTE_U, PTE_A, PTE_D} : Has(pte, b) }

\* A walk writes at most one word, the leaf that maps the address; it only adds
\* the accessed bit, and the dirty bit for a store; and a translation that
\* succeeds leaves them set, so that no page is used without a trace in it.
WalkMarksLeaf ==
    phase = "running" =>
    LET leaves == LeafEntries(bus)
    IN  \A cpu \in Cpus, va \in VAddrs, access \in Accesses : Translated(cpu, access) =>
          LET t == address_translate(bus, cpu, va, access)
              needed == {PTE_A} \cup (IF access = PTE_W THEN {PTE_D} ELSE {})
              written == { a \in DOMAIN bus.ram : t.s.ram[a] # bus.ram[a] }
          IN  /\ \A a \in written :
                    /\ \E e \in LeavesFor(leaves, va) : e.at = a
                    /\ PpnOf(t.s.ram[a]) = PpnOf(bus.ram[a])
                    /\ BitsOf(t.s.ram[a]) = BitsOf(bus.ram[a]) \cup needed
              /\ t.ok => \E e \in LeavesFor(leaves, va) : needed \subseteq BitsOf(t.s.ram[e.at])

\* Where the words of a store go: behind the first one on its page, and the
\* rest through the next page, unless the first page is mapped to itself.
Target(cpu, va, k) ==
    LET first == address_translate(bus, cpu, va, PTE_W)
        second == address_translate(bus, cpu, (va + Room(va)) % Space, PTE_W)
    IN  IF k < Room(va) \/ first.pa = va THEN (first.pa + k) % Space
        ELSE second.pa + k - Room(va)

\* A store that is told to be done has put every word where the translation of
\* that word leads and nothing anywhere else but marks of the walk; one that
\* faults names the page that failed, and has written the words before that
\* page and no others: repeating it after the trap is safe.  Stores into the
\* page tables themselves are left out.
StoreLands ==
    phase = "running" /\ bus.htif.power = "on" =>
    LET tables == { e.at : e \in Entries(bus) }
    IN  \A cpu \in Cpus, va \in VAddrs, value \in Values :
          LET n == Len(value)
              target == [k \in 0 .. n - 1 |-> Target(cpu, va, k)]
              r == vaddr(Quiet(bus), cpu, va, PTE_W, value, n)
              done == IF r.ok THEN 0 .. n - 1
                      ELSE { k \in 0 .. n - 1 : r.tval # va /\ k < Room(va) }
          IN  (\A k \in 0 .. n - 1 : target[k] \notin tables) =>
              /\ \A b \in DOMAIN bus.ram \ tables :
                    IF \E k \in done : target[k] = b
                    THEN \E k \in done : target[k] = b /\ r.s.ram[b] = value[k + 1]
                    ELSE r.s.ram[b] = bus.ram[b]
              /\ ~ r.ok => /\ r.tval \in {va, (va + Room(va)) % Space}
                           /\ r.cause = "access" => target[0] = va

\* Output and input, the commands that the console knows.
ConsoleCommand(half) == DeviceOf(half) = ConsoleDevice /\ CmdOf(half) \in {0, 1}

\* Output to the console, or input from it, is taken out of tohost by the access
\* that stores it, whichever way the access reaches the registers (in one part
\* or in two, or as the mark of a walk whose tables lie there), so that the guest
\* never finds such a command waiting; a command that the console does not know
\* is left where it is.  And the emulator never ends with status 0: the store of
\* the low half that would ask for it ends it with status 1 before that.
HtifAnswered ==
    ~ ConsoleCommand(bus.htif.tohost[2]) /\ bus.htif.power # "exit 0"
=============================================================================
