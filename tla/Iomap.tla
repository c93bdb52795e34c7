-------------------------------- MODULE Iomap --------------------------------
(***************************************************************************)
(* The bus of the emulator: src/iomap.c keeps a table of address items     *)
(* that main fills at start-up, and sends every physical access to the     *)
(* first item that accepts it.  The items here are the two memories of     *)
(* src/memory.c, the host interface and the debug output; the CLINT, the   *)
(* PLIC and the virtio devices have modules of their own.                  *)
(*                                                                         *)
(* An address counts words of 32 bits, and uint_t has AddrBits of them: as *)
(* in the code, the end of an access wraps there.  A physical access is a  *)
(* function of the state of all items, a record s:                         *)
(*   s.ram    the words of the memory items                                *)
(*   s.htif   the registers of Htif                                        *)
(* so that an access in several parts can be put together (Mmu).           *)
(***************************************************************************)
EXTENDS Htif

CONSTANTS
    AddrBits,             \* the width of an address
    ADDRESS_ITEM_COUNT,   \* the length of address_items
    Modules,              \* the items, in the order main registers them
    BootItem,             \* the item that has to hold the boot code
    RamStart,             \* RAM_BASE_ADDR
    Images                \* what may be loaded there: sequences of words

Space == 2 ^ AddrBits
Kinds == {"memory", "htif", "debug"}
Item == [kind : Kinds, start : 0 .. Space - 1, size : 1 .. Space]

ASSUME BusAssumption ==
    /\ AddrBits \in Nat \ {0} /\ Space \in Nat \ {0} /\ ADDRESS_ITEM_COUNT \in Nat
    /\ Modules \in Seq(Item)
    /\ \A i \in DOMAIN Modules : Modules[i].start + Modules[i].size <= Space
    /\ BootItem \in Item /\ RamStart \in 0 .. Space - 1
    /\ Images \subseteq Seq(Nat)

\* What main and the drivers fix: low memory is registered first, and once, an
\* image ends before the address space does, and no device lies at its place.
ASSUME BoardAssumption ==
    /\ Modules # <<>> /\ \A i \in DOMAIN Modules : Modules[i] = BootItem <=> i = 1
    /\ BootItem.kind = "memory" /\ BootItem.start = 0 /\ BootItem.size >= 2
    /\ \A image \in Images : RamStart + Len(image) < Space
    /\ \A i \in DOMAIN Modules :
          /\ Modules[i].kind = "htif" => Modules[i].size = HTIF_SIZE
          /\ Modules[i].kind # "memory" =>
                RamStart \notin Modules[i].start .. Modules[i].start + Modules[i].size - 1

VARIABLES
    phase,           \* "register", then "running" or "exited"
    registered,      \* how many of Modules main has tried to register
    address_items,   \* the items of the table, in order
    bus              \* the state of all items: the record s

busVars == <<phase, registered, address_items, bus>>

-----------------------------------------------------------------------------
(* The table.                                                              *)

LastOf(item) == item.start + item.size - 1

check_overlap(item0, item1) ==
    ~ (item1.start > LastOf(item0) \/ item0.start > LastOf(item1))

\* The sum wraps, and it is compared with the last address instead of the one
\* behind it.
check_in(item, start, size) ==
    start >= item.start /\ (start + size) % Space <= LastOf(item)

\* Mutant: the table is not searched for an overlap.
register_address_NoOverlap(item, initOk) ==
    address_items' =
        IF Len(address_items) < ADDRESS_ITEM_COUNT /\ initOk
        THEN Append(address_items, item)
        ELSE address_items

\* An item that overlaps another or fails to initialise is left out; main goes on.
register_address(item, initOk) ==
    address_items' =
        IF /\ \A i \in DOMAIN address_items : ~ check_overlap(address_items[i], item)
           /\ Len(address_items) < ADDRESS_ITEM_COUNT
           /\ initOk
        THEN Append(address_items, item)
        ELSE address_items

-----------------------------------------------------------------------------
(* The physical accesses.                                                  *)

Refused(s) == [ok |-> FALSE, s |-> s, data |-> <<>>]
Answered(s, data) == [ok |-> TRUE, s |-> s, data |-> data]

\* memory.c: whether the end of the access lies in the memory.
check_valid(item, a, n) == (a + n + Space - item.start) % Space <= item.size

\* Outside the array (an access whose end wrapped) the contents are unknown:
\* an empty answer, and a store that leaves the modelled memory alone.
memory_read(s, item, a, n) ==
    IF ~ check_valid(item, a, n) THEN Refused(s)
    ELSE IF \E k \in 0 .. n - 1 : (a + k) % Space \notin DOMAIN s.ram THEN Answered(s, <<>>)
    ELSE Answered(s, [k \in 1 .. n |-> s.ram[(a + k - 1) % Space]])

memory_write(s, item, a, value, n) ==
    IF ~ check_valid(item, a, n) THEN Refused(s)
    ELSE Answered(
        [s EXCEPT !.ram = [b \in DOMAIN @ |->
            LET k == ((b + Space - a) % Space) + 1 IN IF k <= n THEN value[k] ELSE @[b]]],
        <<>>)

\* debug.c leaves the buffer of a load as it is, and writes up to 8 bytes.
debug_read(s) == Answered(s, <<>>)
debug_write(s, n) == IF n <= 2 THEN Answered(s, <<>>) ELSE Refused(s)

\* The places in the table whose items accept an access from a to a + n.
Accepting(a, n) == { i \in DOMAIN address_items : check_in(address_items[i], a, n) }

\* The first of them answers.
First(places) == address_items[CHOOSE i \in places : \A j \in places : i <= j]

read_item(s, item, a, n) ==
    CASE item.kind = "memory" -> memory_read(s, item, a, n)
      [] item.kind = "htif" -> Answered(s, htif_read(s.htif, a - item.start, n))
      [] item.kind = "debug" -> debug_read(s)

read_bytes(s, a, n) ==
    LET places == Accepting(a, n)
    IN  IF places = {} THEN Refused(s) ELSE read_item(s, First(places), a, n)

write_item(s, item, a, value, n) ==
    CASE item.kind = "memory" -> memory_write(s, item, a, value, n)
      [] item.kind = "htif" ->
           Answered([s EXCEPT !.htif = htif_write(@, a - item.start, value, n)], <<>>)
      [] item.kind = "debug" -> debug_write(s, n)

write_bytes(s, a, value, n) ==
    LET places == Accepting(a, n)
    IN  IF places = {} THEN Refused(s) ELSE write_item(s, First(places), a, value, n)

-----------------------------------------------------------------------------
(* Start-up.                                                               *)

BusInit ==
    /\ phase = "register" /\ registered = 0
    /\ address_items = <<>>
    /\ bus = [ram |-> <<>>, htif |-> htif_init]

\* main registers the next item; the allocation of a memory may fail.
RegisterNext ==
    /\ phase = "register" /\ registered < Len(Modules)
    /\ registered' = registered + 1
    /\ LET item == Modules[registered + 1]
       IN  \E initOk \in IF item.kind = "memory" THEN BOOLEAN ELSE {TRUE} :
               register_address(item, initOk)
    /\ UNCHANGED <<phase, bus>>

MemoryWords ==
    UNION { address_items[i].start .. LastOf(address_items[i]) :
                i \in { j \in DOMAIN address_items : address_items[j].kind = "memory" } }

\* Without the item that holds the boot code main gives up.  The image is
\* written in one piece, and nobody looks whether the write was refused.
Boot ==
    /\ phase = "register" /\ registered = Len(Modules)
    /\ IF \E i \in DOMAIN address_items : address_items[i] = BootItem
       THEN /\ phase' = "running"
            /\ \E image \in Images :
                  bus' = write_bytes([bus EXCEPT !.ram = [a \in MemoryWords |-> 0]],
                                     RamStart, image, Len(image)).s
       ELSE phase' = "exited" /\ UNCHANGED bus
    /\ UNCHANGED <<registered, address_items>>

-----------------------------------------------------------------------------
(* Whatever main registers, in whatever order, an access whose end does    *)
(* not wrap is accepted by at most one item of the table, and lies within  *)
(* it: which of the items is registered first makes no difference, and no  *)
(* handler is given an offset outside its registers.                       *)
OneItemAnswers ==
    \A a \in 0 .. Space - 1, n \in 1 .. 2 : a + n < Space =>
        \A i \in Accepting(a, n) :
            /\ Accepting(a, n) = {i}
            /\ a >= address_items[i].start /\ a + n - 1 <= LastOf(address_items[i])
=============================================================================
