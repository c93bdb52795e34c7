-------------------------------- MODULE MCMmu --------------------------------
(* An instance of Mmu for TLC: two levels of tables, pages of two words.   *)
EXTENDS Mmu

\* Low memory on page 0, RAM on pages 2 to 6, then HTIF and the debug output.
LowMemory == [kind |-> "memory", start |-> 0, size |-> 2]
Ram == [kind |-> "memory", start |-> 4, size |-> 10]
Host == [kind |-> "htif", start |-> 16, size |-> HTIF_SIZE]
DebugOutput == [kind |-> "debug", start |-> 20, size |-> 2]

\* The last one stands for a device placed on top of another.
Board == <<LowMemory, Ram, Host, DebugOutput, [kind |-> "debug", start |-> 18, size |-> 4]>>

Entry(ppn, bits) == ppn * PpnUnit + bits
RW == PTE_V + PTE_R + PTE_W
RWX == RW + PTE_X

\* Pages 2 and 3 hold data, 4 the root table, 5 the table below it.
Image(r1, l0, l1) == <<0, 0, 0, 0, Entry(5, PTE_V), r1, l0, l1>>

LargeSelf == Entry(2, RWX + PTE_U)       \* a large page, mapped to itself
Misplaced == Entry(3, RW)                \* a misaligned one
Wrapped == Entry(8, RW + PTE_U)          \* its page number loses its top bit
WriteOnly == Entry(5, PTE_V + PTE_W)     \* neither readable nor executable: a pointer
Self0 == Entry(0, RW + PTE_U)            \* mapped to itself
TableItself == Entry(5, RW + PTE_U)
Data2 == Entry(2, RW)
Data3 == Entry(3, RW + PTE_U)
Code6 == Entry(6, PTE_V + PTE_X)         \* only S runs it; its last word is refused
Device8 == Entry(8, RW + PTE_U)          \* the host interface

\* The last image is as large as RAM, which the bus refuses.
TestImages == {
    Image(LargeSelf, Data2, Data3),
    Image(Misplaced, Self0, Code6),
    Image(Wrapped, Data2, Device8),
    Image(WriteOnly, TableItself, Data3),
    Image(0, Self0, Data3),
    Image(LargeSelf, 0, Code6),
    Image(WriteOnly, Code6, Device8),
    [k \in 1 .. 10 |-> 0]}

Cpu(priv, mprv, mpp, sum, mxr, xlen, mode) ==
    [priv |-> priv, mprv |-> mprv, mpp |-> mpp, sum |-> sum, mxr |-> mxr, xlen |-> xlen, mode |-> mode]

Settings == {
    Cpu(PRIV_M, FALSE, 0, FALSE, FALSE, 5, "paged"),
    Cpu(PRIV_M, FALSE, 0, FALSE, FALSE, 4, "paged"),
    Cpu(PRIV_M, TRUE, PRIV_S, FALSE, FALSE, 5, "paged"),
    Cpu(PRIV_S, FALSE, 0, FALSE, TRUE, 5, "paged"),
    Cpu(PRIV_S, FALSE, 0, TRUE, FALSE, 5, "paged"),
    Cpu(PRIV_S, TRUE, PRIV_U, FALSE, FALSE, 5, "paged"),
    Cpu(PRIV_U, FALSE, 0, FALSE, FALSE, 5, "paged"),
    Cpu(PRIV_S, FALSE, 0, FALSE, FALSE, 5, "bare")}

Addresses == 0 .. 7 \cup {12, 13, 16, 17, 18, 20, 31}

\* For the host interface: output, input and a command without a case, each for
\* the console.  As entries of a table: a pointer, none, and a page for RW.
Output == 4 * ConsoleDevice + 1
Input == 4 * ConsoleDevice
Unknown == 4 * ConsoleDevice + 3

Stored == {<<1>>, <<Output>>, <<Input>>, <<Unknown>>, <<Unknown, Output>>, <<1, Input>>}
=============================================================================
