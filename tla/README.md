# space_emu in TLA+

space_emu is a RISC-V system emulator: one 64-bit hart with M, S and U modes, a CLINT timer,
a PLIC, two virtio devices (console and block) and an HTIF port. This directory holds TLA+
modules that model the emulator's control logic, TLC configurations that check them on small
instances, and proofs about them for TLAPS. `PROJECT.json` maps every definition that models
code to the lines it models.

    tlc -config MCHart_irq.cfg MCHart.tla        # a run
    tlapm HartProofs.tla                         # the proofs of a module

## The system

`main` (space.c) resets the hart, registers the devices with the address map, and then calls
`machine_loop` for ever. Everything happens in that one thread, except for two things: the
clock runs, and the handler of SIGWINCH sets a flag.

| Part | State | Operations | Talks to |
|---|---|---|---|
| hart: regs.c | privilege, `xlen`, mstatus, mie, mip, mideleg, medeleg, epc and tvec registers, `power_down_flag` | `csr_read`, `csr_write`, `raise_exception`, `raise_interrupt`, `handle_sret`, `handle_mret`, `set_priv`, `set_mip`, `reset_mip` | every device, through mip |
| instructions: instructions.c | pc, registers, `load_res` | `fetch_inst`, `decode_inst`, `machine_loop` | hart, address map, console |
| address map: iomap.c, memory.c | `address_items`, RAM | register, read and write by physical address, translate and access by virtual address | every device |
| PLIC: plic.c | pending and served words | `plic_set_irq`, claim (a read), complete (a write) | mip |
| CLINT: clint.c, and `machine_get_sleep_duration` | `mtimecmp`, start of time | stores and loads by halves, comparison | mip |
| virtio: virtio_interface.c | status, features, queues, `int_status`, config space | register reads and writes, notify, completion, resize event | PLIC lines, guest memory, block device, console |
| block device: virtio_block_device.c | sector table of the snapshot overlay | `bf_read_async`, `bf_write_async` | a file |
| console: console.c | `resize_pending`, `console_esc_state` | signal handler, read, write, size | terminal |
| HTIF, debug: htif.c, debug.c | tohost, fromhost | stores by halves, command | console |
| device tree: fdt.c | a buffer | written once at start | - |
| GUI: space_gui | shared memory with a lock byte | - | no code of the emulator |

Not in the build: pci.c and ipc.c. Taken over from TinyEMU or third parties: softfp, cutils,
pyqterm.

What is hard in it:

- *Sleeping.* WFI tests `mip & mie` once; after that only `set_mip` can wake the hart. Every
  device and the timer raise their bits through it, at places far from each other.
- *Nesting.* mstatus holds one saved context per level. Traps to M may interrupt S handlers
  anywhere, and mret and sret may be executed in any order.
- *Views.* sstatus, sie and sip are masks over registers of M. mideleg decides what S sees.
- *Cached state.* `xlen` caches the width of the privilege; MEIP and SEIP cache the state of
  the PLIC; a PLIC line caches `int_status`.
- *Halves.* mtime and mtimecmp are 64 bits wide and are accessed by 32-bit halves.
- *Shared rings.* Driver and device count on their own through rings and indices that wrap, and a
  reset must bring both back to the start.
- *Accesses in parts.* A load or a store walks page tables that lie in the memory it accesses,
  marks an entry, may cross into a second page and may fault there after the first half is done.
- *Instructions in parts.* An instruction may fault after it has read memory, and may name one
  register as operand and result; nothing undoes what it has written before the fault.
- *Outside events.* The clock passes and SIGWINCH arrives between any two steps.

The full list of hazards, each at its line, is in `PROJECT.json`.

## Modules

    Mip  <- Hart  <- HartResume            MCHart, MCHartResume, HartProofs
         <- Clint <- Timer                 TimerProofs
         <- Plic  <- VirtioIrq
    Machine = Hart + Clint + VirtioIrq     MCMachine, MachineProofs
    BlockQueue = Virtqueue + DescChain + BlockDevice, implements BlockService
                                           MCBlockQueue, BlockQueueProofs <- BlockServiceProofs
    Htif <- Iomap <- Mmu                          MCMmu, MmuProofs
    MulDiv <- Alu
    Exec = Alu + Rvc                              MCExec, ExecProofs
    DivMod                                        lemmas about \div and %, for the proofs

**Mip** declares mie, mip and `power_down_flag` and the two inline functions of regs.h. A word
is the set of its bit numbers. The modules of the hart and the devices share these variables as
the code shares `cpu_state`.

**Hart** is the hart with abstract peripherals. `machine_loop` is split into four phases
(variable `step`): the timer comparison, the console poll, the interrupt check and the
instruction. Each phase runs to completion in the code, and what the peripherals may do in
between is left open: the timer may be due or not, a poll may move the external bits, a store
to a device may do so or clear MTIP. mstatus is kept by field; its interrupt enables are the set
`ie` of privileges, because the code selects them with `(mstatus >> priv) & 1`. This makes one
peculiarity explicit that the properties depend on: MPIE and SPIE save the enable of the
*interrupted privilege*, and mret and sret restore it to the privilege they return to. There is
one action for each write of a control register that matters to traps, and one each for ecall,
sret, mret, wfi, a faulting instruction, a device access and every other instruction.

**HartResume** adds two history variables that remember the context each level's last trap
interrupted, and states what a handler's return gives back.

**Clint** has the two halves of mtime and mtimecmp and the signed comparison. `Half` is the
number of values of a half word. `clint_write_low` clears the high half, as the code does: the
mask `~0xffffffff` in `clint_write_sub` is a 32-bit zero. **Timer** adds a guest driver (it is
not code of the repository) that moves deadlines, reads the clock, enables its interrupt and
sleeps. It stores a deadline with one doubleword store or low half first.

**Plic** has the pending and served words; the only source of MEIP and SEIP is
`plic_update_mip`. **VirtioIrq** has the interrupt status of both virtio devices and the events
that raise and drop their lines; of the queues it keeps only whether the console can take data.

**Machine** puts Hart, Clint and VirtioIrq together: the phases of the loop call the devices,
guest accesses reach them, and the clock and SIGWINCH act on their own. It implements Hart.

**Virtqueue** has the device's side of one queue, the two rings in guest memory and the loop of
`queue_notify`, one action per iteration; `loop_avail` is the loop's copy of the available index,
and the guest does nothing while it is set. **DescChain** has the two walks over a chain. They are
described by the places of the bytes they touch, where the code copies piece by piece: pieces that
follow each other in the chain have consecutive places. **BlockDevice** is the snapshot overlay.
**BlockQueue** puts them together as `virtual_block_recv_request` and `virtual_block_req_end` and
adds a guest driver, which is not code of the repository: it keeps at most as many chains under way
as the ring has slots, acknowledges before it looks at the used ring, and asks only for sectors the
disk has when it reads. Both functions of the disk return at once, so `req_in_progress` never
becomes true and the completion callback is never called; neither is in the model. `desc_idx` of
`queue_notify` is read from the ring into the lower half of an uninitialised `int`: `upper` is what
the upper half happens to hold. A nonzero one makes the behaviour undefined; `clean` records it and
the properties speak of what comes before.

**BlockService** is what the driver may count on: a queue of requests, a queue of answers and an
array of sectors. It promises nothing about the contents after a write whose header and data are in
separate buffers, only that no other sector changes. The run block_writes shows why: the size of
such a write is taken from its last descriptor alone (virtio_interface.c:167) and its data from one
header further on (:109), so a write of one sector is answered with OK and stores nothing, although
the guest is told to mount the disk "rw" (space.c:21).

**Htif** has the two registers of the host port, by halves, as functions on a record, because a
store to them may be one part of a larger access. Storing the low half clears the high half (the
mask is a 32-bit zero, htif.c:106), so the command word 1 that would end the emulator with status 0
ends it with status 1 as soon as its low half is stored. The high half is scaled to two command bits
below the device number (the code has eight of each): output and input are commands that the console
knows, and the others reach the last branch of `htif_cmd_handler` (htif.c:32), which reports them and
leaves them in `tohost`.

**Iomap** is the table of address items, its registration at start-up and the dispatch of physical
accesses; the items are the two memories of memory.c, HTIF and the debug output. An address counts
32-bit words and wraps at `AddrBits`. `check_in` compares the end of an access with the *last*
address of an item, so the last word of every memory cannot be accessed; the model has that, and an
image as large as RAM is silently refused (`Boot`).

**Mmu** puts the page walk, the translation and the loads, stores and fetches on top of it. The walk
(`Leaf`) is a recursive function over the levels with the page tables read through the bus, so that
tables may lie in HTIF or nowhere; an entry that cannot be read keeps the value of the level above.
In a fetch a word stands for two of the four bytes of the code, since a fetch, too, may cross a page.
A translated access returns the state after it: the mark in the leaf, the first part of a crossing
access, the second part or its fault. An access whose first page is mapped to itself is not split
at the page (iomap.c:370). The properties compare this with a *reference translation* that
works the other way round: it collects all tables and leaf entries from the root (`LeafEntries`) and
asks which of them maps an address and allows the access.

**MulDiv** and **Alu** have what the integer and the AMO instructions compute, as the code
computes it: `mulhu` from half words with explicit carries, the signed forms from it, division with
its cases, the 32-bit forms on the lower half. `Agrees` says what each operation is for as a
relation between operands and result, by integers and by sets of bits.

**Rvc** has the instruction as a record of fields and the three quadrants of compressed
instructions, each expanded to the full one it stands for, with the encodings that two instructions
share (c.lui and c.addi16sp; c.jr, c.jalr, moves and c.ebreak).

**Exec** is `fetch_inst` and `decode_inst` for everything unprivileged: one action per class of
instruction, with each way it may raise an exception. Memory is left open here (Mmu has it), and so
are the results of floating-point operations; `fs`, `frm` and the flags are kept. `granted` is a
history variable: the address of the last lr, until a conditional store has succeeded.

Definitions marked *Mutant* are plausible bugs. Each is used to make sure that a property would
notice it; no specification uses them.

## Runs

| Run | Question | Distinct states |
|---|---|---|
| hart_interrupts (MCHart_irq) | Over every order of traps, returns, WFI, device events and writes of mstatus, sstatus, mie, sip, mideleg: is a wakeup lost, does an instruction run ahead of an interrupt, does machine state leak, does an interrupt go to the wrong level? | 367 348 |
| hart_widths (MCHart_width) | With every value of MXL, SXL and UXL, legal or not, and all four values of MPP: does `xlen` follow the privilege, and can S reach SXL? | 683 184 |
| hart_timer_taken (MCHart_live) | Is an enabled timer interrupt taken below M, whatever S does with SSIP? | 24 556 |
| hart_resume (MCHartResume) | Do handlers return to what they interrupted, S handlers also when M handlers interrupt them? | 2 815 040 |
| timer (Timer) | Do deadlines, clock reads and sleeping work by halves? | 77 291 |
| machine_devices (MCMachine_devices) | Do device status, PLIC and mip agree; does the machine implement Hart? | 605 772 |
| machine_timer (MCMachine_timer) | Is a sleeping hart woken by the timer in the whole machine, also with a guest that overwrites SEIP? | 219 440 |
| block_disk (MCBlockQueue_disk) | Does the block device behind its rings implement the service: every request once, in order, with the right contents; is every completion announced, over resets and wrapping indices? | 634 223 |
| block_progress (MCBlockQueue_live) | Is a write answered that waits behind unknown and malformed requests? | 35 234 |
| block_writes (MCBlockQueue_writes) | Does a write answered with OK store its data in either layout? It does not. | (violation) |
| memory (MCMmu) | Does every access, by whatever privilege and through whatever tables, go where the tables say and nowhere else; is a fault half-way repeatable; does one item answer; does HTIF answer output and input at once? | 1 129, each with 8 x 15 x 3 translations and 720 stores tried |
| instructions (MCExec) | Are exceptions precise, jumps and reservations right and the floating-point state marked, in every order of instructions and faults; does every operation compute what it is for? | 1 474 560 |

### Bounds

- *Interrupt bits.* `IrqBits` is {1, 7, 9}: one software interrupt that can be delegated, the
  timer, which cannot, and the external one, whose bit the PLIC drives. The others (3, 5) behave as
  one of these.
- *Exceptions.* `ExcCodes` has an illegal instruction and an ecall: delegated and not.
- *mstatus values.* `MstatusValues` fixes the fields a run does not ask about; the fields that
  traps write still take every value by themselves.
- *Addresses.* One where no property follows the program counter, two where it does
  (hart_resume): a saved address can then be told from the current one.
- *GuestCsrs* names the registers the guest of a run writes; between them the runs write all.
- *Time.* `Half` is 8 in Timer with a clock to 31 and deadlines with a zero and a nonzero part in
  each half, so that the low half wraps while a deadline is pending. `MaxTime` bounds the clock in
  every model that has one; `DeadlineAssumption` and `MachineAssumption` keep it below half the
  range, which for the code means fewer than 2^63 ticks of 100 ns.
- *Rings.* Two heads, rings of one and two slots and four index values: the slots wrap twice before
  the indices do, and a full ring is told from an empty one. The heads are symmetric.
- *Disk.* Two sectors of two bytes and a header of one byte: what matters of the real sizes (512 and
  16) is that the header is shorter than a sector. Writes overlap, end at the end of the disk and
  pass it. block_progress has one request of each fate.
- *Memory.* Pages of two words and two levels of tables: an entry of level 1 is a large page or a
  pointer. The eight images have pages mapped to themselves, to each other's tables and to HTIF,
  aligned and misaligned large pages, pages for U, S and execution only, and a page number that the
  mask of large pages truncates. `Settings` covers the combinations of privilege, MPRV, MPP, SUM and
  MXR that the walk tells apart. What the guest stores is output, input or an unknown command for
  the console, or the word 1, in one half or in two. After start-up it changes memory once or a
  device twice (`MaxChanges`); the invariants try every access from each state, so that longer
  histories add only other contents of the same tables. One of the five items overlaps another, and
  each memory may fail to be allocated.
- *Registers.* Four bits, so that a half word has two, and shifts, carries, the most negative number
  and the quotient that overflows all occur; the stack pointer starts at 15 and at 8, the other
  register takes every value the guest computes. 73 words: each class with its operand and result in
  the same register, in x0, and with the fields that are refused.
- Machine has both devices where their interaction matters and one where it does not.

### Fairness

Hart assumes weak fairness of Next: `main` calls `machine_loop` for ever and its `select` has a
timeout of at most `MAX_DELAY_TIME`. TimerInterruptTaken needs no more, because the turn of the
loop is fixed and lower-numbered interrupts that S takes disable themselves with SIE. Machine
assumes it of the thread and of the clock separately. Timer does not have the turn of the loop,
so it states what the turn gives: the comparison runs again and again (strong fairness, since a
load under way holds it up) and a load that has begun ends. Nothing is assumed of the guest there.
BlockQueue assumes that the loop of `queue_notify` goes on, which is part of the store
that starts it, and of the driver that it notifies what it has submitted and handles interrupts; it
may reset the device at any time. Mmu and Exec state no fairness: their properties are about
single accesses and steps.

## Proofs

**HartProofs** proves the safety properties of Hart for every set of addresses, mstatus values,
interrupt bits and exceptions, from AddrAssumption and GuestAssumption. The inductive invariant is

    HartInv == TypeOK /\ XlenTracksPriv /\ SleepingHasNoWakeup /\ ExecHasNoDueInterrupt

SleepingHasNoWakeup is not inductive alone: an instruction may write mie or mip without waking the
hart, which is right only because a hart that executes is awake. That is a conjunct of
ExecHasNoDueInterrupt, which in turn is established by the interrupt check (SkipInterrupt) and is
vacuous in the other phases. Traps are dealt with once (TrapStep, TrapSaves), whether they come
from an interrupt, an ecall or a fault. The action properties (Confinement, SavedPrivilege,
InterruptOwnership) follow from HartInv and one step.

The second part of the module is about HartResume, whose steps are steps of Hart (ResumeRefines), so
that HartInv is at hand. A history variable only shows something if it is tied to the state that the
return reads, and that is the invariant

    MframeKept: a frame of M exists only in M mode, and then holds what mepc, MPP, MPIE say, the
                width that MPP selects, and the S state
    SframeKept: the same for a frame of S, which outlives every trap to M

One field is not simply copied: while an M handler that interrupted S runs, the interrupt enable of S
is what mret will restore from MPIE; at any other time it is the bit of S itself (SupervisorKept).
MretResumes and SretResumes are then one step each.

**MachineProofs** proves that Machine implements Hart: every device operation moves mip in one of
the ways Hart leaves open, the others are stuttering steps. With HartInv it gets the invariant of
the interrupt words

    WordsInv == PlicTypeOK /\ VirtioTypeOK /\ LineFollowsStatus /\ BitsFollowPlic

`plic_update_mip` establishes the external bits whatever they were (UpdateSetsBits), so only the
steps that do not go through it need an argument: no mask lets the guest write MEIP
(HartKeepsMEIP), and SEIP is exact under the assumption GuestSparesSEIP. SleepIsQuiet combines
WordsInv with SleepingHasNoWakeup. MachineTypeCorrect adds the registers of the CLINT, whose stores
by halves stay within a doubleword.

**TimerProofs** proves the four invariants of Timer for every width of a half word, from
DeadlineAssumption and the assumptions of Clint. What is hard is the arithmetic of halves: that
storing the halves of a doubleword in either of the driver's ways gives the doubleword, and that the
signed comparison of wrapped differences is the comparison of the times. The lemmas on quotients and
remainders are in **DivMod**, which has them from the definition of `\div` and `%` for a divisor that
is a variable, where the provers know nothing. It also has the principle of induction in a form the
provers can use, over the set of the numbers for which something holds (Induct): the library's theorem
takes an operator, which they cannot instantiate, but a set of natural numbers without a smallest member
is empty because the order on them is well-founded.

**BlockQueueProofs** proves, for every size of the rings and every set of requests, that a chain is
owned once and that a completion is announced. Both follow from

    RingInv == the types, and, while the behaviour is defined,
               before set-up nothing is under way;
               after it: num is the driver's ring size, the loop of the device runs to at most what
               the driver has made available, the heads that wait and those that are answered
               together own different members of Busy, which is no larger than the ring;
               an unseen completion is announced

The size of Busy is what keeps the rings from being overrun: from it follows that each window of
entries is shorter than its ring (OwnedBound, RingsWithinBounds), so that an entry is stored outside the window that
the other side still reads (PlaceIsFree). With that every store to a ring is Append, and every step
of an index Tail, of the sequence that the window holds (WindowAppend, WindowTail), across both kinds
of wrapping; `IndexSpan % q = 0` is needed here, which the virtio rule that a ring size is a power of
two gives.

**BlockServiceProofs** proves on top of it that BlockQueue implements BlockService, and TypeOK. It
has four parts.

- *Chains.* For each kind of chain, what the walks of DescChain find: how many bytes the device may
  write and from which place (Accepts), how large the readable part is, and for a write where its
  data begin (ReadChain, WriteChain, SplitWriteChain); a chain that is out of order or too short for
  its header is refused (MalformedChain). SplitWriteChain is where the fault of run block_writes can
  be seen: the size comes from the second buffer, less a header that is not in it.
- *The disk.* A read returns the sectors it names, whether they come from the file or from the table
  (ReadReturns), and a write in one buffer puts every byte into its sector, or changes nothing
  (WriteStores); a write in two buffers changes no sector but its own (SplitWriteStores).
- *The refinement.* Waiting and Answered are lists over the windows of the rings, so a step of a ring
  is Append or Tail of a list (AsksAppend, AnswersTail, ...). Besides RingInv this needs to know what
  the device finds in a buffer it fills, and nothing but the driver's own steps has touched:

      QueueInv == RingInv, and while the behaviour is defined the buffer of every chain that waits is
                  as the driver left it

  That a chain is owned once is what keeps it so: filling the buffer of one head touches neither that
  of another that waits nor an answer that has not been collected. ServiceSteps then maps every step
  to one of BlockService or to a stutter.
- *Types.* TypeOK also covers the behaviours in which a garbage upper half has been met, where RingInv
  says next to nothing. What saves it is Stopped: the driver stands still then, and the notification
  goes on with the same upper half, so that nothing more is taken from the driver's ring.

The assumptions of these two modules are RingAssumption (sizes and indices of uint16_t, with a ring
shorter than the range of an index, as 16 entries are), BlockAssumption (ring sizes divide the range of
an index, as powers of two do; a header is shorter than a sector, 16 bytes against 512; reads stay on
the disk), and RequestAssumption (what a request is; one that moves data moves at least a sector).

**ExecProofs** proves that exceptions are precise, that every instruction but `fcvt.s.d` and
`fcvt.d.s` (instructions.c:1451-1474, which leave `fs` as it is) marks the unit dirty when it changes a
floating-point register and that none takes the mark back, that a conditional store needs its
reservation, that pc goes where an instruction says, and that every operation computes what it is for,
for every width and every set of words that ExecAssumption allows. PreciseException and FsTracksF hold
step by step; the work is in showing for each of the 27 actions that it either retires or leaves everything as it was. ScNeedsReservation needs

    ExecInv: regs is a function; granted is a subset of {load_res}; load_res # 0 => granted = {load_res}

that is, the address the code keeps and the history of lr differ at most at address 0, the value that
also stands for no reservation. AluAgrees and ControlFlow rest on a second invariant,

    ValuesInv: every register holds a word; pc is a word and even; the word in hand is one of the guest

for which each operation must be known to yield a word, each target to be even. Given that, ControlFlow
is one step, and AluAgrees is a fact about Alu alone, which takes the larger part of the module:

- *Bits.* Powers of two are characterised by PowerAssumption (2^0 = 1 and each is twice the one
  before, as far as they are used; a fact of arithmetic the provers lack, evaluated by TLC for each
  width that is run). PowerSum follows by induction, and from it what wrapping and shifting do to each
  bit (BitWrap, BitShiftDown, BitShiftUp), so that the shifts move sets of bits (BitsShiftLeft, ...).
- *Sums of bits.* The recursive function in Combined exists and yields a word with just the bits asked
  for (SumOverExists, SumOverBits, by induction), for and, or and xor.
- *Values.* What a word of w bits means as a signed number, and that wrapping and signing are inverse
  (WrapFacts, SignedWrap, WrapSigned); what extending the sign of the lower half does (ExtendedFacts).
- *Products.* The carries of mulhu are those of the product of the halves (MulhuUpper), and taking an
  operand from the upper word makes the other one signed (UpperMinus); that nothing is lost by the two
  wrappings of mulh needs a bound on the product (UpperFits).
- *Quotients.* Rounding towards zero (QuotientFacts), and that the only quotient which does not fit is
  the one the code singles out (Overflows, FitsFacts).

AluAssumption asks for an even width with a half that divides 2^half, so that a shift by `b % w` is the
same for a register and for its lower half; 32 and 64 bits satisfy it, and so do the four of MCExec.

**MmuProofs** proves OneItemAnswers for every list of items, from BusAssumption. The invariant BusInv
says that no two items of the table overlap; each was compared with all before it, and the
comparison is symmetric.

It also proves HtifAnswered, which is about every way a guest can reach the registers of the host
interface. Its invariant is

    HostInv == TableInv /\ Sound(bus) /\ nothing has been written before the guest runs
    TableInv == BusInv, and low memory is the first item when it is in the table at all
    Sound(s) == memory holds numbers; neither output nor input is left in tohost; 1 is in its
                low half only when the emulator has ended

- *Items.* An access whose end wraps is accepted by low memory, which is the first item and so the one
  that answers; the registers are never given an offset beyond them (AnsweringItem).
- *Walk.* By induction on the levels each place that is read is an address, whatever the tables hold
  and whether or not the bus answers (LeafOk). The entry a walk writes back has the accessed bit, so
  that the mark is never the word 1 that ends the emulator (MarkedSet).
- *Access.* One or two parts (MakeAccessOk), the second through the tables as the first part left them.

The third result is what the walk computes. TranslationAgrees and WalkMarksLeaf are proved for any number
of levels and any contents of the tables, under the condition TablesReadable: every word of every table
lies in memory that the bus lets a load reach. They are false without it (see below). The argument goes
down the tables and the walk together (AgreesDown, AgreesEnded, by induction on the depth):

    InTable(s, va, k, w): at depth k at most one table belongs to va, and it is the one the walk w goes
                          on in; there is none when the walk has ended
    Agrees(s, va, k, w):  that, and the leaf entries for va above depth k are what w has found

- *Prefixes.* A table is known by the virtual page numbers that lead to it; that each level adds one place
  to them (PrefixStep, PlaceUnique) is what makes the table and the entry unique.
- *Words.* A word of a readable table is answered by the one item it lies in (ReachableItem, from
  OneItemPerAccess), so that the walk reads what memory holds and its mark changes that word alone.
- *Marks.* Setting a bit changes no other and not the page number (MarkedBits), so that the alignment,
  which the code tests after the mark, is that of the entry before it.
- *Addresses.* The mask of iomap.c:195 keeps a page number that is in reach (PageAddress).

The fourth result is StoreLands, under the same condition. It is about four steps of one store: the walk for the
first page leaves a mark, the first part is written, the walk for the second page reads tables that have changed
since, and the second part may still be refused.

- *Words.* A store that is answered puts each of its words where it should and changes no other word of
  memory (StorePuts); where a device answers, no word of a memory is meant (DeviceWords).
- *Two walks.* Tables that differ in nothing but marks (SameTables) give walks that meet the same entries
  (SameDown, by induction on the levels) and the same address (SameTranslation). The second walk of a store
  therefore leads where it would have led before the store, which is what StoreLands compares with.
- *The first part.* It keeps its place in the page (PlaceKept), so that it is no first word of a page and
  cannot be the store to tohost that ends the emulator (WordBehind).

MmuProofs needs BoardAssumption: low memory is registered first, as in main, holds two words, and no device lies
where the image is loaded; PageAssumption, which gives the powers of two their values; and for StoreLands
AlignAssumption: the registers of the host interface begin a page (HTIF_BASE_ADDR is 0x40008000) and a register
spans whole pages. Without the last one StoreLands is false: where the low half of tohost is the last word of a
page, a store that crosses into the next page ends the emulator between its two parts (TLC finds it on a board
with the interface moved by one word).

Without TablesReadable, TranslationAgrees and WalkMarksLeaf hold for two levels of tables, as the run has
them, but not for three: an entry the bus refuses keeps the value of the level above (iomap.c:139), and
the walk goes on in the same table to leaves that no table has for that address (TLC finds this with a
pointer to the last page of RAM); and a table may lie in the registers of a device.

For the same reasons StoreLands is proved under that condition; the run checks all three without it, on its two
levels.

Only model-checked: the five liveness properties TimerInterruptTaken, TimerAnnounced, SleeperWakes,
TimerWakesSleeper and RequestAnswered, which need fairness. Every other property of a passing run is stated by
a theorem, the three of the page tables under TablesReadable.

## What the models leave out

- *Instructions*: the layout of fields and immediates in an encoding, the values of floating-point
  operations (softfp, taken over), sfence.vma (which does nothing), the cycle counter, and the parts
  compiled only for 32-bit registers.
- *Hart*: counters, scratch, cause and tval registers; vectored trap offsets. FS, MPRV, SUM, MXR and
  satp are inputs of Mmu and Exec, not fields of Hart's mstatus.
- *Address map*: accesses of bytes and half words, which the items of the model treat as the words
  they lie in; the canonical form of addresses, which the code does not check either; ASIDs, which
  it ignores. Two levels of tables do not show what an entry outside memory does in three.
- *Virtio*: feature and configuration registers, the console's two queues, descriptor tables that
  contain a cycle; of the block device the modes main does not select and a read past the end of the
  disk.
- *Console*: typed input never reaches the emulator, because `fd_max` stays -1 and `select` watches
  nothing (instructions.c:2212); the code behind it is not modelled.
- *Ends of the program*: HTIF's exits are modelled as such (`power`); the others end the process and
  no property spans them.
- The GUI and the PCI code have no counterpart in the running emulator; the device tree is built once
  before the guest starts.

Things met on the way that the models reproduce, and that no document of the repository speaks
about: SXL is not checked (regs.c:67), a store to the low half of mtimecmp clears the high half
(clint.c:97), a write of sip overwrites SEIP (regs.c:301), MEIP cannot be enabled (regs.c:356), the
last bytes of an item are refused (iomap.c:27), a large page loses the top of its page number
(iomap.c:195), conversions between floating-point formats leave `fs` clean (instructions.c:1451),
an address is reserved across stores of the same hart (instructions.c:2012), and `frm` takes the
place of funct3 in operations that do not round (instructions.c:1282).

## Plan

1. *Console*: the escape machine, the window between reading the size and clearing the flag.
   Property: a resize is lost only in that window.
2. The console's queues on Virtqueue: transmit, and receive without a callback (`manual_recv`).
3. *ShmLock*: the lock byte of the GUI's shared memory.
4. Proofs: the invariants of these modules, as they are written.
