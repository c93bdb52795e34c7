------------------------------ MODULE MmuProofs ------------------------------
(***************************************************************************)
(* Theorems about the bus and the page tables, for every list of items     *)
(* main may register, every width of an address and any number of levels:  *)
(* at most one item answers an access, no command is left in the host      *)
(* interface, translation is what the tables say, and a store lands where  *)
(* its words are translated to.                                            *)
(*                                                                         *)
(* The second is about everything the guest does: each of its accesses is  *)
(* followed through the walk, the mark of the walk, the one or two parts   *)
(* of the access and the item that answers. The state of the items stays   *)
(* Sound: the walk gives the bus addresses and numbers only, and low       *)
(* memory is the first item of the table, which makes an access whose end  *)
(* wraps harmless to the registers.                                        *)
(*                                                                         *)
(* The third goes down the tables together with the walk. At each depth    *)
(* one table at most belongs to the address, it is the one in which the    *)
(* walk goes on (InTable), and what the walk has found is what the tables  *)
(* hold for the address so far (Agrees).                                   *)
(*                                                                         *)
(* The fourth compares two walks: the second part of a store is translated *)
(* after the first has been made and the leaf of the first page has been   *)
(* marked.  As the first part is no word of a table, both walks meet the   *)
(* same entries but for marks (SameWalk), and end at the same address.     *)
(***************************************************************************)
EXTENDS Mmu, DivMod, SequenceTheorems, TLAPS

\* The items of the table lie below the end of the address space, and no two of
\* them overlap, because each was compared with all before it.
BusInv ==
    /\ registered \in Nat
    /\ address_items \in Seq(Item)
    /\ \A i \in DOMAIN address_items : LastOf(address_items[i]) < Space
    /\ \A i, j \in DOMAIN address_items :
           i # j => ~ check_overlap(address_items[i], address_items[j])

\* The table is empty at the start.
LEMMA InitBus == Init => BusInv
BY DEF Init, BusInit, BusInv

\* Items are compared in the order of the table; the comparison is symmetric.
LEMMA OverlapSymmetric ==
    ASSUME NEW item0 \in Item, NEW item1 \in Item
    PROVE  check_overlap(item0, item1) <=> check_overlap(item1, item0)
BY DEF check_overlap

\* An item is appended only if it overlaps none before it.
LEMMA RegisterBus ==
    ASSUME BusInv, RegisterNext
    PROVE  BusInv'
<1> DEFINE item == Modules[registered + 1]
           n == Len(address_items)
<1>1. item \in Item /\ LastOf(item) < Space
  <2>1. registered + 1 \in 1 .. Len(Modules)
    BY BusAssumption DEF BusInv, RegisterNext
  <2>2. item \in Item /\ item.start + item.size <= Space
    BY <2>1, BusAssumption
  <2> QED BY <2>2, BusAssumption DEF LastOf, Item
<1>2. registered' \in Nat
  BY DEF BusInv, RegisterNext
<1>3. CASE address_items' = address_items
  BY <1>2, <1>3 DEF BusInv
<1>4. CASE address_items' # address_items
  <2>1. /\ address_items' = Append(address_items, item)
        /\ \A i \in DOMAIN address_items : ~ check_overlap(address_items[i], item)
    BY <1>4 DEF RegisterNext, register_address
  <2>2. address_items' \in Seq(Item) /\ DOMAIN address_items' = 1 .. n + 1 /\ n \in Nat
    BY <1>1, <2>1 DEF BusInv
  <2>3. /\ \A i \in 1 .. n : address_items'[i] = address_items[i]
        /\ address_items'[n + 1] = item
        /\ DOMAIN address_items = 1 .. n
    BY <1>1, <2>1 DEF BusInv
  <2>4. \A i \in 1 .. n : address_items[i] \in Item
    BY <2>3 DEF BusInv
  <2>5. \A i \in DOMAIN address_items' : LastOf(address_items'[i]) < Space
    BY <1>1, <2>2, <2>3 DEF BusInv
  <2>6. ASSUME NEW i \in DOMAIN address_items', NEW j \in DOMAIN address_items', i # j
        PROVE  ~ check_overlap(address_items'[i], address_items'[j])
    <3>1. CASE i \in 1 .. n /\ j \in 1 .. n
      BY <2>3, <2>6, <3>1 DEF BusInv
    <3>2. CASE i \in 1 .. n /\ j = n + 1
      BY <2>1, <2>3, <3>2
    <3>3. CASE i = n + 1 /\ j \in 1 .. n
      BY <1>1, <2>1, <2>3, <2>4, <3>3, OverlapSymmetric
    <3> QED BY <2>2, <2>6, <3>1, <3>2, <3>3
  <2> QED BY <1>2, <2>2, <2>5, <2>6 DEF BusInv, check_overlap, LastOf
<1> QED BY <1>3, <1>4

\* Nothing else touches the table.
LEMMA StepBus ==
    ASSUME BusInv, [Next]_memVars
    PROVE  BusInv'
<1>1. CASE RegisterNext
  BY <1>1, RegisterBus
<1>2. UNCHANGED <<registered, address_items>> => BusInv'
  BY DEF BusInv
<1> QED
  BY <1>1, <1>2 DEF Next, Boot, Load, Store, Fetch, Access, memVars, busVars

\* An access of one or two words that does not wrap ends below Space, so that
\* the items that accept it hold its first word, and disjoint items cannot.
LEMMA OneAnswers ==
    ASSUME BusInv
    PROVE  OneItemAnswers
<1> SUFFICES ASSUME NEW a \in 0 .. Space - 1, NEW n \in 1 .. 2, a + n < Space,
                    NEW i \in Accepting(a, n)
             PROVE  /\ Accepting(a, n) = {i}
                    /\ a >= address_items[i].start /\ a + n - 1 <= LastOf(address_items[i])
  BY DEF OneItemAnswers
<1>1. (a + n) % Space = a + n /\ a \in Nat /\ n \in Nat
  BY BusAssumption
<1>2. \A j \in Accepting(a, n) :
        /\ j \in DOMAIN address_items
        /\ address_items[j] \in Item
        /\ a >= address_items[j].start /\ a + n <= LastOf(address_items[j])
  BY <1>1 DEF Accepting, check_in, BusInv
<1>3. ASSUME NEW j \in Accepting(a, n), j # i PROVE FALSE
  <2>1. check_overlap(address_items[i], address_items[j])
    BY <1>1, <1>2, <1>3, BusAssumption DEF check_overlap, LastOf, Item
  <2> QED BY <1>2, <1>3, <2>1 DEF BusInv
<1>4. a + n - 1 <= LastOf(address_items[i])
  BY <1>1, <1>2, BusAssumption DEF LastOf, Item
<1> QED BY <1>2, <1>3, <1>4

\* Whatever main registers and whatever the guest does, no two items of the bus
\* accept the same access, and none accepts one that leaves it.
THEOREM OneItemPerAccess == Spec => []OneItemAnswers
<1>1. BusInv /\ [Next]_memVars => BusInv'
  BY StepBus
<1> QED BY InitBus, <1>1, OneAnswers, PTL DEF Spec

-----------------------------------------------------------------------------
(* The host interface.                                                     *)

Host(lo, hi, flo, fhi, power, printed) ==
    [tohost |-> <<lo, hi>>, fromhost |-> <<flo, fhi>>, power |-> power, printed |-> printed]

\* No command that the console knows is left in tohost.  An exit by the low half
\* comes before that of a command, so that 1 is there only when the emulator has
\* ended.
Answering(lo, hi, power) ==
    ~ ConsoleCommand(hi) /\ power \in {"on", "exit 1"} /\ (power = "on" => lo # 1)

IsHost(h) ==
    \E lo, hi, flo, fhi \in Nat : \E power, printed :
        h = Host(lo, hi, flo, fhi, power, printed) /\ Answering(lo, hi, power)

\* The fields of such a record.
LEMMA HostFields ==
    ASSUME NEW lo, NEW hi, NEW flo, NEW fhi, NEW power, NEW printed, NEW h,
           h = Host(lo, hi, flo, fhi, power, printed)
    PROVE  /\ h.tohost = <<lo, hi>> /\ h.tohost[1] = lo /\ h.tohost[2] = hi
           /\ h.fromhost = <<flo, fhi>> /\ h.fromhost[1] = flo /\ h.fromhost[2] = fhi
           /\ h.power = power /\ h.printed = printed
BY DEF Host

\* Zero is no command to the console.
LEMMA ZeroIsNone == ~ ConsoleCommand(0)
BY DEF ConsoleCommand, DeviceOf, ConsoleDevice

\* A record of this form is a state of the interface.
LEMMA IsHostIntro ==
    ASSUME NEW lo \in Nat, NEW hi \in Nat, NEW flo \in Nat, NEW fhi \in Nat, NEW power, NEW printed,
           Answering(lo, hi, power)
    PROVE  IsHost(Host(lo, hi, flo, fhi, power, printed))
BY DEF IsHost

\* The command of a high half is run, or reported and left.
LEMMA CommandRun ==
    ASSUME NEW lo \in Nat, NEW hi \in Nat, NEW flo \in Nat, NEW fhi \in Nat, NEW printed, lo # 1
    PROVE  /\ IsHost(htif_cmd_handler(Host(lo, hi, flo, fhi, "on", printed)))
           /\ htif_cmd_handler(Host(lo, hi, flo, fhi, "on", printed)).power = "on"
<1> DEFINE h == Host(lo, hi, flo, fhi, "on", printed)
<1>1. h.tohost = <<lo, hi>> /\ h.tohost[1] = lo /\ h.tohost[2] = hi /\ h.tohost # <<1, 0>>
  BY HostFields DEF Host
<1>2. CASE DeviceOf(hi) = ConsoleDevice /\ CmdOf(hi) = 1
  <2>1. htif_cmd_handler(h) = Host(0, 0, 0, hi, "on", lo)
    BY <1>1, <1>2 DEF htif_cmd_handler, Host
  <2>2. Answering(0, 0, "on")
    BY ZeroIsNone DEF Answering
  <2> QED BY <2>1, <2>2, IsHostIntro, HostFields
<1>3. CASE DeviceOf(hi) = ConsoleDevice /\ CmdOf(hi) = 0
  <2>1. htif_cmd_handler(h) = Host(0, 0, flo, fhi, "on", printed)
    <3>1. CmdOf(hi) # 1
      BY <1>3
    <3>2. htif_cmd_handler(h) = [h EXCEPT !.tohost = <<0, 0>>]
      BY <1>1, <1>3, <3>1 DEF htif_cmd_handler
    <3> QED BY <3>2 DEF Host
  <2>2. Answering(0, 0, "on")
    BY ZeroIsNone DEF Answering
  <2> QED BY <2>1, <2>2, IsHostIntro, HostFields
<1>4. CASE ~ ConsoleCommand(hi)
  <2>1. htif_cmd_handler(h) = h
    BY <1>1, <1>4 DEF htif_cmd_handler, ConsoleCommand
  <2>2. Answering(lo, hi, "on")
    BY <1>4 DEF Answering
  <2> QED BY <2>1, <2>2, IsHostIntro, HostFields
<1> QED BY <1>2, <1>3, <1>4 DEF ConsoleCommand

\* A half is stored; only 1 in the low half of tohost ends the emulator.
LEMMA HalfStored ==
    ASSUME NEW h, IsHost(h), h.power = "on", NEW offset \in {0, 1, 2, 3}, NEW v \in Nat
    PROVE  /\ IsHost(htif_write_sub(h, offset, v))
           /\ v # 1 \/ offset # 0 => htif_write_sub(h, offset, v).power = "on"
<1>0. PICK lo \in Nat, hi \in Nat, flo \in Nat, fhi \in Nat :
          \E power, printed : h = Host(lo, hi, flo, fhi, power, printed) /\ Answering(lo, hi, power)
  BY DEF IsHost
<1>1. PICK power, printed : h = Host(lo, hi, flo, fhi, power, printed) /\ Answering(lo, hi, power)
  BY <1>0
<1>2. power = "on" /\ lo # 1 /\ h.tohost[1] = lo /\ h.fromhost[1] = flo
  <2>1. h.power = power /\ h.tohost[1] = lo /\ h.fromhost[1] = flo
    BY <1>1, HostFields
  <2> QED BY <1>1, <2>1 DEF Answering
<1>3. Answering(0, hi, "on") /\ Answering(lo, hi, "on")
  BY <1>1, <1>2 DEF Answering
<1>4. CASE offset = 0
  <2> DEFINE p == IF v = 1 THEN "exit 1" ELSE h.power
  <2>1. htif_write_sub(h, offset, v) = [h EXCEPT !.tohost = <<v, 0>>, !.power = p]
    BY <1>4 DEF htif_write_sub
  <2>2. (v = 1 => p = "exit 1") /\ (v # 1 => p = "on")
    OBVIOUS
  <2> HIDE DEF p
  <2>3. htif_write_sub(h, offset, v) = Host(v, 0, flo, fhi, p, printed)
    BY <1>1, <2>1 DEF Host
  <2>4. Answering(v, 0, p)
    <3>1. p \in {"on", "exit 1"} /\ (p = "on" => v # 1)
      BY <2>2
    <3> QED BY <3>1, ZeroIsNone DEF Answering
  <2>5. IsHost(htif_write_sub(h, offset, v))
    BY <2>3, <2>4, IsHostIntro
  <2>6. htif_write_sub(h, offset, v).power = p
    BY <2>3, HostFields
  <2> QED BY <1>4, <2>2, <2>5, <2>6
<1>5. CASE offset = 1
  <2>1. [h EXCEPT !.tohost = <<@[1], v>>] = Host(lo, v, flo, fhi, "on", printed)
    BY <1>1, <1>2 DEF Host
  <2>2. htif_write_sub(h, offset, v) = htif_cmd_handler(Host(lo, v, flo, fhi, "on", printed))
    BY <1>5, <2>1 DEF htif_write_sub
  <2> QED BY <1>2, <2>2, CommandRun
<1>6. CASE offset = 2
  <2>1. htif_write_sub(h, offset, v) = Host(lo, hi, v, 0, "on", printed)
    BY <1>1, <1>2, <1>6 DEF htif_write_sub, Host
  <2> QED BY <1>3, <2>1, IsHostIntro, HostFields
<1>7. CASE offset = 3
  <2>1. htif_write_sub(h, offset, v) = Host(lo, hi, flo, v, "on", printed)
    BY <1>1, <1>2, <1>7 DEF htif_write_sub, Host
  <2> QED BY <1>3, <2>1, IsHostIntro, HostFields
<1> QED BY <1>4, <1>5, <1>6, <1>7

\* One half or two.
LEMMA HalvesStored ==
    ASSUME NEW h, IsHost(h), h.power = "on", NEW n \in {1, 2}, NEW offset \in {0, 1, 2, 3}, n = 2 => offset # 3,
           NEW value, value[1] \in Nat, n = 2 => value[2] \in Nat
    PROVE  /\ IsHost(htif_write(h, offset, value, n))
           /\ n = 1 /\ value[1] # 1 => htif_write(h, offset, value, n).power = "on"
<1> DEFINE first == htif_write_sub(h, offset, value[1])
<1>1. IsHost(first) /\ (value[1] # 1 => first.power = "on")
  BY HalfStored
<1> HIDE DEF first
<1>2. CASE n = 1 \/ first.power # "on"
  <2>1. htif_write(h, offset, value, n) = first
    BY <1>2 DEF htif_write, first
  <2>2. n = 1 /\ value[1] # 1 => first.power = "on"
    BY <1>1
  <2> QED BY <1>1, <2>1, <2>2
<1>3. CASE n = 2 /\ first.power = "on"
  <2>1. offset + 1 \in {0, 1, 2, 3} /\ value[2] \in Nat /\ ~ (n = 1)
    BY <1>3
  <2>2. htif_write(h, offset, value, n) = htif_write_sub(first, offset + 1, value[2])
    BY <1>3, <2>1 DEF htif_write, first
  <2> QED BY <1>1, <1>3, <2>1, <2>2, HalfStored
<1> QED BY <1>2, <1>3

\* What is read of it is a number.
LEMMA HalfRead ==
    ASSUME NEW h, IsHost(h), NEW offset \in {0, 1, 2, 3}
    PROVE  htif_read(h, offset, 1)[1] \in Nat
<1>1. PICK lo \in Nat, hi \in Nat, flo \in Nat, fhi \in Nat :
          \E power, printed : h = Host(lo, hi, flo, fhi, power, printed)
  BY DEF IsHost
<1>2. h.tohost = <<lo, hi>> /\ h.fromhost = <<flo, fhi>>
  BY <1>1, HostFields
<1> DEFINE low == <<lo, hi>>  high == <<flo, fhi>>
<1>3. low \in Seq(Nat) /\ high \in Seq(Nat) /\ Len(low) = 2 /\ Len(high) = 2
  OBVIOUS
<1> HIDE DEF low, high
<1>4. (low \o high) \in Seq(Nat) /\ Len(low \o high) = 4
  <2>1. \A s1, s2 \in Seq(Nat) : (s1 \o s2) \in Seq(Nat) /\ Len(s1 \o s2) = Len(s1) + Len(s2)
    BY ConcatProperties
  <2>2. low \in Seq(Nat) /\ high \in Seq(Nat)
    BY <1>3
  <2>3. (low \o high) \in Seq(Nat) /\ Len(low \o high) = Len(low) + Len(high)
    BY <2>1, <2>2, Zenon
  <2> QED BY <1>3, <2>3
<1>5. (low \o high)[offset + 1] \in Nat
  BY <1>4
<1> QED BY <1>2, <1>5 DEF htif_read, low, high

-----------------------------------------------------------------------------
(* The table, and the state of its items.                                  *)

Board == { Modules[i] : i \in DOMAIN Modules }

\* Low memory is the first item of the table when the guest runs, so that it
\* answers every access whose end wraps.
TableInv ==
    /\ BusInv
    /\ \A i \in DOMAIN address_items : address_items[i] \in Board
    /\ registered = 0 => address_items = <<>>
    /\ (\E i \in DOMAIN address_items : address_items[i] = BootItem) => address_items[1] = BootItem
    /\ phase = "running" => address_items # <<>> /\ address_items[1] = BootItem

\* What an access finds and leaves.
Sound(s) ==
    /\ s = [ram |-> s.ram, htif |-> s.htif]
    /\ s.ram \in [DOMAIN s.ram -> Nat] /\ DOMAIN s.ram \subseteq Nat
    /\ phase = "running" => DOMAIN s.ram = MemoryWords
    /\ IsHost(s.htif)

\* The first of the places that accept an access is the smallest of them.
LEMMA FirstOf ==
    ASSUME NEW places, places \subseteq Nat, places # {}
    PROVE  \E i \in places : First(places) = address_items[i] /\ \A j \in places : i <= j
BY SmallestOf DEF First

\* The end of an access of the guest, where it wraps and where it does not.
LEMMA EndOf ==
    ASSUME NEW a \in 0 .. Space - 1, NEW n \in {1, 2}
    PROVE  (a + n) % Space = (IF a + n < Space THEN a + n ELSE a + n - Space)
<1>1. BootItem.size >= 2 /\ BootItem.size \in 1 .. Space /\ Space \in Nat \ {0}
  BY BusAssumption, BoardAssumption DEF Item
<1>2. a + n \in Int /\ 0 <= a + n /\ a + n < 2 * Space
  BY <1>1
<1> DEFINE x == a + n
<1> HIDE DEF x
<1>3. x < Space => x % Space = x
  BY <1>1, <1>2, DivSmall DEF x
<1>4. Space <= x => x % Space = x - Space
  BY <1>1, <1>2, DivSmall DEF x
<1> QED BY <1>2, <1>3, <1>4, <1>1 DEF x

\* The host interface is given an offset within its registers.
LEMMA AnsweringItem ==
    ASSUME TableInv, phase = "running", NEW a \in 0 .. Space - 1, NEW n \in {1, 2}, Accepting(a, n) # {}
    PROVE  LET item == First(Accepting(a, n))
           IN  /\ item \in Item
               /\ item.kind = "htif" => a - item.start \in {0, 1, 2, 3} /\ (n = 2 => a - item.start # 3)
<1> DEFINE places == Accepting(a, n)
           item == First(places)
<1>1. places \subseteq DOMAIN address_items /\ DOMAIN address_items \subseteq Nat \ {0}
  BY DEF Accepting, TableInv, BusInv
<1>2. PICK i \in places : item = address_items[i] /\ \A j \in places : i <= j
  BY <1>1, FirstOf
<1>3. check_in(address_items[i], a, n) /\ i \in DOMAIN address_items /\ item \in Item /\ item \in Board
  BY <1>1, <1>2 DEF Accepting, TableInv, BusInv
<1>4. CASE a + n < Space
  <2>1. (a + n) % Space = a + n
    BY <1>4, EndOf
  <2>2. a >= item.start /\ a + n <= item.start + item.size - 1
    BY <1>2, <1>3, <2>1 DEF check_in, LastOf
  <2>3. item.kind = "htif" => item.size = 4
    BY <1>3, BoardAssumption DEF Board, HTIF_SIZE
  <2>4. item.start \in Nat /\ item.size \in Nat /\ a \in Nat
    BY <1>3, BusAssumption DEF Item
  <2> HIDE DEF item
  <2>5. item.kind = "htif" => a - item.start \in {0, 1, 2, 3} /\ (n = 2 => a - item.start # 3)
    BY <2>2, <2>3, <2>4
  <2> QED BY <1>3, <2>5 DEF item
<1>5. CASE ~ (a + n < Space)
  <2>1. (a + n) % Space = a + n - Space
    BY <1>5, EndOf
  <2>2. address_items[1] = BootItem /\ 1 \in DOMAIN address_items
    BY DEF TableInv, BusInv
  <2>3. BootItem.size >= 2 /\ BootItem.size \in Nat /\ BootItem.start = 0 /\ Space \in Nat
    BY BusAssumption, BoardAssumption DEF Item
  <2>4. check_in(BootItem, a, n)
    BY <2>1, <2>3 DEF check_in, LastOf
  <2>5. 1 \in places
    BY <2>2, <2>4 DEF Accepting
  <2>6. i = 1
    <3>1. i <= 1 /\ i \in Nat \ {0}
      BY <1>1, <1>2, <2>5
    <3> QED BY <3>1
  <2>7. item.kind = "memory"
    BY <1>2, <2>2, <2>6, BoardAssumption
  <2> QED BY <1>3, <2>7
<1> QED BY <1>4, <1>5

\* What a read finds in one word is a number.
LEMMA WordRead ==
    ASSUME TableInv, phase = "running", NEW s, Sound(s), NEW a \in 0 .. Space - 1
    PROVE  LET data == read_bytes(s, a, 1).data IN data = <<>> \/ data[1] \in Nat
<1> DEFINE item == First(Accepting(a, 1))
<1>1. CASE Accepting(a, 1) = {}
  BY <1>1 DEF read_bytes, Refused
<1>2. CASE Accepting(a, 1) # {}
  <2>1. item \in Item /\ (item.kind = "htif" => a - item.start \in {0, 1, 2, 3})
    BY <1>2, AnsweringItem
  <2>2. read_bytes(s, a, 1) = read_item(s, item, a, 1)
    BY <1>2 DEF read_bytes
  <2> HIDE DEF item
  <2>3. CASE item.kind = "htif"
    <3>1. read_bytes(s, a, 1).data = htif_read(s.htif, a - item.start, 1)
      BY <2>2, <2>3 DEF read_item, Answered
    <3> QED BY <2>1, <2>3, <3>1, HalfRead DEF Sound
  <2>4. CASE item.kind = "debug"
    BY <2>2, <2>4 DEF read_item, debug_read, Answered
  <2>5. CASE item.kind = "memory"
    <3>1. read_bytes(s, a, 1) = memory_read(s, item, a, 1)
      BY <2>2, <2>5 DEF read_item
    <3>2. CASE ~ check_valid(item, a, 1)
      BY <3>1, <3>2 DEF memory_read, Refused
    <3>3. CASE check_valid(item, a, 1) /\ \E k \in 0 .. 0 : (a + k) % Space \notin DOMAIN s.ram
      BY <3>1, <3>3 DEF memory_read, Answered
    <3>4. CASE check_valid(item, a, 1) /\ \A k \in 0 .. 0 : (a + k) % Space \in DOMAIN s.ram
      <4>1. a + 0 = a /\ a + 1 - 1 = a
        OBVIOUS
      <4>2. a % Space \in DOMAIN s.ram
        BY <3>4, <4>1
      <4>3. read_bytes(s, a, 1).data = [k \in 1 .. 1 |-> s.ram[(a + k - 1) % Space]]
        BY <3>1, <3>4 DEF memory_read, Answered
      <4>4. read_bytes(s, a, 1).data[1] = s.ram[a % Space]
        BY <4>1, <4>3
      <4> QED BY <4>2, <4>4 DEF Sound
    <3> QED BY <3>2, <3>3, <3>4
  <2> QED BY <2>1, <2>3, <2>4, <2>5 DEF Item, Kinds
<1> QED BY <1>1, <1>2

\* A read changes nothing.
LEMMA ReadKeeps ==
    ASSUME TableInv, phase = "running", NEW s, NEW a \in 0 .. Space - 1, NEW n \in {1, 2}
    PROVE  read_bytes(s, a, n).s = s
<1> DEFINE item == First(Accepting(a, n))
<1>1. CASE Accepting(a, n) = {}
  BY <1>1 DEF read_bytes, Refused
<1>2. CASE Accepting(a, n) # {}
  <2>1. item.kind \in {"memory", "htif", "debug"}
    BY <1>2, AnsweringItem DEF Item, Kinds
  <2>2. read_bytes(s, a, n) = read_item(s, item, a, n)
    BY <1>2 DEF read_bytes
  <2> HIDE DEF item
  <2> QED BY <2>1, <2>2 DEF read_item, memory_read, debug_read, Answered, Refused
<1> QED BY <1>1, <1>2

\* A store to memory leaves numbers there.
LEMMA MemoryStored ==
    ASSUME NEW s, Sound(s), NEW item, NEW a \in 0 .. Space - 1, NEW n \in Nat,
           NEW value, \A k \in 1 .. n : value[k] \in Nat
    PROVE  /\ Sound(memory_write(s, item, a, value, n).s)
           /\ DOMAIN memory_write(s, item, a, value, n).s.ram = DOMAIN s.ram
           /\ memory_write(s, item, a, value, n).s.htif = s.htif
<1> DEFINE place(b) == ((b + Space - a) % Space) + 1
           ram == [b \in DOMAIN s.ram |-> IF place(b) <= n THEN value[place(b)] ELSE s.ram[b]]
<1>1. CASE ~ check_valid(item, a, n)
  BY <1>1 DEF memory_write, Refused
<1>2. CASE check_valid(item, a, n)
  <2>1. memory_write(s, item, a, value, n).s = [s EXCEPT !.ram = ram]
    BY <1>2 DEF memory_write, Answered
  <2>2. \A b \in DOMAIN s.ram : place(b) \in Nat \ {0}
    <3> SUFFICES ASSUME NEW b \in DOMAIN s.ram PROVE place(b) \in Nat \ {0}
      OBVIOUS
    <3> DEFINE x == b + Space - a
    <3>1. x \in Int /\ Space \in Nat \ {0}
      BY BusAssumption DEF Sound
    <3> HIDE DEF x
    <3>2. x % Space \in 0 .. Space - 1
      BY <3>1, IntDivMod
    <3> QED BY <3>1, <3>2 DEF x
  <2> HIDE DEF place
  <2>3. \A b \in DOMAIN s.ram : ram[b] \in Nat
    <3> SUFFICES ASSUME NEW b \in DOMAIN s.ram PROVE ram[b] \in Nat
      OBVIOUS
    <3>1. s.ram[b] \in Nat
      BY DEF Sound
    <3>2. place(b) <= n => value[place(b)] \in Nat
      BY <2>2
    <3> QED BY <3>1, <3>2
  <2>4. DOMAIN ram = DOMAIN s.ram /\ ram \in [DOMAIN ram -> Nat]
    BY <2>3
  <2> HIDE DEF ram
  <2>5. memory_write(s, item, a, value, n).s = [ram |-> ram, htif |-> s.htif]
    BY <2>1 DEF Sound
  <2> QED BY <2>4, <2>5 DEF Sound
<1> QED BY <1>1, <1>2

\* So does a store of the guest, whichever item answers.
LEMMA WordsWritten ==
    ASSUME TableInv, phase = "running", NEW s, Sound(s), s.htif.power = "on",
           NEW a \in 0 .. Space - 1, NEW n \in {1, 2}, NEW value, \A k \in 1 .. n : value[k] \in Nat
    PROVE  /\ Sound(write_bytes(s, a, value, n).s)
           /\ n = 1 /\ value[1] # 1 => write_bytes(s, a, value, n).s.htif.power = "on"
<1> DEFINE item == First(Accepting(a, n))
<1>1. CASE Accepting(a, n) = {}
  BY <1>1 DEF write_bytes, Refused
<1>2. CASE Accepting(a, n) # {}
  <2>1. item \in Item /\ (item.kind = "htif" => a - item.start \in {0, 1, 2, 3} /\ (n = 2 => a - item.start # 3))
    BY <1>2, AnsweringItem
  <2>2. write_bytes(s, a, value, n) = write_item(s, item, a, value, n)
    BY <1>2 DEF write_bytes
  <2> HIDE DEF item
  <2>3. CASE item.kind = "memory"
    <3>1. write_bytes(s, a, value, n) = memory_write(s, item, a, value, n) /\ n \in Nat
      BY <2>2, <2>3 DEF write_item
    <3> QED BY <3>1, MemoryStored
  <2>4. CASE item.kind = "htif"
    <3> DEFINE h == htif_write(s.htif, a - item.start, value, n)
    <3>1. write_bytes(s, a, value, n).s = [s EXCEPT !.htif = h]
      BY <2>2, <2>4 DEF write_item, Answered
    <3>2. IsHost(s.htif) /\ value[1] \in Nat /\ (n = 2 => value[2] \in Nat)
      BY DEF Sound
    <3>3. IsHost(h) /\ (n = 1 /\ value[1] # 1 => h.power = "on")
      BY <2>1, <2>4, <3>2, HalvesStored
    <3> HIDE DEF h
    <3>4. write_bytes(s, a, value, n).s = [ram |-> s.ram, htif |-> h]
      BY <3>1 DEF Sound
    <3> QED BY <3>3, <3>4 DEF Sound
  <2>5. CASE item.kind = "debug"
    <3>1. write_bytes(s, a, value, n).s = s
      BY <2>2, <2>5 DEF write_item, debug_write, Answered, Refused
    <3> QED BY <3>1
  <2> QED BY <2>1, <2>3, <2>4, <2>5 DEF Item, Kinds
<1> QED BY <1>1, <1>2

-----------------------------------------------------------------------------
(* The walk.                                                               *)

\* One turn of the loop, at level i.
Turn(s, va, w, i) == IF w.on THEN Down(s, va, w, i) ELSE w

Walk(s, va, n, g) ==
    g = [k \in 0 .. n |-> IF k = 0 THEN Start ELSE Turn(s, va, g[k - 1], Levels - k)]

\* The walk that Leaf defines recursively exists.
LEMMA WalkExists ==
    ASSUME NEW s, NEW va
    PROVE  \E g : Walk(s, va, Levels, g)
<1> DEFINE T == { n \in Nat : \E g : Walk(s, va, n, g) }
<1>1. 0 \in T
  <2> DEFINE g == [k \in 0 .. 0 |-> Start]
  <2>1. Walk(s, va, 0, g)
    BY DEF Walk
  <2> QED BY <2>1
<1>2. ASSUME NEW n \in Nat, n \in T PROVE n + 1 \in T
  <2>1. PICK g : Walk(s, va, n, g)
    BY <1>2
  <2> DEFINE h == [k \in 0 .. n + 1 |-> IF k = n + 1 THEN Turn(s, va, g[n], Levels - (n + 1)) ELSE g[k]]
  <2>2. \A k \in 0 .. n : h[k] = g[k] /\ g[k] = IF k = 0 THEN Start ELSE Turn(s, va, g[k - 1], Levels - k)
    BY <2>1 DEF Walk
  <2>3. h[n + 1] = Turn(s, va, g[n], Levels - (n + 1))
    OBVIOUS
  <2>4. ASSUME NEW k \in 0 .. n + 1
        PROVE  h[k] = IF k = 0 THEN Start ELSE Turn(s, va, h[k - 1], Levels - k)
    <3>1. CASE k = n + 1
      BY <2>2, <2>3, <3>1
    <3>2. CASE k \in 0 .. n
      <4>1. k = 0 \/ k - 1 \in 0 .. n
        BY <3>2
      <4> HIDE DEF h
      <4> QED BY <2>2, <3>2, <4>1
    <3> QED BY <3>1, <3>2
  <2>5. Walk(s, va, n + 1, h)
    <3>1. h = [k \in 0 .. n + 1 |-> h[k]]
      OBVIOUS
    <3> HIDE DEF h
    <3> QED BY <2>4, <3>1 DEF Walk
  <2> HIDE DEF h
  <2>6. \E f : Walk(s, va, n + 1, f)
    BY <2>5
  <2> QED BY <2>6
<1> HIDE DEF T
<1>3. Levels \in T
  <2>1. Levels \in Nat
    BY MmuAssumption
  <2> QED BY <1>1, <1>2, <2>1, Induct
<1> QED BY <1>3 DEF T

PageOk(w) == w.base \in 0 .. 2 ^ PpnBits - 1
Place(w) == /\ w.level \in 0 .. Levels - 1 /\ w.at \in 0 .. Space - 1 /\ w.pte \in Nat

\* What a walk has at every moment of it.
WalkOk(w) == PageOk(w) /\ w.pte \in Nat /\ (w.found => Place(w))

\* A page number and the place in the page make an address.
LEMMA PageWord ==
    ASSUME NEW base \in 0 .. 2 ^ PpnBits - 1, NEW k \in 0 .. PageSize - 1
    PROVE  base * PageSize + k \in 0 .. Space - 1
<1> DEFINE pages == 2 ^ PpnBits
<1>1. pages \in Nat \ {0} /\ PageSize \in Nat \ {0} /\ pages * PageSize <= Space /\ Space \in Nat
  BY MmuAssumption, PageAssumption, BusAssumption
<1>2. base \in Nat /\ base + 1 <= pages
  BY <1>1
<1> HIDE DEF pages
<1>3. (base + 1) * PageSize <= pages * PageSize /\ (base + 1) * PageSize = base * PageSize + PageSize
  BY <1>1, <1>2
<1>4. base * PageSize \in Nat
  BY <1>1, <1>2
<1> DEFINE p == base * PageSize
           q == pages * PageSize
<1>5. p \in Nat /\ q \in Int /\ p + PageSize <= q /\ q <= Space
  BY <1>1, <1>3, <1>4
<1> HIDE DEF p, q
<1>6. p + k \in 0 .. Space - 1
  BY <1>1, <1>5
<1> QED BY <1>6 DEF p

\* The page number of an entry fits its width.
LEMMA PpnFits == ASSUME NEW pte \in Nat PROVE PpnOf(pte) \in 0 .. 2 ^ PpnBits - 1
<1>1. 2 ^ PpnBits \in Nat \ {0} /\ pte \div PpnUnit \in Nat
  <2>1. PpnUnit \in Nat \ {0}
    BY DEF PpnUnit
  <2> QED BY <2>1, PageAssumption, DivModDef
<1> QED BY <1>1, NatDivMod DEF PpnOf

\* The place of an entry in its table is in the page.
LEMMA VpnFits ==
    ASSUME NEW va \in Nat, NEW i \in 0 .. Levels - 1
    PROVE  Vpn(va, i) \in 0 .. PageSize - 1
<1>1. i + 1 \in 0 .. Levels /\ PageSize \in Nat \ {0}
  BY MmuAssumption
<1> DEFINE m == PageSize ^ (i + 1)
<1>2. m \in Nat \ {0}
  BY <1>1, PageAssumption
<1> HIDE DEF m
<1>3. va \div m \in Nat
  BY <1>2, DivModDef
<1> QED BY <1>1, <1>3, NatDivMod DEF Vpn, m

\* Each level reads a word of the bus, or keeps the entry of the level above.
LEMMA DownOk ==
    ASSUME TableInv, phase = "running", NEW s, Sound(s), NEW va \in Nat,
           NEW w, WalkOk(w), NEW i \in 0 .. Levels - 1
    PROVE  WalkOk(Down(s, va, w, i))
<1> DEFINE at == w.base * PageSize + Vpn(va, i)
           data == read_bytes(s, at, 1).data
           pte == IF data = <<>> THEN w.pte ELSE data[1]
<1>1. at \in 0 .. Space - 1
  BY PageWord, VpnFits DEF WalkOk, PageOk
<1>2. pte \in Nat
  BY <1>1, WordRead DEF WalkOk
<1>3. PpnOf(pte) \in 0 .. 2 ^ PpnBits - 1
  BY <1>2, PpnFits
<1> DEFINE d == Down(s, va, w, i)
<1>4. d.base = PpnOf(pte) /\ d.pte = pte /\ d.at = at /\ d.level = i
  BY DEF Down
<1> HIDE DEF d, pte, at
<1> QED BY <1>1, <1>2, <1>3, <1>4 DEF WalkOk, PageOk, Place, d

\* The leaf a walk finds is a word of an item that the walk has read.
LEMMA LeafOk ==
    ASSUME TableInv, phase = "running", NEW s, Sound(s), NEW va \in Nat
    PROVE  WalkOk(Leaf(s, va))
<1> DEFINE g == CHOOSE g : Walk(s, va, Levels, g)
<1>0. Levels \in Nat \ {0}
  BY MmuAssumption
<1>1. Walk(s, va, Levels, g)
  BY WalkExists
<1>2. Leaf(s, va) = g[Levels]
  BY DEF Leaf, Walk, Turn
<1> HIDE DEF g
<1>3. \A k \in 0 .. Levels : g[k] = IF k = 0 THEN Start ELSE Turn(s, va, g[k - 1], Levels - k)
  BY <1>1 DEF Walk
<1> DEFINE T == { n \in Nat : n <= Levels => WalkOk(g[n]) }
<1>4. 0 \in T
  <2>1. g[0] = Start
    BY <1>0, <1>3
  <2>2. WalkOk(Start)
    BY MmuAssumption DEF Start, WalkOk, PageOk
  <2> QED BY <2>1, <2>2
<1>5. ASSUME NEW n \in Nat, n \in T PROVE n + 1 \in T
  <2>1. CASE ~ (n + 1 <= Levels)
    BY <2>1
  <2>2. CASE n + 1 <= Levels
    <3>1. WalkOk(g[n]) /\ Levels - (n + 1) \in 0 .. Levels - 1
      BY <1>0, <1>5, <2>2
    <3>2. g[n + 1] = Turn(s, va, g[n], Levels - (n + 1))
      <4>1. n + 1 \in 0 .. Levels /\ ~ (n + 1 = 0) /\ n + 1 - 1 = n
        BY <1>0, <2>2
      <4> QED BY <1>3, <4>1
    <3>3. WalkOk(g[n + 1])
      BY <3>1, <3>2, DownOk DEF Turn
    <3> QED BY <3>3
  <2> QED BY <2>1, <2>2
<1> HIDE DEF T
<1>6. Levels \in T
  BY <1>0, <1>4, <1>5, Induct
<1> QED BY <1>0, <1>2, <1>6 DEF T

-----------------------------------------------------------------------------
(* Translation.                                                            *)

\* With one bit set an entry is at least that bit, and never the word 1.
LEMMA WithSet ==
    ASSUME NEW pte \in Nat, NEW bit \in {PTE_A, PTE_D}
    PROVE  With(pte, bit) \in Nat /\ With(pte, bit) >= 32
<1>1. bit \in Nat \ {0} /\ bit >= 32
  BY DEF PTE_A, PTE_D
<1>2. CASE ~ Has(pte, bit)
  BY <1>1, <1>2 DEF With
<1>3. CASE Has(pte, bit)
  <2> DEFINE q == pte \div bit
  <2>1. q \in Nat /\ pte = (q * bit) + (pte % bit) /\ pte % bit \in Nat
    BY <1>1, DivModDef
  <2>2. q # 0
    BY <1>3, <2>1 DEF Has
  <2> HIDE DEF q
  <2>3. q * bit >= bit
    BY <1>1, <2>1, <2>2
  <2> DEFINE p == q * bit
  <2>4. p \in Int
    BY <1>1, <2>1
  <2> HIDE DEF p
  <2>5. pte >= 32
    BY <1>1, <2>1, <2>3, <2>4 DEF p
  <2> QED BY <1>3, <2>5 DEF With
<1> QED BY <1>2, <1>3

\* So is the entry that the walk writes back: no walk asks for the exit.
LEMMA MarkedSet ==
    ASSUME NEW pte \in Nat, NEW access
    PROVE  Marked(pte, access) \in Nat /\ Marked(pte, access) >= 32
BY WithSet DEF Marked

\* Two numbers of at least 1 add up to at most one more than their product.
LEMMA SumUnderProduct ==
    ASSUME NEW x \in Nat \ {0}, NEW y \in Nat \ {0}
    PROVE  x + y <= x * y + 1
<1>1. (x - 1) * (y - 1) >= 0
  OBVIOUS
<1>2. (x - 1) * (y - 1) = x * y - x - y + 1
  OBVIOUS
<1> DEFINE p == x * y
           q == (x - 1) * (y - 1)
<1>3. p \in Int /\ q \in Int
  OBVIOUS
<1> HIDE DEF p, q
<1>4. q >= 0 /\ q = p - x - y + 1
  BY <1>1, <1>2 DEF p, q
<1>5. x + y <= p + 1
  BY <1>3, <1>4
<1> QED BY <1>5 DEF p

\* The page of a leaf of any level is a page number.
LEMMA PageFits ==
    ASSUME NEW va \in Nat, NEW i \in 0 .. Levels - 1, NEW pte \in Nat
    PROVE  PageOf(va, i, pte) \in 0 .. 2 ^ PpnBits - 1
<1>1. CASE i = 0
  BY <1>1, PpnFits DEF PageOf
<1>2. CASE i # 0
  <2> DEFINE x == 2 ^ (PpnBits - VpnBits * i)
             y == PageSize ^ i
             z == 2 ^ PpnBits
             a == PpnOf(pte) % x
             b == (va \div PageSize) % y
  <2>1. x \in Nat \ {0} /\ y \in Nat \ {0} /\ x * y = z /\ z \in Nat \ {0}
    <3>1. i \in 0 .. Levels
      BY MmuAssumption
    <3> QED BY <3>1, PageAssumption
  <2>2. PpnOf(pte) \in Nat /\ va \div PageSize \in Nat
    <3>1. PpnOf(pte) \in Nat
      BY <2>1, PpnFits
    <3>2. va \div PageSize \in Nat
      BY MmuAssumption, DivModDef
    <3> QED BY <3>1, <3>2
  <2>3. PageOf(va, i, pte) = a + b
    BY <1>2 DEF PageOf
  <2> HIDE DEF x, y, z
  <2>4. a \in 0 .. x - 1 /\ b \in 0 .. y - 1
    BY <2>1, <2>2, NatDivMod
  <2> HIDE DEF a, b
  <2>5. x + y <= x * y + 1
    BY <2>1, SumUnderProduct
  <2>6. x + y <= z + 1
    BY <2>1, <2>5
  <2>7. a + b \in 0 .. z - 1
    BY <2>1, <2>4, <2>6
  <2> QED BY <2>3, <2>7 DEF z
<1> QED BY <1>1, <1>2

\* A translation leaves the items sound and the emulator running, and what it
\* returns is an address.
TranslationOk(t) ==
    Sound(t.s) /\ t.s.htif.power = "on" /\ (t.ok => t.pa \in 0 .. Space - 1)

\* Every address of the guest, in every mode, through every table.
LEMMA TranslateOk ==
    ASSUME TableInv, phase = "running", NEW s, Sound(s), s.htif.power = "on",
           NEW cpu \in Cpus, NEW va \in 0 .. Space - 1, NEW access
    PROVE  TranslationOk(address_translate(s, cpu, va, access))
<1> DEFINE priv == EffectivePriv(cpu, access)
           t == address_translate(s, cpu, va, access)
<1>0. va \in Nat /\ Space \in Nat
  BY BusAssumption
<1>1. CASE priv = PRIV_M
  <2>1. cpu.xlen \in 1 .. AddrBits
    BY MmuAssumption
  <2> DEFINE m == 2 ^ cpu.xlen
  <2>2. m \in Nat \ {0}
    BY <2>1, PageAssumption
  <2>3. t.s = s /\ t.pa = va % m
    BY <1>1 DEF address_translate
  <2> HIDE DEF m, t
  <2>4. va % m \in 0 .. Space - 1
    <3> DEFINE q == va \div m
               p == q * m
    <3>1. q \in Nat /\ va % m \in Nat /\ va = (q * m) + (va % m)
      BY <1>0, <2>2, DivModDef
    <3> HIDE DEF q
    <3>2. p \in Nat
      BY <2>2, <3>1
    <3> HIDE DEF p
    <3> QED BY <1>0, <3>1, <3>2 DEF p
  <2> QED BY <2>3, <2>4 DEF TranslationOk, t
<1>2. CASE priv # PRIV_M /\ cpu.mode = "bare"
  <2>1. t.s = s /\ t.pa = va
    BY <1>2 DEF address_translate
  <2> QED BY <2>1 DEF TranslationOk
<1>3. CASE priv # PRIV_M /\ cpu.mode # "bare"
  <2> DEFINE leaf == Leaf(s, va)
             pte == Marked(leaf.pte, access)
             marked == IF pte = leaf.pte THEN s ELSE write_bytes(s, leaf.at, <<pte>>, 1).s
  <2>1. t = UseLeaf(s, cpu, priv, va, access, leaf)
    BY <1>3 DEF address_translate, translate_action
  <2>2. WalkOk(leaf)
    BY <1>0, LeafOk
  <2>3. CASE t = NoTranslation(s)
    <3>1. t.s = s /\ t.ok = FALSE
      BY <2>3 DEF NoTranslation
    <3> QED BY <3>1 DEF TranslationOk
  <2>4. CASE leaf.found /\ t = MarkAndPlace(s, leaf, pte, va)
    <3>1. Place(leaf) /\ leaf.pte \in Nat
      BY <2>2, <2>4 DEF WalkOk
    <3>2. pte \in Nat /\ pte >= 32
      BY <3>1, MarkedSet
    <3> HIDE DEF leaf, pte
    <3>3. Sound(marked) /\ marked.htif.power = "on"
      <4> DEFINE value == <<pte>>
      <4>1. value[1] = pte /\ \A k \in 1 .. 1 : value[k] \in Nat
        BY <3>2
      <4>2. value[1] # 1
        BY <3>2
      <4> HIDE DEF value
      <4>3. leaf.at \in 0 .. Space - 1
        BY <3>1 DEF Place
      <4>4. /\ Sound(write_bytes(s, leaf.at, value, 1).s)
            /\ write_bytes(s, leaf.at, value, 1).s.htif.power = "on"
        BY <4>1, <4>2, <4>3, WordsWritten
      <4> QED BY <4>4 DEF value
    <3>4. t.s = marked
      BY <2>4 DEF MarkAndPlace, NoTranslation
    <3> HIDE DEF marked
    <3>5. t.ok => t.pa \in 0 .. Space - 1
      <4> DEFINE page == PageOf(va, leaf.level, pte)
                 k == va % PageSize
      <4>1. page \in 0 .. 2 ^ PpnBits - 1
        BY <1>0, <3>1, <3>2, PageFits DEF Place
      <4>2. k \in 0 .. PageSize - 1
        BY <1>0, MmuAssumption, NatDivMod
      <4>3. page * PageSize + k \in 0 .. Space - 1
        <5> HIDE DEF page, k
        <5> QED BY <4>1, <4>2, PageWord
      <4>4. t.ok => t.pa = page * PageSize + k
        BY <2>4 DEF MarkAndPlace, NoTranslation
      <4> HIDE DEF page, k, t
      <4> QED BY <4>3, <4>4
    <3> QED BY <3>3, <3>4, <3>5 DEF TranslationOk
  <2>5. t = NoTranslation(s) \/ (leaf.found /\ t = MarkAndPlace(s, leaf, pte, va))
    <3> HIDE DEF t, leaf
    <3> QED BY <2>1 DEF UseLeaf
  <2> QED BY <2>3, <2>4, <2>5
<1> HIDE DEF t
<1> QED BY <1>1, <1>2, <1>3 DEF t

-----------------------------------------------------------------------------
(* The accesses.                                                           *)

\* The words that a store writes are numbers.
Stores(access, value, n) == access = PTE_W => \A k \in 1 .. n : value[k] \in Nat

\* A physical access of one or two words keeps the items sound.
LEMMA PhysicalOk ==
    ASSUME TableInv, phase = "running", NEW s, Sound(s), s.htif.power = "on",
           NEW a \in 0 .. Space - 1, NEW access, NEW n \in {1, 2}, NEW value, Stores(access, value, n)
    PROVE  Sound(Physical(s, a, access, value, n).s)
<1>1. CASE access = PTE_W
  <2>1. \A k \in 1 .. n : value[k] \in Nat
    BY <1>1 DEF Stores
  <2> QED BY <1>1, <2>1, WordsWritten DEF Physical
<1>2. CASE access # PTE_W
  BY <1>2, ReadKeeps DEF Physical
<1> QED BY <1>1, <1>2

\* A report leaves the state as the access has left it.
LEMMA ReportedState ==
    ASSUME NEW r, NEW cause, NEW va
    PROVE  Reported(r, cause, va).s = r.s
BY DEF Reported, Done, Faults

\* Two parts leave the state that the second has left.
LEMMA JoinedState ==
    ASSUME NEW first, NEW second
    PROVE  Joined(first, second).s = second.s
BY DEF Joined, Done

\* The two words of a store.
LEMMA TwoWords ==
    ASSUME NEW value \in Seq(Nat), Len(value) = 2
    PROVE  /\ value[1] \in Nat /\ value[2] \in Nat
           /\ SubSeq(value, 1, 1)[1] = value[1] /\ SubSeq(value, 1 + 1, 2)[1] = value[2]
<1>1. 1 \in 1 .. Len(value) /\ 2 \in 1 .. Len(value)
  OBVIOUS
<1>2. value[1] \in Nat /\ value[2] \in Nat
  <2>1. \A k \in 1 .. Len(value) : value[k] \in Nat
    BY ElementOfSeq
  <2> QED BY <1>1, <2>1
<1>3. SubSeq(value, 1, 1)[1] = value[1]
  BY <1>2
<1>4. SubSeq(value, 1 + 1, 2)[1] = value[2]
  BY <1>2
<1> QED BY <1>2, <1>3, <1>4

\* An access in two parts is of two words, one in each page.
LEMMA PartsOk ==
    ASSUME NEW access, NEW value \in Seq(Nat), access = PTE_W => Len(value) = 2
    PROVE  Stores(access, SubSeq(value, 1, 1), 1) /\ Stores(access, SubSeq(value, 1 + 1, 2), 2 - 1)
<1>1. CASE access # PTE_W
  BY <1>1 DEF Stores
<1>2. CASE access = PTE_W
  <2>1. Len(value) = 2
    BY <1>2
  <2> QED BY <2>1, TwoWords DEF Stores
<1> QED BY <1>1, <1>2

\* The second part, of one word.
LEMMA SecondOk ==
    ASSUME TableInv, phase = "running", NEW t, TranslationOk(t), NEW va,
           NEW access, NEW value, Stores(access, value, 1)
    PROVE  Sound(SecondPart(t, va, access, value, 1).s)
<1>1. CASE ~ t.ok
  BY <1>1 DEF SecondPart, Faults, TranslationOk
<1>2. CASE t.ok
  <2>1. Sound(Physical(t.s, t.pa, access, value, 1).s)
    BY <1>2, PhysicalOk DEF TranslationOk
  <2> QED BY <1>2, <2>1, ReportedState DEF SecondPart
<1> QED BY <1>1, <1>2

\* The rest of an access that crosses a page begins in what the first part has left.
LEMMA AfterFirstOk ==
    ASSUME TableInv, phase = "running", NEW first, Sound(first.s), NEW cpu \in Cpus,
           NEW va \in 0 .. Space - 1, Room(va) = 1, NEW access,
           NEW value \in Seq(Nat), access = PTE_W => Len(value) = 2
    PROVE  Sound(AfterFirst(first, cpu, va, access, value, 2).s)
<1> DEFINE next == (va + Room(va)) % Space
           t == address_translate(first.s, cpu, next, access)
           rest == SubSeq(value, 1 + 1, 2)
           second == SecondPart(t, next, access, rest, 1)
<1>1. CASE ~ first.ok
  BY <1>1 DEF AfterFirst, Faults
<1>2. CASE first.ok /\ first.s.htif.power # "on"
  BY <1>2 DEF AfterFirst, Done
<1>3. CASE first.ok /\ first.s.htif.power = "on"
  <2>1. next \in 0 .. Space - 1
    BY BusAssumption, NatDivMod
  <2>2. TranslationOk(t)
    <3> HIDE DEF next
    <3> QED BY <1>3, <2>1, TranslateOk
  <2>3. Stores(access, rest, 1)
    BY PartsOk
  <2> HIDE DEF t, rest, next
  <2>4. Sound(second.s)
    BY <2>2, <2>3, SecondOk
  <2> HIDE DEF second
  <2>5. AfterFirst(first, cpu, va, access, value, 2) = Joined(first, second)
    <3>1. 2 - Room(va) = 1 /\ Room(va) + 1 = 1 + 1
      OBVIOUS
    <3> QED BY <1>3, <3>1 DEF AfterFirst, second, t, rest, next
  <2> QED BY <2>4, <2>5, JoinedState
<1> QED BY <1>1, <1>2, <1>3

\* An access to a translated address, whole or in two parts.
LEMMA MakeAccessOk ==
    ASSUME TableInv, phase = "running", NEW t, TranslationOk(t), NEW cpu \in Cpus,
           NEW va \in 0 .. Space - 1, NEW access,
           NEW n \in {1, 2}, NEW value \in Seq(Nat), access = PTE_W => Len(value) = n
    PROVE  Sound(MakeAccess(t, cpu, va, access, value, n).s)
<1>1. CASE ~ t.ok
  BY <1>1 DEF MakeAccess, Faults, TranslationOk
<1>2. CASE t.ok /\ (t.pa = va \/ Room(va) >= n)
  <2>1. Stores(access, value, n)
    BY DEF Stores
  <2>2. Sound(Physical(t.s, t.pa, access, value, n).s)
    BY <1>2, <2>1, PhysicalOk DEF TranslationOk
  <2>3. MakeAccess(t, cpu, va, access, value, n) = Whole(t, va, access, value, n)
    BY <1>2 DEF MakeAccess
  <2> QED BY <2>2, <2>3, ReportedState DEF Whole
<1>3. CASE t.ok /\ ~ (t.pa = va \/ Room(va) >= n)
  <2>1. Room(va) = 1 /\ n = 2
    <3>1. va \in Nat /\ PageSize \in Nat \ {0}
      BY BusAssumption, MmuAssumption
    <3>2. va % PageSize \in 0 .. PageSize - 1
      BY <3>1, NatDivMod
    <3>3. Room(va) \in Nat \ {0}
      BY <3>1, <3>2 DEF Room
    <3> QED BY <1>3, <3>3
  <2> DEFINE part == SubSeq(value, 1, 1)
             first == Physical(t.s, t.pa, access, part, 1)
  <2>2. Stores(access, part, 1)
    BY <2>1, PartsOk
  <2>3. Sound(first.s)
    <3> HIDE DEF part
    <3> QED BY <1>3, <2>2, PhysicalOk DEF TranslationOk
  <2>4. MakeAccess(t, cpu, va, access, value, n) = AfterFirst(first, cpu, va, access, value, 2)
    BY <1>3, <2>1 DEF MakeAccess
  <2> HIDE DEF first
  <2> QED BY <2>1, <2>3, <2>4, AfterFirstOk
<1> QED BY <1>1, <1>2, <1>3

\* The whole of a load, a store or a fetch.
LEMMA AccessSound ==
    ASSUME TableInv, phase = "running", NEW s, Sound(s), s.htif.power = "on", NEW cpu \in Cpus,
           NEW va \in 0 .. Space - 1, NEW access,
           NEW n \in {1, 2}, NEW value \in Seq(Nat), access = PTE_W => Len(value) = n
    PROVE  Sound(vaddr(s, cpu, va, access, value, n).s)
BY TranslateOk, MakeAccessOk DEF vaddr

\* A new access has written nothing to the console yet.
LEMMA QuietSound ==
    ASSUME NEW s, Sound(s)
    PROVE  Sound(Quiet(s)) /\ Quiet(s).htif.power = s.htif.power
<1>0. PICK lo \in Nat, hi \in Nat, flo \in Nat, fhi \in Nat :
          \E power, printed : s.htif = Host(lo, hi, flo, fhi, power, printed) /\ Answering(lo, hi, power)
  BY DEF Sound, IsHost
<1>1. PICK power, printed : s.htif = Host(lo, hi, flo, fhi, power, printed) /\ Answering(lo, hi, power)
  BY <1>0
<1> DEFINE h == Host(lo, hi, flo, fhi, power, NoChar)
<1>2. Quiet(s) = [ram |-> s.ram, htif |-> h]
  <2>1. s.htif = [tohost |-> <<lo, hi>>, fromhost |-> <<flo, fhi>>, power |-> power, printed |-> printed]
    BY <1>1 DEF Host
  <2>2. [s.htif EXCEPT !.printed = NoChar] = h
    BY <2>1 DEF Host
  <2>3. s = [ram |-> s.ram, htif |-> s.htif]
    BY DEF Sound
  <2> HIDE DEF h
  <2>4. Quiet(s) = [s EXCEPT !.htif = [s.htif EXCEPT !.printed = NoChar]]
    BY DEF Quiet
  <2> QED BY <2>2, <2>3, <2>4
<1>3. IsHost(h) /\ h.power = power /\ s.htif.power = power
  BY <1>1, IsHostIntro, HostFields
<1> HIDE DEF h
<1> QED BY <1>2, <1>3 DEF Sound

-----------------------------------------------------------------------------
(* The invariant.                                                          *)

HostInv ==
    /\ TableInv
    /\ phase \in {"register", "running", "exited"}
    /\ phase # "running" => bus = [ram |-> <<>>, htif |-> htif_init]
    /\ Sound(bus)

\* The items as they are before the first access.
LEMMA StartSound ==
    ASSUME phase # "running"
    PROVE  Sound([ram |-> <<>>, htif |-> htif_init])
<1> DEFINE s == [ram |-> <<>>, htif |-> htif_init]
<1>1. htif_init = Host(0, 0, 0, 0, "on", NoChar) /\ Answering(0, 0, "on")
  BY ZeroIsNone DEF htif_init, Host, Answering
<1>2. IsHost(htif_init)
  BY <1>1, IsHostIntro
<1>3. s.ram = <<>> /\ s.htif = htif_init
  OBVIOUS
<1>4. s.ram \in [DOMAIN s.ram -> Nat] /\ DOMAIN s.ram \subseteq Nat
  <2>1. DOMAIN s.ram = 1 .. 0
    BY <1>3
  <2> QED BY <1>3, <2>1
<1> HIDE DEF s
<1>5. s = [ram |-> s.ram, htif |-> s.htif]
  BY DEF s
<1>6. Sound(s)
  BY <1>2, <1>3, <1>4, <1>5 DEF Sound
<1> QED BY <1>6 DEF s

\* Nothing is registered at the start.
LEMMA InitHost == Init => HostInv
<1> SUFFICES ASSUME Init PROVE HostInv
  OBVIOUS
<1>1. BusInv /\ phase = "register" /\ address_items = <<>> /\ bus = [ram |-> <<>>, htif |-> htif_init]
  BY InitBus DEF Init, BusInit
<1>2. TableInv
  BY <1>1 DEF TableInv
<1> QED BY <1>1, <1>2, StartSound DEF HostInv

\* Low memory is the first that main tries to register: when it is in the table,
\* it is the first item of it.
LEMMA RegisterHost ==
    ASSUME HostInv, RegisterNext
    PROVE  HostInv'
<1> DEFINE item == Modules[registered + 1]
           n == Len(address_items)
<1>1. BusInv' /\ phase = "register" /\ phase' = phase /\ bus' = bus /\ registered' # 0
  <2>1. BusInv /\ registered \in Nat
    BY DEF HostInv, TableInv, BusInv
  <2>2. BusInv'
    BY <2>1, RegisterBus
  <2> QED BY <2>1, <2>2 DEF RegisterNext
<1>2. registered \in Nat /\ registered + 1 \in DOMAIN Modules /\ item \in Board
  <2>1. registered \in Nat /\ registered < Len(Modules)
    BY DEF HostInv, TableInv, BusInv, RegisterNext
  <2>2. registered + 1 \in DOMAIN Modules
    BY <2>1, BusAssumption
  <2> QED BY <2>1, <2>2 DEF Board
<1>3. address_items' = address_items \/ address_items' = Append(address_items, item)
  BY DEF RegisterNext, register_address
<1>4. CASE address_items' = address_items
  <2>1. TableInv'
    BY <1>1, <1>4 DEF HostInv, TableInv
  <2> QED BY <1>1, <2>1 DEF HostInv, Sound
<1>5. CASE address_items' = Append(address_items, item)
  <2>1. address_items \in Seq(Item) /\ item \in Item /\ n \in Nat
    <3>1. address_items \in Seq(Item)
      BY DEF HostInv, TableInv, BusInv
    <3> QED BY <1>2, <3>1, BusAssumption
  <2> HIDE DEF item
  <2>2. /\ DOMAIN address_items' = 1 .. n + 1 /\ DOMAIN address_items = 1 .. n
        /\ \A i \in 1 .. n : address_items'[i] = address_items[i]
        /\ address_items'[n + 1] = item
    BY <1>5, <2>1
  <2>3. \A i \in DOMAIN address_items' : address_items'[i] \in Board
    <3>1. \A i \in DOMAIN address_items : address_items[i] \in Board
      BY DEF HostInv, TableInv
    <3> QED BY <1>2, <2>1, <2>2, <3>1
  <2>4. ASSUME NEW i \in DOMAIN address_items', address_items'[i] = BootItem
        PROVE  address_items'[1] = BootItem
    <3>1. CASE i \in 1 .. n
      <4>1. address_items[1] = BootItem
        BY <2>2, <2>4, <3>1 DEF HostInv, TableInv
      <4>2. 1 \in 1 .. n
        BY <2>1, <3>1
      <4> QED BY <2>2, <4>1, <4>2
    <3>2. CASE i = n + 1
      <4>1. item = BootItem
        BY <2>2, <2>4, <3>2
      <4>2. registered + 1 = 1
        BY <1>2, <4>1, BoardAssumption DEF item
      <4>3. registered = 0
        BY <1>2, <4>2
      <4>4. address_items = <<>>
        BY <4>3 DEF HostInv, TableInv
      <4>5. n = 0
        BY <4>4
      <4> QED BY <2>4, <3>2, <4>5
    <3> QED BY <2>1, <2>2, <2>4, <3>1, <3>2
  <2>5. TableInv'
    BY <1>1, <2>3, <2>4 DEF TableInv
  <2> QED BY <1>1, <2>5 DEF HostInv, Sound
<1> QED BY <1>3, <1>4, <1>5

\* The table stays, so that what is sound before a step is so behind it.
LEMMA SoundNext ==
    ASSUME Sound(bus'), UNCHANGED address_items, phase' = "running" => DOMAIN bus'.ram = MemoryWords
    PROVE  Sound(bus)'
BY DEF Sound, MemoryWords, LastOf

\* The image goes to a memory, if to any item.
LEMMA ImageStored ==
    ASSUME TableInv, NEW s, Sound(s), NEW image \in Images
    PROVE  /\ Sound(write_bytes(s, RamStart, image, Len(image)).s)
           /\ DOMAIN write_bytes(s, RamStart, image, Len(image)).s.ram = DOMAIN s.ram
<1> DEFINE n == Len(image)
           places == Accepting(RamStart, n)
           item == First(places)
<1>0. /\ image \in Seq(Nat) /\ n \in Nat /\ RamStart \in 0 .. Space - 1 /\ Space \in Nat \ {0}
      /\ RamStart + n < Space
  BY BusAssumption, BoardAssumption
<1>1. CASE places = {}
  BY <1>1 DEF write_bytes, Refused
<1>2. CASE places # {}
  <2>1. places \subseteq DOMAIN address_items /\ places \subseteq Nat
    BY DEF Accepting, TableInv, BusInv
  <2>2. PICK i \in places : item = address_items[i]
    BY <1>2, <2>1, FirstOf
  <2>3. check_in(item, RamStart, n) /\ item \in Item /\ item \in Board
    BY <2>1, <2>2 DEF Accepting, TableInv, BusInv
  <2>4. write_bytes(s, RamStart, image, n) = write_item(s, item, RamStart, image, n)
    BY <1>2 DEF write_bytes
  <2> HIDE DEF item
  <2>5. (RamStart + n) % Space = RamStart + n
    <3> DEFINE x == RamStart + n
    <3>1. x \in Int /\ 0 <= x /\ x < Space
      BY <1>0
    <3> HIDE DEF x
    <3>2. x % Space = x
      BY <1>0, <3>1, DivSmall
    <3> QED BY <3>2 DEF x
  <2>6. item.start \in Nat /\ item.size \in Nat
    BY <1>0, <2>3, BusAssumption DEF Item
  <2> HIDE DEF n
  <2>7. RamStart \in item.start .. item.start + item.size - 1
    BY <1>0, <2>3, <2>5, <2>6 DEF check_in, LastOf
  <2>8. item.kind = "memory"
    BY <2>3, <2>7, BoardAssumption DEF Board
  <2>9. write_item(s, item, RamStart, image, n) = memory_write(s, item, RamStart, image, n)
    BY <2>8 DEF write_item
  <2>10. \A k \in 1 .. n : image[k] \in Nat
    BY <1>0 DEF n
  <2>11. /\ Sound(memory_write(s, item, RamStart, image, n).s)
         /\ DOMAIN memory_write(s, item, RamStart, image, n).s.ram = DOMAIN s.ram
    BY <1>0, <2>10, MemoryStored
  <2> QED BY <2>4, <2>9, <2>11 DEF n
<1> QED BY <1>1, <1>2

\* Without low memory main gives up; with it the guest starts.
LEMMA BootHost ==
    ASSUME HostInv, Boot
    PROVE  HostInv'
<1>1. /\ TableInv /\ BusInv /\ phase = "register" /\ UNCHANGED <<registered, address_items>>
      /\ bus = [ram |-> <<>>, htif |-> htif_init] /\ Sound(bus)
  BY DEF HostInv, TableInv, Boot
<1>2. BusInv'
  BY <1>1 DEF BusInv, check_overlap
<1>3. CASE \E i \in DOMAIN address_items : address_items[i] = BootItem
  <2>1. phase' = "running"
    BY <1>3 DEF Boot
  <2>2. address_items # <<>> /\ address_items[1] = BootItem
    BY <1>1, <1>3 DEF TableInv
  <2>3. TableInv'
    BY <1>1, <1>2, <2>1, <2>2 DEF TableInv
  <2> DEFINE s == [bus EXCEPT !.ram = [a \in MemoryWords |-> 0]]
  <2>4. PICK image \in Images : bus' = write_bytes(s, RamStart, image, Len(image)).s
    BY <1>3 DEF Boot
  <2>5. Sound(s)
    <3> DEFINE ram == [a \in MemoryWords |-> 0]
    <3>1. s = [ram |-> ram, htif |-> bus.htif]
      BY <1>1 DEF Sound
    <3>2. MemoryWords \subseteq Nat
      <4>1. \A i \in DOMAIN address_items : address_items[i].start \in Nat /\ address_items[i].size \in Nat
        <5>1. \A i \in DOMAIN address_items : address_items[i] \in Item
          BY <1>1 DEF BusInv
        <5>2. Space \in Nat \ {0}
          BY BusAssumption
        <5> QED BY <5>1, <5>2 DEF Item
      <4> QED BY <4>1 DEF MemoryWords, LastOf
    <3>3. DOMAIN ram = MemoryWords /\ ram \in [MemoryWords -> Nat]
      OBVIOUS
    <3> HIDE DEF s, ram
    <3>4. s.ram = ram /\ s.htif = bus.htif
      BY <3>1
    <3> QED BY <1>1, <3>1, <3>2, <3>3, <3>4 DEF Sound
  <2> HIDE DEF s
  <2>6. DOMAIN s.ram = MemoryWords
    BY <1>1 DEF s, Sound
  <2>7. Sound(bus') /\ DOMAIN bus'.ram = MemoryWords
    BY <1>1, <2>4, <2>5, <2>6, ImageStored
  <2>8. Sound(bus)'
    BY <1>1, <2>7, SoundNext
  <2> QED BY <2>1, <2>3, <2>8 DEF HostInv
<1>4. CASE ~ \E i \in DOMAIN address_items : address_items[i] = BootItem
  <2>1. phase' = "exited" /\ bus' = bus
    BY <1>4 DEF Boot
  <2>2. TableInv'
    BY <1>1, <1>2, <2>1 DEF TableInv
  <2> QED BY <1>1, <2>1, <2>2 DEF HostInv, Sound
<1> QED BY <1>3, <1>4

\* Accesses leave the table alone and the items sound.
LEMMA AccessHost ==
    ASSUME HostInv, NEW cpu \in Cpus, NEW va \in VAddrs, NEW access, NEW n \in {1, 2},
           NEW value \in Seq(Nat), access = PTE_W => Len(value) = n, Access(cpu, va, access, value, n)
    PROVE  HostInv'
<1>1. /\ TableInv /\ phase = "running" /\ UNCHANGED <<phase, registered, address_items>>
      /\ Sound(bus) /\ bus.htif.power = "on"
  BY DEF HostInv, Access
<1>2. Sound(Quiet(bus)) /\ Quiet(bus).htif.power = "on"
  BY <1>1, QuietSound
<1>3. va \in 0 .. Space - 1
  BY MmuAssumption
<1>4. bus' = vaddr(Quiet(bus), cpu, va, access, value, n).s
  BY DEF Access
<1>5. Sound(bus')
  BY <1>1, <1>2, <1>3, <1>4, AccessSound
<1>6. TableInv'
  BY <1>1 DEF TableInv, BusInv, check_overlap
<1>7. DOMAIN bus'.ram = MemoryWords
  BY <1>1, <1>5 DEF Sound
<1>8. Sound(bus)'
  BY <1>1, <1>5, <1>7, SoundNext
<1> QED BY <1>1, <1>6, <1>8 DEF HostInv

\* Every step of main and of the guest.
LEMMA StepHost ==
    ASSUME HostInv, [Next]_memVars
    PROVE  HostInv'
<1>0. <<>> \in Seq(Nat)
  OBVIOUS
<1>1. CASE RegisterNext
  BY <1>1, RegisterHost
<1>2. CASE Boot
  BY <1>2, BootHost
<1>3. CASE Load
  <2>1. PICK cpu \in Cpus, va \in VAddrs, n \in 1 .. 2 : Access(cpu, va, PTE_R, <<>>, n)
    BY <1>3 DEF Load
  <2>2. n \in {1, 2} /\ PTE_R # PTE_W
    BY DEF PTE_R, PTE_W
  <2> QED BY <1>0, <2>1, <2>2, AccessHost
<1>4. CASE Fetch
  <2>1. PICK cpu \in Cpus, va \in VAddrs : Access(cpu, va, PTE_X, <<>>, 2)
    BY <1>4 DEF Fetch
  <2>2. PTE_X # PTE_W
    BY DEF PTE_X, PTE_W
  <2> QED BY <1>0, <2>1, <2>2, AccessHost
<1>5. CASE Store
  <2>1. PICK cpu \in Cpus, va \in VAddrs, value \in Values : Access(cpu, va, PTE_W, value, Len(value))
    BY <1>5 DEF Store
  <2>2. value \in Seq(Nat) /\ Len(value) \in {1, 2}
    BY MmuAssumption
  <2> QED BY <2>1, <2>2, AccessHost
<1>6. CASE UNCHANGED memVars
  <2>1. UNCHANGED <<phase, registered, address_items, bus>>
    BY <1>6 DEF memVars, busVars
  <2>2. TableInv'
    BY <2>1 DEF HostInv, TableInv, BusInv, check_overlap
  <2>3. Sound(bus') /\ (phase' = "running" => DOMAIN bus'.ram = MemoryWords)
    BY <2>1 DEF HostInv, Sound
  <2>4. Sound(bus)'
    BY <2>1, <2>3, SoundNext
  <2> QED BY <2>1, <2>2, <2>4 DEF HostInv
<1> QED BY <1>1, <1>2, <1>3, <1>4, <1>5, <1>6 DEF Next

\* Whatever the guest maps, stores or fetches, through however many levels of
\* tables, neither output to the console nor input from it is left in tohost
\* (only a command that the console does not know stays there), and the emulator
\* does not end with status 0 through it.
THEOREM HostAnswersCommands == Spec => []HtifAnswered
<1>1. HostInv /\ [Next]_memVars => HostInv'
  BY StepHost
<1>2. HostInv => HtifAnswered
  <2> SUFFICES ASSUME HostInv PROVE HtifAnswered
    OBVIOUS
  <2>1. PICK lo \in Nat, hi \in Nat, flo \in Nat, fhi \in Nat :
          \E power, printed : bus.htif = Host(lo, hi, flo, fhi, power, printed) /\ Answering(lo, hi, power)
    BY DEF HostInv, Sound, IsHost
  <2>2. PICK power, printed : bus.htif = Host(lo, hi, flo, fhi, power, printed) /\ Answering(lo, hi, power)
    BY <2>1
  <2>3. bus.htif.tohost[2] = hi /\ bus.htif.power = power
    BY <2>2, HostFields
  <2>4. ~ ConsoleCommand(hi) /\ power # "exit 0"
    BY <2>2 DEF Answering
  <2> QED BY <2>3, <2>4 DEF HtifAnswered
<1> QED BY InitHost, <1>1, <1>2, PTL DEF Spec

-----------------------------------------------------------------------------
(* The words of memory that a load can reach.                              *)

\* Such a word lies in one item, a memory, which accepts it.
LEMMA ReachableItem ==
    ASSUME TableInv, NEW at \in Reachable
    PROVE  /\ at \in 0 .. Space - 1 /\ at \in MemoryWords /\ Accepting(at, 1) # {}
           /\ First(Accepting(at, 1)).kind = "memory"
           /\ check_valid(First(Accepting(at, 1)), at, 1)
<1>1. PICK i \in DOMAIN address_items :
          address_items[i].kind = "memory" /\ at \in address_items[i].start .. LastOf(address_items[i]) - 1
  BY DEF Reachable
<1> DEFINE item == address_items[i]
<1>2. item.start \in Nat /\ item.size \in Nat /\ LastOf(item) < Space /\ Space \in Nat \ {0}
  <2>1. item \in Item /\ LastOf(item) < Space
    BY DEF TableInv, BusInv
  <2> QED BY <2>1, BusAssumption DEF Item
<1>3. at \in 0 .. Space - 1 /\ at + 1 < Space /\ at >= item.start /\ at + 1 <= LastOf(item)
  BY <1>1, <1>2 DEF LastOf
<1>4. at \in MemoryWords
  <2>1. at \in item.start .. LastOf(item)
    BY <1>1, <1>2 DEF LastOf
  <2> QED BY <1>1, <2>1 DEF MemoryWords
<1>5. i \in Accepting(at, 1)
  <2>1. (at + 1) % Space = at + 1
    BY <1>3, EndOf
  <2> QED BY <1>3, <2>1 DEF Accepting, check_in
<1>6. Accepting(at, 1) = {i}
  <2>1. OneItemAnswers
    BY OneAnswers DEF TableInv
  <2>2. 1 \in 1 .. 2
    OBVIOUS
  <2> QED BY <1>3, <1>5, <2>1, <2>2 DEF OneItemAnswers
<1>7. First(Accepting(at, 1)) = item
  <2>1. {i} \subseteq Nat
    BY DEF TableInv, BusInv
  <2> QED BY <1>6, <2>1, FirstOf
<1>8. check_valid(item, at, 1)
  <2> DEFINE y == at + 1 + Space - item.start
  <2>1. y \in Int /\ Space <= y /\ y < 2 * Space /\ y - Space <= item.size
    BY <1>2, <1>3 DEF LastOf
  <2> HIDE DEF y
  <2>2. y % Space = y - Space
    BY <1>2, <2>1, DivSmall
  <2> QED BY <2>1, <2>2 DEF check_valid, y
<1> QED BY <1>1, <1>3, <1>4, <1>6, <1>7, <1>8

\* A walk finds in such a word what memory holds,
LEMMA ReadReachable ==
    ASSUME TableInv, phase = "running", NEW s, Sound(s), NEW at \in Reachable
    PROVE  read_bytes(s, at, 1).data # <<>> /\ read_bytes(s, at, 1).data[1] = s.ram[at] /\ s.ram[at] \in Nat
<1> DEFINE item == First(Accepting(at, 1))
           data == [k \in 1 .. 1 |-> s.ram[(at + k - 1) % Space]]
<1>1. at \in 0 .. Space - 1 /\ at \in DOMAIN s.ram /\ Space \in Nat \ {0} /\ s.ram[at] \in Nat
  BY ReachableItem, BusAssumption DEF Sound
<1>2. at % Space = at /\ at + 0 = at /\ at + 1 - 1 = at
  BY <1>1, DivSmall
<1>3. read_bytes(s, at, 1) = read_item(s, item, at, 1) /\ item.kind = "memory" /\ check_valid(item, at, 1)
  BY ReachableItem DEF read_bytes
<1> HIDE DEF item
<1>4. read_bytes(s, at, 1) = memory_read(s, item, at, 1)
  BY <1>3 DEF read_item
<1>5. \A k \in 0 .. 1 - 1 : (at + k) % Space \in DOMAIN s.ram
  BY <1>1, <1>2
<1>6. read_bytes(s, at, 1).data = data
  BY <1>3, <1>4, <1>5 DEF memory_read, Answered
<1>7. data[1] = s.ram[at] /\ data # <<>>
  BY <1>2
<1> QED BY <1>1, <1>6, <1>7

\* and leaves there what it marks, and nothing else.
LEMMA WriteReachable ==
    ASSUME TableInv, phase = "running", NEW s, Sound(s), NEW at \in Reachable, NEW pte
    PROVE  LET written == write_bytes(s, at, <<pte>>, 1).s
           IN  /\ written.ram[at] = pte
               /\ \A b \in DOMAIN s.ram : b # at => written.ram[b] = s.ram[b]
<1> DEFINE item == First(Accepting(at, 1))
           value == <<pte>>
           place(b) == ((b + Space - at) % Space) + 1
           ram == [b \in DOMAIN s.ram |-> IF place(b) <= 1 THEN value[place(b)] ELSE s.ram[b]]
<1>1. at \in 0 .. Space - 1 /\ at \in DOMAIN s.ram /\ Space \in Nat \ {0}
  BY ReachableItem, BusAssumption DEF Sound
<1>2. write_bytes(s, at, value, 1) = write_item(s, item, at, value, 1) /\ item.kind = "memory" /\ check_valid(item, at, 1)
  BY ReachableItem DEF write_bytes
<1> HIDE DEF item
<1>3. write_bytes(s, at, value, 1).s = [s EXCEPT !.ram = ram]
  BY <1>2 DEF write_item, memory_write, Answered
<1>4. write_bytes(s, at, value, 1).s.ram = ram
  BY <1>3 DEF Sound
<1>5. ASSUME NEW b \in DOMAIN s.ram
      PROVE  /\ b = at => place(b) = 1
             /\ b # at => ~ (place(b) <= 1)
  <2>1. b \in 0 .. Space - 1
    <3>1. b \in MemoryWords
      BY <1>5 DEF Sound
    <3>2. PICK i \in DOMAIN address_items : b \in address_items[i].start .. LastOf(address_items[i])
      BY <3>1 DEF MemoryWords
    <3>3. address_items[i].start \in Nat /\ address_items[i].size \in Nat /\ LastOf(address_items[i]) < Space
      <4>1. address_items[i] \in Item /\ LastOf(address_items[i]) < Space
        BY DEF TableInv, BusInv
      <4> QED BY <4>1, BusAssumption DEF Item
    <3> QED BY <1>1, <3>2, <3>3 DEF LastOf
  <2> DEFINE y == b + Space - at
  <2>2. y \in Int /\ 0 <= y /\ y < 2 * Space
    BY <1>1, <2>1
  <2>3. (b = at => y = Space) /\ (b # at => y # Space) /\ y # 0
    BY <1>1, <2>1
  <2> HIDE DEF y
  <2>4. (y < Space => y % Space = y) /\ (Space <= y => y % Space = y - Space)
    BY <1>1, <2>2, DivSmall
  <2>5. place(b) = (y % Space) + 1
    BY DEF y
  <2> HIDE DEF place
  <2>6. (y = Space => y % Space = 0) /\ (y # Space => y % Space > 0) /\ y % Space \in Int
    BY <1>1, <2>2, <2>3, <2>4
  <2> QED BY <2>3, <2>5, <2>6
<1> HIDE DEF place
<1>6. ram[at] = pte
  BY <1>1, <1>5
<1>7. \A b \in DOMAIN s.ram : b # at => ram[b] = s.ram[b]
  BY <1>5
<1> QED BY <1>4, <1>6, <1>7

-----------------------------------------------------------------------------
(* The prefixes of a virtual page number.                                  *)

\* The page number of va without its lowest i places.
Prefix(va, i) == ((va \div PageSize) % PageSize ^ Levels) \div PageSize ^ i

\* Dividing twice is dividing by the product, however it is named.
LEMMA DivByProduct ==
    ASSUME NEW x \in Int, NEW m \in Nat \ {0}, NEW n \in Nat \ {0}, NEW k, IsProduct(k, m, n)
    PROVE  (x \div m) \div n = x \div k
BY DivDiv DEF IsProduct

\* The pages of a level are PageSize times those of the level below.
LEMMA PagePower ==
    ASSUME NEW i \in 0 .. Levels - 1
    PROVE  /\ PageSize ^ i \in Nat \ {0} /\ PageSize ^ (i + 1) \in Nat \ {0} /\ PageSize \in Nat \ {0}
           /\ IsProduct(PageSize ^ (i + 1), PageSize ^ i, PageSize)
           /\ IsProduct(PageSize ^ (i + 1), PageSize, PageSize ^ i)
<1>1. i \in 0 .. Levels /\ i + 1 \in 0 .. Levels /\ PageSize \in Nat \ {0}
  BY MmuAssumption
<1>2. PageSize ^ i \in Nat \ {0} /\ PageSize ^ (i + 1) \in Nat \ {0}
  BY <1>1, PageAssumption
<1>3. PageSize ^ (i + 1) = PageSize ^ i * PageSize
  BY PageAssumption
<1> DEFINE p == PageSize ^ i
           q == PageSize ^ (i + 1)
<1> HIDE DEF p, q
<1>4. p \in Nat \ {0} /\ q = p * PageSize
  BY <1>2, <1>3 DEF p, q
<1>5. q = PageSize * p
  BY <1>1, <1>4
<1>6. IsProduct(q, p, PageSize) /\ IsProduct(q, PageSize, p)
  BY <1>4, <1>5 DEF IsProduct
<1> QED BY <1>1, <1>2, <1>6 DEF p, q

\* The size of the space is a multiple of that of each level.
LEMMA LevelsPower ==
    ASSUME NEW i \in 0 .. Levels
    PROVE  \E c \in Nat \ {0} : IsProduct(PageSize ^ Levels, PageSize ^ i, c)
<1>0. Levels \in Nat
  BY MmuAssumption
<1> DEFINE Fits(j) == \E c \in Nat \ {0} : IsProduct(PageSize ^ Levels, PageSize ^ j, c)
           T == { j \in Nat : j <= Levels => Fits(Levels - j) }
<1>1. 0 \in T
  <2>1. PageSize ^ Levels \in Nat \ {0}
    <3>1. Levels \in 0 .. Levels
      BY <1>0
    <3> QED BY <3>1, PageAssumption
  <2> DEFINE p == PageSize ^ Levels
             one == 1
  <2> HIDE DEF p
  <2>2. p = p * 1
    BY <2>1 DEF p
  <2>3. one \in Nat \ {0} /\ p = p * one
    BY <2>2
  <2> HIDE DEF one
  <2>4. Levels - 0 = Levels
    BY <1>0
  <2>5. IsProduct(p, p, one)
    BY <2>3 DEF IsProduct
  <2>6. Fits(Levels - 0)
    BY <2>3, <2>4, <2>5 DEF p
  <2> QED BY <2>6
<1>2. ASSUME NEW j \in Nat, j \in T PROVE j + 1 \in T
  <2> SUFFICES ASSUME j + 1 <= Levels PROVE Fits(Levels - (j + 1))
    OBVIOUS
  <2> DEFINE k == Levels - (j + 1)
  <2>1. k \in 0 .. Levels - 1 /\ Levels - j = k + 1 /\ j <= Levels
    BY <1>0
  <2> HIDE DEF k
  <2>2. PICK c \in Nat \ {0} : IsProduct(PageSize ^ Levels, PageSize ^ (k + 1), c)
    BY <1>2, <2>1
  <2> DEFINE p == PageSize ^ k
             q == PageSize ^ (k + 1)
             z == PageSize ^ Levels
             d == PageSize * c
  <2>3. p \in Nat \ {0} /\ PageSize \in Nat \ {0} /\ IsProduct(q, p, PageSize) /\ IsProduct(z, q, c)
    BY <2>1, <2>2, PagePower
  <2> HIDE DEF p, q, z
  <2>4. d \in Nat \ {0}
    BY <2>3
  <2>5. z = p * d
    <3>1. z = (p * PageSize) * c
      BY <2>3 DEF IsProduct
    <3> QED BY <2>3, <3>1
  <2> HIDE DEF d
  <2>6. IsProduct(z, p, d)
    BY <2>5 DEF IsProduct
  <2> QED BY <2>4, <2>6 DEF p, z, k
<1> HIDE DEF T
<1>3. Nat \subseteq T
  BY <1>1, <1>2, Induct
<1>4. Levels - i \in Nat /\ Levels - i <= Levels /\ Levels - (Levels - i) = i
  BY <1>0
<1>5. Levels - i \in T
  BY <1>3, <1>4
<1> QED BY <1>4, <1>5 DEF T

\* Each level adds a place to the prefix.
LEMMA PrefixStep ==
    ASSUME NEW va \in Nat, NEW i \in 0 .. Levels - 1
    PROVE  /\ Prefix(va, i) \in Nat /\ Prefix(va, i + 1) \in Nat
           /\ Prefix(va, i) = Prefix(va, i + 1) * PageSize + Vpn(va, i)
<1> DEFINE x == va \div PageSize
           z == PageSize ^ Levels
           p == PageSize ^ i
           q == PageSize ^ (i + 1)
           y == x % z
           u == y \div p
<1>0. Levels \in Nat /\ i + 1 \in 0 .. Levels
  BY MmuAssumption
<1>1. /\ p \in Nat \ {0} /\ q \in Nat \ {0} /\ PageSize \in Nat \ {0}
      /\ IsProduct(q, p, PageSize) /\ IsProduct(q, PageSize, p)
  BY PagePower
<1>2. PICK c \in Nat \ {0} : IsProduct(z, q, c)
  BY <1>0, LevelsPower
<1>3. z \in Nat \ {0}
  <2>1. Levels \in 0 .. Levels
    BY <1>0
  <2> QED BY <2>1, PageAssumption
<1> HIDE DEF p, q, z
<1>4. x \in Nat
  BY <1>1, DivModDef
<1>5. x \div p = va \div q
  <2>1. \A k : IsProduct(k, PageSize, p) => (va \div PageSize) \div p = va \div k
    BY <1>1, DivByProduct
  <2> QED BY <1>1, <2>1
<1> HIDE DEF x
<1>6. y \in Nat
  BY <1>3, <1>4, DivModDef
<1>7. u \in Nat /\ y \div q \in Nat
  BY <1>1, <1>6, DivModDef
<1>8. u \div PageSize = y \div q
  BY <1>1, <1>6, DivByProduct
<1>9. u % PageSize = (x \div p) % PageSize
  <2> DEFINE d == PageSize * c
  <2>1. d \in Nat \ {0} /\ d % PageSize = 0
    <3> DEFINE none == 0
    <3>1. none \in Nat /\ none < PageSize
      BY <1>1
    <3>2. d \in Nat \ {0} /\ d = (c * PageSize) + none
      BY <1>1
    <3> HIDE DEF d, none
    <3>3. ((c * PageSize) + none) % PageSize = none
      BY <1>1, <3>1, DivModJoin
    <3> QED BY <3>2, <3>3 DEF none
  <2>2. z = p * d
    <3>1. z = (p * PageSize) * c
      BY <1>1, <1>2 DEF IsProduct
    <3> QED BY <1>1, <3>1
  <2> HIDE DEF d
  <2>3. IsProduct(z, p, d)
    BY <2>2 DEF IsProduct
  <2>4. u = (x \div p) % d
    <3>1. x \in Int /\ p \in Nat \ {0} /\ d \in Nat \ {0}
      BY <1>1, <1>4, <2>1
    <3>2. \A k : IsProduct(k, p, d) => (x % k) % p = x % p /\ (x % k) \div p = (x \div p) % d
      BY ONLY <3>1, ModOfMod
    <3> QED BY <2>3, <3>2
  <2>5. x \div p \in Int
    BY <1>1, <1>4, DivModDef
  <2> HIDE DEF u
  <2> DEFINE v == x \div p
  <2> HIDE DEF v
  <2>6. (v % d) % PageSize = v % PageSize
    BY <1>1, <2>1, <2>5, ModOfDivisor DEF v
  <2> QED BY <2>4, <2>6 DEF v
<1> HIDE DEF u
<1>10. u = ((u \div PageSize) * PageSize) + (u % PageSize)
  BY <1>1, <1>7, DivModDef
<1>11. Prefix(va, i) = u /\ Prefix(va, i + 1) = y \div q /\ Vpn(va, i) = (va \div q) % PageSize
  BY DEF Prefix, Vpn, u, x, z, p, q
<1> HIDE DEF y
<1> QED BY <1>5, <1>7, <1>8, <1>9, <1>10, <1>11

\* No place is above the highest level.
LEMMA PrefixTop ==
    ASSUME NEW va \in Nat
    PROVE  Prefix(va, Levels) = 0
<1> DEFINE x == va \div PageSize
           z == PageSize ^ Levels
           y == x % z
<1>1. z \in Nat \ {0} /\ PageSize \in Nat \ {0}
  <2>1. Levels \in 0 .. Levels
    BY MmuAssumption
  <2> QED BY <2>1, PageAssumption, MmuAssumption
<1>2. x \in Nat
  BY <1>1, DivModDef
<1> HIDE DEF x, z
<1>3. y \in Int /\ 0 <= y /\ y < z
  BY <1>1, <1>2, DivModDef
<1> HIDE DEF y
<1>4. y \div z = 0
  BY <1>1, <1>3, DivSmall
<1> QED BY <1>4 DEF Prefix, y, x, z

\* A number has one place in a table and one table before it.
LEMMA PlaceUnique ==
    ASSUME NEW a \in Nat, NEW b \in Nat, NEW k \in 0 .. PageSize - 1, NEW m \in 0 .. PageSize - 1,
           a * PageSize + k = b * PageSize + m
    PROVE  a = b /\ k = m
<1>1. PageSize \in Nat \ {0} /\ k \in Nat /\ m \in Nat /\ k < PageSize /\ m < PageSize
  BY MmuAssumption
<1>2. ((a * PageSize) + k) \div PageSize = a /\ ((a * PageSize) + k) % PageSize = k
  BY <1>1, DivModJoin
<1>3. ((b * PageSize) + m) \div PageSize = b /\ ((b * PageSize) + m) % PageSize = m
  BY <1>1, DivModJoin
<1> QED BY <1>2, <1>3

-----------------------------------------------------------------------------
(* The tables.                                                             *)

RootTables == {[page |-> Root, prefix |-> 0]}

TablesTo(s, n, g) ==
    g = [k \in 0 .. n |-> IF k = 0 THEN RootTables ELSE PointedBy(s, g[k - 1], Levels - k)]

\* The recursive function in Tables exists.
LEMMA TablesExist ==
    ASSUME NEW s
    PROVE  \E g : TablesTo(s, Levels - 1, g)
<1> DEFINE T == { n \in Nat : \E g : TablesTo(s, n, g) }
<1>1. 0 \in T
  <2> DEFINE g == [k \in 0 .. 0 |-> RootTables]
  <2>1. TablesTo(s, 0, g)
    BY DEF TablesTo
  <2> QED BY <2>1
<1>2. ASSUME NEW n \in Nat, n \in T PROVE n + 1 \in T
  <2>1. PICK g : TablesTo(s, n, g)
    BY <1>2
  <2> DEFINE h == [k \in 0 .. n + 1 |-> IF k = n + 1 THEN PointedBy(s, g[n], Levels - (n + 1)) ELSE g[k]]
  <2>2. \A k \in 0 .. n : h[k] = g[k] /\ g[k] = IF k = 0 THEN RootTables ELSE PointedBy(s, g[k - 1], Levels - k)
    BY <2>1 DEF TablesTo
  <2>3. h[n + 1] = PointedBy(s, g[n], Levels - (n + 1))
    OBVIOUS
  <2>4. ASSUME NEW k \in 0 .. n + 1
        PROVE  h[k] = IF k = 0 THEN RootTables ELSE PointedBy(s, h[k - 1], Levels - k)
    <3>1. CASE k = n + 1
      BY <2>2, <2>3, <3>1
    <3>2. CASE k \in 0 .. n
      <4>1. k = 0 \/ k - 1 \in 0 .. n
        BY <3>2
      <4> HIDE DEF h
      <4> QED BY <2>2, <3>2, <4>1
    <3> QED BY <3>1, <3>2
  <2>5. TablesTo(s, n + 1, h)
    <3>1. h = [k \in 0 .. n + 1 |-> h[k]]
      OBVIOUS
    <3> HIDE DEF h
    <3> QED BY <2>4, <3>1 DEF TablesTo
  <2> HIDE DEF h
  <2>6. \E f : TablesTo(s, n + 1, f)
    BY <2>5
  <2> QED BY <2>6
<1> HIDE DEF T
<1>3. Levels - 1 \in T
  <2>1. Levels - 1 \in Nat
    BY MmuAssumption
  <2> QED BY <1>1, <1>2, <2>1, Induct
<1> QED BY <1>3 DEF T

\* What that function yields at each depth.
LEMMA TablesAre ==
    ASSUME NEW s
    PROVE  /\ Tables(s)[0] = RootTables
           /\ \A k \in 1 .. Levels - 1 : Tables(s)[k] = PointedBy(s, Tables(s)[k - 1], Levels - k)
<1> DEFINE g == CHOOSE g : TablesTo(s, Levels - 1, g)
<1>0. Levels \in Nat \ {0}
  BY MmuAssumption
<1>1. TablesTo(s, Levels - 1, g)
  BY TablesExist
<1>2. Tables(s) = g
  BY DEF Tables, TablesTo, RootTables
<1> HIDE DEF g
<1>3. \A k \in 0 .. Levels - 1 : g[k] = IF k = 0 THEN RootTables
                                       ELSE PointedBy(s, g[k - 1], Levels - k)
  BY <1>1 DEF TablesTo
<1> QED BY <1>0, <1>2, <1>3

Entry(i, at, prefix) == [level |-> i, at |-> at, prefix |-> prefix]
Table(page, prefix) == [page |-> page, prefix |-> prefix]

\* The tables lie in memory that the bus lets a walk read.
TablesReadable(s) ==
    \A k \in 0 .. Levels - 1 : \A t \in Tables(s)[k], m \in 0 .. PageSize - 1 :
        t.page * PageSize + m \in Reachable

\* The entries of a table that can be read are the words of its page.
LEMMA EntryOf ==
    ASSUME NEW t, NEW i, NEW e, \A m \in 0 .. PageSize - 1 : t.page * PageSize + m \in Reachable
    PROVE  e \in EntriesOf(t, i) <=>
             \E m \in 0 .. PageSize - 1 : e = Entry(i, t.page * PageSize + m, t.prefix * PageSize + m)
BY DEF EntriesOf, Entry

\* A table below is one that a pointer leads to.
LEMMA PointedTable ==
    ASSUME NEW s, NEW tables, NEW i, NEW t
    PROVE  t \in PointedBy(s, tables, i) <=>
             \E u \in tables : \E e \in EntriesOf(u, i) :
                 IsPointer(s.ram[e.at]) /\ t = Table(PpnOf(s.ram[e.at]), e.prefix)
BY DEF PointedBy, Table

\* What a table is.
LEMMA TableFields ==
    ASSUME TableInv, phase = "running", NEW s, Sound(s), TablesReadable(s)
    PROVE  \A k \in 0 .. Levels - 1 : \A t \in Tables(s)[k] :
               \E page \in 0 .. 2 ^ PpnBits - 1, prefix \in Nat : t = Table(page, prefix)
<1> DEFINE Good(t) == \E page \in 0 .. 2 ^ PpnBits - 1, prefix \in Nat : t = Table(page, prefix)
           T == { k \in Nat : k <= Levels - 1 => \A t \in Tables(s)[k] : Good(t) }
<1>0. Levels \in Nat \ {0} /\ PageSize \in Nat \ {0}
  BY MmuAssumption
<1>1. 0 \in T
  <2>1. Good(Table(Root, 0))
    BY MmuAssumption
  <2>2. Tables(s)[0] = {Table(Root, 0)}
    BY TablesAre DEF Table, RootTables
  <2> HIDE DEF Good
  <2> QED BY <2>1, <2>2
<1>2. ASSUME NEW k \in Nat, k \in T PROVE k + 1 \in T
  <2> SUFFICES ASSUME k + 1 <= Levels - 1, NEW t \in Tables(s)[k + 1] PROVE Good(t)
    OBVIOUS
  <2>1. k \in 0 .. Levels - 1 /\ k + 1 \in 1 .. Levels - 1 /\ k + 1 - 1 = k
    BY <1>0
  <2>2. t \in PointedBy(s, Tables(s)[k], Levels - (k + 1))
    BY <2>1, TablesAre
  <2>3. PICK u \in Tables(s)[k] : \E e \in EntriesOf(u, Levels - (k + 1)) :
            t = Table(PpnOf(s.ram[e.at]), e.prefix)
    BY <2>2, PointedTable
  <2>4. PICK e \in EntriesOf(u, Levels - (k + 1)) : t = Table(PpnOf(s.ram[e.at]), e.prefix)
    BY <2>3
  <2>5. Good(u)
    BY <1>2, <2>1
  <2>6. u.prefix \in Nat
    BY <2>5 DEF Table
  <2> HIDE DEF Good
  <2>7. PICK m \in 0 .. PageSize - 1 : e = Entry(Levels - (k + 1), u.page * PageSize + m, u.prefix * PageSize + m)
    BY <2>1, EntryOf DEF TablesReadable
  <2>8. e.at = u.page * PageSize + m /\ e.prefix = u.prefix * PageSize + m
    BY <2>7 DEF Entry
  <2>9. e.at \in Reachable
    BY <2>1, <2>8 DEF TablesReadable
  <2>10. s.ram[e.at] \in Nat
    BY <2>9, ReadReachable
  <2>11. PpnOf(s.ram[e.at]) \in 0 .. 2 ^ PpnBits - 1
    BY <2>10, PpnFits
  <2>12. e.prefix \in Nat
    <3> DEFINE p == u.prefix * PageSize
    <3>1. p \in Nat
      BY <1>0, <2>6
    <3> HIDE DEF p
    <3>2. p + m \in Nat
      BY <1>0, <3>1
    <3> QED BY <2>8, <3>2 DEF p
  <2> QED BY <2>4, <2>11, <2>12 DEF Good
<1> HIDE DEF T
<1>3. Nat \subseteq T
  BY <1>1, <1>2, Induct
<1> QED BY <1>0, <1>3 DEF T

-----------------------------------------------------------------------------
(* The walk and the tables.                                                *)

IsLeafEntry(pte) == Has(pte, PTE_V) /\ IsLeaf(pte)

\* The entry that a walk has found.
Found(va, w) == Entry(w.level, w.at, Prefix(va, w.level))

\* The leaf entries for va in the k highest levels.
Maps(s, va, k, e) ==
    \E j \in 0 .. k - 1 : /\ e \in EntriesAt(s, j) /\ e.prefix = Prefix(va, e.level)
                          /\ IsLeafEntry(s.ram[e.at])

\* The table in which the walk goes on is the one for va at this depth.
InTable(s, va, k, w) ==
    /\ w.on => Table(w.base, Prefix(va, Levels - k)) \in Tables(s)[k]
    /\ \A t \in Tables(s)[k] :
          t.prefix = Prefix(va, Levels - k) => w.on /\ t = Table(w.base, Prefix(va, Levels - k))

\* A walk w that has come k levels down has found what there is to find there.
Agrees(s, va, k, w) ==
    /\ WalkOk(w) /\ w.on \in BOOLEAN /\ w.found \in BOOLEAN /\ (w.on => ~ w.found)
    /\ k < Levels => InTable(s, va, k, w)
    /\ w.found => w.at \in Reachable /\ w.pte = s.ram[w.at]
    /\ \A e : Maps(s, va, k, e) <=> w.found /\ e = Found(va, w)

\* The entry for va at a depth is the word that the walk reads there.
LEMMA LevelEntry ==
    ASSUME TableInv, phase = "running", NEW s, Sound(s), TablesReadable(s), NEW va \in Nat,
           NEW k \in 0 .. Levels - 1, NEW i, i = Levels - 1 - k, NEW w, InTable(s, va, k, w),
           w.on => PageOk(w)
    PROVE  /\ \A e \in EntriesAt(s, k) : e.level = i
           /\ \A t \in Tables(s)[k] : \A e \in EntriesOf(t, i) :
                 e.prefix = Prefix(va, i) =>
                     w.on /\ e = Entry(i, w.base * PageSize + Vpn(va, i), Prefix(va, i))
           /\ w.on => /\ Table(w.base, Prefix(va, i + 1)) \in Tables(s)[k]
                      /\ Entry(i, w.base * PageSize + Vpn(va, i), Prefix(va, i))
                            \in EntriesOf(Table(w.base, Prefix(va, i + 1)), i)
                      /\ w.base * PageSize + Vpn(va, i) \in Reachable
<1>0. Levels \in Nat \ {0} /\ PageSize \in Nat \ {0}
  BY MmuAssumption
<1>1. i \in 0 .. Levels - 1 /\ Levels - k = i + 1
  BY <1>0
<1>2. /\ Prefix(va, i) \in Nat /\ Prefix(va, i + 1) \in Nat /\ Vpn(va, i) \in 0 .. PageSize - 1
      /\ Prefix(va, i) = Prefix(va, i + 1) * PageSize + Vpn(va, i)
  BY <1>1, PrefixStep, VpnFits
<1>3. \A t \in Tables(s)[k] : \A m \in 0 .. PageSize - 1 : t.page * PageSize + m \in Reachable
  BY DEF TablesReadable
<1>4. \A t \in Tables(s)[k] : \A e \in EntriesOf(t, i) : \E m \in 0 .. PageSize - 1 :
          e = Entry(i, t.page * PageSize + m, t.prefix * PageSize + m)
  BY <1>3, EntryOf
<1>5. \A e \in EntriesAt(s, k) : e.level = i
  <2>1. \A e \in EntriesAt(s, k) : \E t \in Tables(s)[k] : e \in EntriesOf(t, i)
    BY DEF EntriesAt
  <2> QED BY <1>4, <2>1 DEF Entry
<1>6. ASSUME NEW t \in Tables(s)[k], NEW e \in EntriesOf(t, i), e.prefix = Prefix(va, i)
      PROVE  w.on /\ e = Entry(i, w.base * PageSize + Vpn(va, i), Prefix(va, i))
  <2>1. PICK m \in 0 .. PageSize - 1 : e = Entry(i, t.page * PageSize + m, t.prefix * PageSize + m)
    BY <1>4, <1>6
  <2>2. PICK page \in 0 .. 2 ^ PpnBits - 1 : \E prefix \in Nat : t = Table(page, prefix)
    BY TableFields
  <2>3. t.prefix \in Nat
    BY <2>2 DEF Table
  <2>4. t.prefix * PageSize + m = Prefix(va, i + 1) * PageSize + Vpn(va, i)
    BY <1>2, <1>6, <2>1 DEF Entry
  <2>5. t.prefix = Prefix(va, i + 1) /\ m = Vpn(va, i)
    BY <1>2, <2>3, <2>4, PlaceUnique
  <2>6. w.on /\ t = Table(w.base, Prefix(va, i + 1))
    BY <1>1, <2>5 DEF InTable
  <2>7. t.page = w.base
    BY <2>6 DEF Table
  <2> QED BY <1>2, <2>1, <2>5, <2>6, <2>7
<1>7. ASSUME w.on
      PROVE  /\ Table(w.base, Prefix(va, i + 1)) \in Tables(s)[k]
             /\ Entry(i, w.base * PageSize + Vpn(va, i), Prefix(va, i))
                   \in EntriesOf(Table(w.base, Prefix(va, i + 1)), i)
             /\ w.base * PageSize + Vpn(va, i) \in Reachable
  <2> DEFINE t == Table(w.base, Prefix(va, i + 1))
  <2>1. t \in Tables(s)[k]
    BY <1>1, <1>7 DEF InTable
  <2>2. t.page = w.base /\ t.prefix = Prefix(va, i + 1)
    BY DEF Table
  <2> HIDE DEF t
  <2>3. \A m \in 0 .. PageSize - 1 : t.page * PageSize + m \in Reachable
    BY <1>3, <2>1
  <2>4. \A e : e \in EntriesOf(t, i) <=>
             \E m \in 0 .. PageSize - 1 : e = Entry(i, t.page * PageSize + m, t.prefix * PageSize + m)
    BY <2>3, EntryOf
  <2>5. Entry(i, t.page * PageSize + Vpn(va, i), t.prefix * PageSize + Vpn(va, i)) \in EntriesOf(t, i)
    BY <1>2, <2>4
  <2> QED BY <1>2, <2>1, <2>2, <2>3, <2>5 DEF t
<1> QED BY <1>5, <1>6, <1>7

\* One level adds the entries of its tables.
LEMMA MapsNext ==
    ASSUME NEW s, NEW va, NEW k \in Nat, NEW e
    PROVE  Maps(s, va, k + 1, e) <=>
             \/ Maps(s, va, k, e)
             \/ e \in EntriesAt(s, k) /\ e.prefix = Prefix(va, e.level) /\ IsLeafEntry(s.ram[e.at])
<1>1. \A j : j \in 0 .. k + 1 - 1 <=> j \in 0 .. k - 1 \/ j = k
  OBVIOUS
<1> QED BY <1>1 DEF Maps

\* The walk begins in the root, the only table of the highest level.
LEMMA AgreesStart ==
    ASSUME NEW s, NEW va \in Nat
    PROVE  Agrees(s, va, 0, Start)
<1>0. Levels \in Nat \ {0} /\ Levels - 0 = Levels
  BY MmuAssumption
<1>1. WalkOk(Start) /\ Start.on /\ ~ Start.found /\ Start.base = Root
      /\ Start.on \in BOOLEAN /\ Start.found \in BOOLEAN
  BY MmuAssumption DEF Start, WalkOk, PageOk
<1>2. \A e : ~ Maps(s, va, 0, e)
  BY DEF Maps
<1>3. InTable(s, va, 0, Start)
  <2>1. Tables(s)[0] = {Table(Root, 0)} /\ Prefix(va, Levels - 0) = 0
    BY <1>0, TablesAre, PrefixTop DEF RootTables, Table
  <2> QED BY <1>1, <2>1 DEF InTable
<1> QED BY <1>1, <1>2, <1>3 DEF Agrees

\* The walk goes down one level.
LEMMA AgreesDown ==
    ASSUME TableInv, phase = "running", NEW s, Sound(s), TablesReadable(s), NEW va \in Nat,
           NEW k \in 0 .. Levels - 1, NEW w, Agrees(s, va, k, w), w.on
    PROVE  Agrees(s, va, k + 1, Down(s, va, w, Levels - (k + 1)))
<1> DEFINE i == Levels - (k + 1)
           at == w.base * PageSize + Vpn(va, i)
           v == Down(s, va, w, i)
           entry == Entry(i, at, Prefix(va, i))
           t == Table(w.base, Prefix(va, i + 1))
           pte == s.ram[at]
<1>0. /\ Levels \in Nat \ {0} /\ k < Levels /\ i = Levels - 1 - k /\ i \in 0 .. Levels - 1
      /\ k \in Nat /\ Levels - k = i + 1
  BY MmuAssumption
<1>1. InTable(s, va, k, w) /\ PageOk(w) /\ WalkOk(w) /\ ~ w.found
  BY <1>0 DEF Agrees, WalkOk
<1> HIDE DEF i
<1>2. /\ \A e \in EntriesAt(s, k) : e.level = i
      /\ \A u \in Tables(s)[k] : \A e \in EntriesOf(u, i) : e.prefix = Prefix(va, i) => e = entry
      /\ t \in Tables(s)[k] /\ entry \in EntriesOf(t, i) /\ at \in Reachable
  BY <1>0, <1>1, LevelEntry
<1>3. /\ v.on = IsPointer(pte) /\ v.found = IsLeafEntry(pte) /\ v.level = i /\ v.at = at
      /\ v.pte = pte /\ v.base = PpnOf(pte)
  <2>1. read_bytes(s, at, 1).data # <<>> /\ read_bytes(s, at, 1).data[1] = pte
    BY <1>2, ReadReachable
  <2> HIDE DEF at
  <2> QED BY <2>1 DEF Down, IsPointer, IsLeafEntry, at
<1>4. WalkOk(v)
  BY <1>0, <1>1, DownOk
<1>5. entry.level = i /\ entry.at = at /\ entry.prefix = Prefix(va, i)
  BY DEF Entry
<1> HIDE DEF v, at, entry, t, pte
<1>6. v.on \in BOOLEAN /\ v.found \in BOOLEAN /\ (v.on => ~ v.found)
  BY <1>3 DEF IsPointer, IsLeafEntry
<1>7. v.found => v.at \in Reachable /\ v.pte = s.ram[v.at]
  BY <1>2, <1>3 DEF pte
<1>8. Found(va, v) = entry
  BY <1>3 DEF Found, entry
<1>9. ASSUME NEW e
      PROVE  Maps(s, va, k + 1, e) <=> v.found /\ e = Found(va, v)
  <2>1. ~ Maps(s, va, k, e)
    BY <1>1 DEF Agrees
  <2>2. e \in EntriesAt(s, k) /\ e.prefix = Prefix(va, e.level) => e = entry
    <3> SUFFICES ASSUME e \in EntriesAt(s, k), e.prefix = Prefix(va, e.level) PROVE e = entry
      OBVIOUS
    <3>1. PICK u \in Tables(s)[k] : e \in EntriesOf(u, i)
      BY <1>0 DEF EntriesAt
    <3> QED BY <1>2, <3>1
  <2>3. entry \in EntriesAt(s, k)
    BY <1>0, <1>2 DEF EntriesAt
  <2>4. e = entry => s.ram[e.at] = pte
    BY <1>5 DEF pte
  <2> QED BY <1>0, <1>3, <1>5, <1>8, <2>1, <2>2, <2>3, <2>4, MapsNext
<1>10. ASSUME k + 1 < Levels
       PROVE  InTable(s, va, k + 1, v)
  <2>1. Tables(s)[k + 1] = PointedBy(s, Tables(s)[k], i)
    <3>1. k + 1 \in 1 .. Levels - 1 /\ k + 1 - 1 = k
      BY <1>0, <1>10
    <3> QED BY <3>1, TablesAre DEF i
  <2>2. ASSUME NEW u \in Tables(s)[k + 1], u.prefix = Prefix(va, i)
        PROVE  v.on /\ u = Table(v.base, Prefix(va, i))
    <3>1. PICK x \in Tables(s)[k] : \E e \in EntriesOf(x, i) :
              IsPointer(s.ram[e.at]) /\ u = Table(PpnOf(s.ram[e.at]), e.prefix)
      BY <2>1, <2>2, PointedTable
    <3>2. PICK e \in EntriesOf(x, i) : IsPointer(s.ram[e.at]) /\ u = Table(PpnOf(s.ram[e.at]), e.prefix)
      BY <3>1
    <3>3. e.prefix = Prefix(va, i)
      BY <2>2, <3>2 DEF Table
    <3>4. e = entry
      BY <1>2, <3>3
    <3>5. s.ram[e.at] = pte
      BY <1>5, <3>4 DEF pte
    <3> QED BY <1>3, <3>2, <3>3, <3>5
  <2>3. ASSUME v.on PROVE Table(v.base, Prefix(va, i)) \in Tables(s)[k + 1]
    <3>1. s.ram[entry.at] = pte /\ IsPointer(pte)
      BY <1>3, <1>5, <2>3 DEF pte
    <3> QED BY <1>2, <1>3, <1>5, <2>1, <3>1, PointedTable
  <2>4. Levels - (k + 1) = i
    BY DEF i
  <2> QED BY <2>2, <2>3, <2>4 DEF InTable
<1>11. Agrees(s, va, k + 1, v)
  BY <1>4, <1>6, <1>7, <1>9, <1>10 DEF Agrees
<1> QED BY <1>11 DEF v, i

\* A walk that has ended finds nothing more, and there is no table for va below.
LEMMA AgreesEnded ==
    ASSUME TableInv, phase = "running", NEW s, Sound(s), TablesReadable(s), NEW va \in Nat,
           NEW k \in 0 .. Levels - 1, NEW w, Agrees(s, va, k, w), ~ w.on
    PROVE  Agrees(s, va, k + 1, w)
<1> DEFINE i == Levels - (k + 1)
<1>0. /\ Levels \in Nat \ {0} /\ k < Levels /\ i = Levels - 1 - k /\ i \in 0 .. Levels - 1
      /\ k \in Nat /\ Levels - k = i + 1
  BY MmuAssumption
<1>1. InTable(s, va, k, w)
  BY <1>0 DEF Agrees
<1> HIDE DEF i
<1>2. /\ \A e \in EntriesAt(s, k) : e.level = i
      /\ \A u \in Tables(s)[k] : \A e \in EntriesOf(u, i) : e.prefix # Prefix(va, i)
  BY <1>0, <1>1, LevelEntry
<1>3. ASSUME NEW e
      PROVE  Maps(s, va, k + 1, e) <=> w.found /\ e = Found(va, w)
  <2>1. ~ (e \in EntriesAt(s, k) /\ e.prefix = Prefix(va, e.level))
    <3> SUFFICES ASSUME e \in EntriesAt(s, k), e.prefix = Prefix(va, e.level) PROVE FALSE
      OBVIOUS
    <3>1. PICK u \in Tables(s)[k] : e \in EntriesOf(u, i)
      BY <1>0 DEF EntriesAt
    <3> QED BY <1>2, <3>1
  <2>2. Maps(s, va, k, e) <=> w.found /\ e = Found(va, w)
    BY DEF Agrees
  <2> QED BY <1>0, <2>1, <2>2, MapsNext
<1>4. ASSUME k + 1 < Levels
      PROVE  InTable(s, va, k + 1, w)
  <2>1. Tables(s)[k + 1] = PointedBy(s, Tables(s)[k], i)
    <3>1. k + 1 \in 1 .. Levels - 1 /\ k + 1 - 1 = k
      BY <1>0, <1>4
    <3> QED BY <3>1, TablesAre DEF i
  <2>2. ASSUME NEW u \in Tables(s)[k + 1]
        PROVE  u.prefix # Prefix(va, i)
    <3>1. PICK x \in Tables(s)[k] : \E e \in EntriesOf(x, i) : u = Table(PpnOf(s.ram[e.at]), e.prefix)
      BY <2>1, <2>2, PointedTable
    <3>2. PICK e \in EntriesOf(x, i) : u = Table(PpnOf(s.ram[e.at]), e.prefix)
      BY <3>1
    <3>3. u.prefix = e.prefix
      BY <3>2 DEF Table
    <3> QED BY <1>2, <3>3
  <2>3. Levels - (k + 1) = i
    BY DEF i
  <2> QED BY <2>2, <2>3 DEF InTable
<1> QED BY <1>3, <1>4 DEF Agrees

\* The walk is right: at every depth it has found what the tables hold for va.
LEMMA WalkAgrees ==
    ASSUME TableInv, phase = "running", NEW s, Sound(s), TablesReadable(s), NEW va \in Nat,
           NEW g, Walk(s, va, Levels, g)
    PROVE  \A k \in 0 .. Levels : Agrees(s, va, k, g[k])
<1>0. Levels \in Nat \ {0}
  BY MmuAssumption
<1>3. \A k \in 0 .. Levels : g[k] = IF k = 0 THEN Start ELSE Turn(s, va, g[k - 1], Levels - k)
  BY DEF Walk
<1> DEFINE T == { n \in Nat : n <= Levels => Agrees(s, va, n, g[n]) }
<1>4. 0 \in T
  <2>1. g[0] = Start
    BY <1>0, <1>3
  <2> QED BY <2>1, AgreesStart
<1>5. ASSUME NEW n \in Nat, n \in T PROVE n + 1 \in T
  <2> SUFFICES ASSUME n + 1 <= Levels PROVE Agrees(s, va, n + 1, g[n + 1])
    OBVIOUS
  <2>1. Agrees(s, va, n, g[n]) /\ n \in 0 .. Levels - 1
    BY <1>0, <1>5
  <2>2. g[n + 1] = Turn(s, va, g[n], Levels - (n + 1))
    <3>1. n + 1 \in 0 .. Levels /\ ~ (n + 1 = 0) /\ n + 1 - 1 = n
      BY <1>0
    <3> QED BY <1>3, <3>1
  <2>3. CASE g[n].on
    BY <2>1, <2>2, <2>3, AgreesDown DEF Turn
  <2>4. CASE ~ g[n].on
    BY <2>1, <2>2, <2>4, AgreesEnded DEF Turn
  <2> QED BY <2>3, <2>4
<1> HIDE DEF T
<1>6. Nat \subseteq T
  BY <1>4, <1>5, Induct
<1> QED BY <1>0, <1>6 DEF T

\* At the end it has found the one leaf that the tables have for va.
LEMMA LeafAgrees ==
    ASSUME TableInv, phase = "running", NEW s, Sound(s), TablesReadable(s), NEW va \in Nat
    PROVE  Agrees(s, va, Levels, Leaf(s, va))
<1> DEFINE g == CHOOSE g : Walk(s, va, Levels, g)
<1>1. Walk(s, va, Levels, g)
  BY WalkExists
<1>2. Leaf(s, va) = g[Levels]
  BY DEF Leaf, Walk, Turn
<1> HIDE DEF g
<1>3. Levels \in 0 .. Levels
  BY MmuAssumption
<1> QED BY <1>1, <1>2, <1>3, WalkAgrees

\* The leaf entries of the reference are those of all levels.
LEMMA LeafFound ==
    ASSUME TableInv, phase = "running", NEW s, Sound(s), TablesReadable(s), NEW va \in Nat
    PROVE  LET leaf == Leaf(s, va)
           IN  /\ LeavesFor(LeafEntries(s), va) = IF leaf.found THEN {Found(va, leaf)} ELSE {}
               /\ leaf.found \in BOOLEAN
               /\ leaf.found => /\ leaf.level \in 0 .. Levels - 1 /\ leaf.at \in Reachable
                                /\ leaf.pte = s.ram[leaf.at] /\ leaf.pte \in Nat
<1> DEFINE leaf == Leaf(s, va)
<1>0. Levels \in Nat \ {0}
  BY MmuAssumption
<1>1. Agrees(s, va, Levels, leaf)
  BY LeafAgrees
<1>2. \A e : e \in LeavesFor(LeafEntries(s), va) <=> Maps(s, va, Levels, e)
  BY <1>0 DEF LeavesFor, LeafEntries, Entries, Maps, Prefix, IsLeafEntry
<1> HIDE DEF leaf
<1>3. LeavesFor(LeafEntries(s), va) = IF leaf.found THEN {Found(va, leaf)} ELSE {}
  BY <1>1, <1>2 DEF Agrees
<1>4. leaf.found => /\ leaf.level \in 0 .. Levels - 1 /\ leaf.at \in Reachable
                    /\ leaf.pte = s.ram[leaf.at] /\ leaf.pte \in Nat
  BY <1>1 DEF Agrees, WalkOk, Place
<1> QED BY <1>1, <1>3, <1>4 DEF leaf, Agrees

-----------------------------------------------------------------------------
(* The marks.                                                              *)

Bits == {PTE_V, PTE_R, PTE_W, PTE_X, PTE_U, PTE_A, PTE_D}

\* Setting a bit changes no other, and not the page number.
LEMMA AccessedSet ==
    ASSUME NEW p \in Nat, ~ Has(p, PTE_A)
    PROVE  /\ \A b \in Bits : Has(p + PTE_A, b) <=> b = PTE_A \/ Has(p, b)
           /\ (p + PTE_A) \div PpnUnit = p \div PpnUnit
BY DEF Bits, Has, PTE_V, PTE_R, PTE_W, PTE_X, PTE_U, PTE_A, PTE_D, PpnUnit

\* The same for the dirty bit.
LEMMA DirtySet ==
    ASSUME NEW p \in Nat, ~ Has(p, PTE_D)
    PROVE  /\ \A b \in Bits : Has(p + PTE_D, b) <=> b = PTE_D \/ Has(p, b)
           /\ (p + PTE_D) \div PpnUnit = p \div PpnUnit
BY DEF Bits, Has, PTE_V, PTE_R, PTE_W, PTE_X, PTE_U, PTE_A, PTE_D, PpnUnit

\* The two bits that a walk may set.
LEMMA WithBits ==
    ASSUME NEW p \in Nat, NEW bit \in {PTE_A, PTE_D}
    PROVE  /\ With(p, bit) \in Nat /\ PpnOf(With(p, bit)) = PpnOf(p)
           /\ \A b \in Bits : Has(With(p, bit), b) <=> b = bit \/ Has(p, b)
<1>1. With(p, bit) \in Nat
  BY WithSet
<1>2. CASE Has(p, bit)
  BY <1>1, <1>2 DEF With
<1>3. CASE ~ Has(p, bit)
  BY <1>1, <1>3, AccessedSet, DirtySet DEF With, PpnOf
<1> QED BY <1>2, <1>3

Needed(access) == {PTE_A} \cup (IF access = PTE_W THEN {PTE_D} ELSE {})

\* A marked entry has the marks and is otherwise as it was.
LEMMA MarkedBits ==
    ASSUME NEW p \in Nat, NEW access
    PROVE  /\ Marked(p, access) \in Nat /\ PpnOf(Marked(p, access)) = PpnOf(p)
           /\ BitsOf(Marked(p, access)) = BitsOf(p) \cup Needed(access)
<1>1. PTE_A \in Bits /\ PTE_D \in Bits
  BY DEF Bits
<1>2. CASE access = PTE_W
  <2> DEFINE q == With(p, PTE_A)
             r == With(q, PTE_D)
  <2>1. q \in Nat /\ PpnOf(q) = PpnOf(p) /\ \A b \in Bits : Has(q, b) <=> b = PTE_A \/ Has(p, b)
    BY WithBits
  <2> HIDE DEF q
  <2>2. r \in Nat /\ PpnOf(r) = PpnOf(q) /\ \A b \in Bits : Has(r, b) <=> b = PTE_D \/ Has(q, b)
    BY <2>1, WithBits
  <2>3. Marked(p, access) = r
    BY <1>2 DEF Marked, q
  <2> HIDE DEF r
  <2>4. BitsOf(r) = BitsOf(p) \cup {PTE_A, PTE_D}
    BY <1>1, <2>1, <2>2 DEF BitsOf, Bits
  <2> QED BY <1>2, <2>1, <2>2, <2>3, <2>4 DEF Needed
<1>3. CASE access # PTE_W
  <2> DEFINE q == With(p, PTE_A)
  <2>1. q \in Nat /\ PpnOf(q) = PpnOf(p) /\ \A b \in Bits : Has(q, b) <=> b = PTE_A \/ Has(p, b)
    BY WithBits
  <2>2. Marked(p, access) = q
    BY <1>3 DEF Marked
  <2> HIDE DEF q
  <2>3. BitsOf(q) = BitsOf(p) \cup {PTE_A}
    BY <1>1, <2>1 DEF BitsOf, Bits
  <2> QED BY <1>3, <2>1, <2>2, <2>3 DEF Needed
<1> QED BY <1>2, <1>3

-----------------------------------------------------------------------------
(* The address.                                                            *)

\* The place in a page of level i is the place in a small page behind the
\* lower i page numbers.
LEMMA PlaceInPage ==
    ASSUME NEW va \in Nat, NEW i \in 0 .. Levels - 1
    PROVE  va % PageSize ^ (i + 1) = (((va \div PageSize) % PageSize ^ i) * PageSize) + (va % PageSize)
<1> DEFINE p == PageSize ^ i
           q == PageSize ^ (i + 1)
           y == va % q
<1>1. /\ p \in Nat \ {0} /\ q \in Nat \ {0} /\ PageSize \in Nat \ {0} /\ IsProduct(q, PageSize, p)
  BY PagePower
<1> HIDE DEF p, q
<1>2. \A k : IsProduct(k, PageSize, p) =>
          (va % k) % PageSize = va % PageSize /\ (va % k) \div PageSize = (va \div PageSize) % p
  <2>1. va \in Int /\ p \in Nat \ {0} /\ PageSize \in Nat \ {0}
    BY <1>1
  <2> QED BY ONLY <2>1, ModOfMod
<1>3. y % PageSize = va % PageSize /\ y \div PageSize = (va \div PageSize) % p
  BY <1>1, <1>2
<1>4. y \in Nat
  BY <1>1, DivModDef
<1> HIDE DEF y
<1>5. y = ((y \div PageSize) * PageSize) + (y % PageSize)
  BY <1>1, <1>4, DivModDef
<1>6. y = (((va \div PageSize) % p) * PageSize) + (va % PageSize)
  BY <1>3, <1>5
<1> QED BY <1>6 DEF y, p, q

\* An aligned page number that the walk keeps whole leads to the page it names.
LEMMA PageAddress ==
    ASSUME NEW va \in Nat, NEW i \in 0 .. Levels - 1, NEW pte \in Nat, NEW e, e.level = i, InReach(e, pte)
    PROVE  PageOf(va, i, pte) * PageSize + (va % PageSize) = AddressIn(e, pte, va)
<1> DEFINE n == PpnOf(pte)
           b == (va \div PageSize) % PageSize ^ i
           o == va % PageSize
<1>1. PageSize \in Nat \ {0} /\ PageSize ^ i \in Nat \ {0}
  BY PagePower
<1>2. n \in Nat /\ b \in Nat /\ o \in Nat
  <2>1. va \div PageSize \in Nat /\ o \in Nat
    BY <1>1, DivModDef
  <2>2. b \in Nat
    BY <1>1, <2>1, DivModDef
  <2>3. 2 ^ PpnBits \in Nat
    BY PageAssumption
  <2> QED BY <2>1, <2>2, <2>3, PpnFits
<1>3. AddressIn(e, pte, va) = n * PageSize + (b * PageSize + o)
  BY PlaceInPage DEF AddressIn
<1>4. PageOf(va, i, pte) = n + b
  <2>1. CASE i = 0
    <3>1. PageSize ^ 0 = 1
      BY PageAssumption
    <3>2. b = 0
      <4> DEFINE x == va \div PageSize
      <4>1. x \in Nat
        BY <1>1, DivModDef
      <4> HIDE DEF x
      <4>2. x % 1 = 0
        BY <4>1
      <4> QED BY <2>1, <3>1, <4>2 DEF x
    <3> QED BY <1>2, <2>1, <3>2 DEF PageOf
  <2>2. CASE i # 0
    <3> DEFINE x == 2 ^ (PpnBits - VpnBits * i)
    <3>1. x \in Nat \ {0}
      <4>1. i \in 0 .. Levels
        BY MmuAssumption
      <4> QED BY <4>1, PageAssumption
    <3>2. n < x
      BY DEF InReach
    <3> HIDE DEF x
    <3>3. n % x = n
      <4> HIDE DEF n
      <4> QED BY <1>2, <3>1, <3>2, DivSmall
    <3> QED BY <2>2, <3>3 DEF PageOf, x
  <2> QED BY <2>1, <2>2
<1> HIDE DEF n, b, o
<1>5. (n + b) * PageSize = n * PageSize + b * PageSize
  BY <1>1, <1>2
<1> DEFINE c == n * PageSize
           d == b * PageSize
<1>6. c \in Int /\ d \in Int
  BY <1>1, <1>2
<1> HIDE DEF c, d
<1>7. (n + b) * PageSize + o = c + (d + o)
  BY <1>2, <1>5, <1>6 DEF c, d
<1> QED BY <1>3, <1>4, <1>7 DEF o, c, d

-----------------------------------------------------------------------------
(* What a translation does, from the leaf.                                 *)

\* The two tests of the code allow what the rules of the modes allow.
LEMMA AllowedAgrees ==
    ASSUME NEW cpu, NEW priv, NEW pte, NEW access, cpu.sum \in BOOLEAN, cpu.mxr \in BOOLEAN
    PROVE  PrivilegeOk(cpu, priv, pte) /\ AccessOk(cpu, pte, access) <=> AllowedFor(cpu, priv, pte, access)
BY DEF PrivilegeOk, AccessOk, AllowedFor, Has

\* Whether the leaf allows the access, and where it leads.
Usable(cpu, access, leaf) == leaf.found /\ AllowedFor(cpu, RightsOf(cpu, access), leaf.pte, access)
Aligned(leaf) == PpnOf(leaf.pte) % PageSize ^ leaf.level = 0
Address(va, leaf) == PageOf(va, leaf.level, leaf.pte) * PageSize + (va % PageSize)

FromLeaf(s, cpu, va, access, leaf, t) ==
    /\ t.ok <=> Usable(cpu, access, leaf) /\ Aligned(leaf)
    /\ t.ok => t.pa = Address(va, leaf)
    /\ Usable(cpu, access, leaf) =>
          LET marked == Marked(leaf.pte, access)
          IN  t.s = IF marked = leaf.pte THEN s ELSE write_bytes(s, leaf.at, <<marked>>, 1).s
    /\ ~ Usable(cpu, access, leaf) => t.s = s

\* A translation is a function of the leaf that the walk has found.
LEMMA TranslationFromLeaf ==
    ASSUME NEW s, NEW cpu \in Cpus, NEW va, NEW access, Translated(cpu, access), NEW leaf,
           leaf = Leaf(s, va), leaf.found \in BOOLEAN, leaf.found => leaf.pte \in Nat,
           NEW t, t = address_translate(s, cpu, va, access)
    PROVE  FromLeaf(s, cpu, va, access, leaf, t)
<1> DEFINE priv == EffectivePriv(cpu, access)
           marked == Marked(leaf.pte, access)
<1>1. cpu.sum \in BOOLEAN /\ cpu.mxr \in BOOLEAN
  BY MmuAssumption
<1>2. priv = RightsOf(cpu, access) /\ priv # PRIV_M /\ cpu.mode = "paged"
  BY DEF Translated, RightsOf, EffectivePriv
<1> HIDE DEF priv
<1>3. t = UseLeaf(s, cpu, priv, va, access, leaf)
  BY <1>2 DEF address_translate, translate_action, priv
<1>4. Usable(cpu, access, leaf) <=> leaf.found /\ PrivilegeOk(cpu, priv, leaf.pte) /\ AccessOk(cpu, leaf.pte, access)
  BY <1>1, <1>2, AllowedAgrees DEF Usable
<1>5. CASE ~ Usable(cpu, access, leaf)
  <2>1. t = NoTranslation(s)
    BY <1>3, <1>4, <1>5 DEF UseLeaf
  <2>2. t.ok = FALSE /\ t.s = s
    BY <2>1 DEF NoTranslation
  <2> QED BY <1>5, <2>2 DEF FromLeaf
<1>6. CASE Usable(cpu, access, leaf)
  <2>1. t = MarkAndPlace(s, leaf, marked, va)
    BY <1>3, <1>4, <1>6 DEF UseLeaf
  <2>2. PpnOf(marked) = PpnOf(leaf.pte)
    BY <1>6, MarkedBits DEF Usable
  <2> DEFINE left == IF marked = leaf.pte THEN s ELSE write_bytes(s, leaf.at, <<marked>>, 1).s
  <2>3. Misaligned(leaf.level, marked) <=> ~ Aligned(leaf)
    BY <2>2 DEF Misaligned, Aligned
  <2>4. PageOf(va, leaf.level, marked) = PageOf(va, leaf.level, leaf.pte)
    BY <2>2 DEF PageOf
  <2>5. t = IF ~ Aligned(leaf) THEN NoTranslation(left) ELSE [ok |-> TRUE, s |-> left, pa |-> Address(va, leaf)]
    BY <2>1, <2>3, <2>4 DEF MarkAndPlace, Address
  <2> HIDE DEF left
  <2>6. t.s = left /\ (t.ok <=> Aligned(leaf)) /\ (t.ok => t.pa = Address(va, leaf))
    BY <2>5 DEF NoTranslation, Aligned
  <2> QED BY <1>6, <2>6 DEF FromLeaf, left
<1> QED BY <1>5, <1>6

\* Where the tables can be read, translation is what they say.
LEMMA TranslationExact ==
    ASSUME HostInv, phase = "running" => TablesReadable(bus)
    PROVE  TranslationAgrees
<1> SUFFICES ASSUME phase = "running", NEW cpu \in Cpus, NEW va \in VAddrs, NEW access \in Accesses,
                    Translated(cpu, access)
             PROVE  LET mapped == LeavesFor(LeafEntries(bus), va)
                        t == address_translate(bus, cpu, va, access)
                        allowed == { e \in mapped : WellPlaced(e, bus.ram[e.at])
                                       /\ AllowedFor(cpu, RightsOf(cpu, access), bus.ram[e.at], access) }
                    IN  /\ t.ok <=> allowed # {}
                        /\ \A e \in allowed : InReach(e, bus.ram[e.at]) =>
                               t.pa = AddressIn(e, bus.ram[e.at], va)
  BY DEF TranslationAgrees
<1> DEFINE leaf == Leaf(bus, va)
           mapped == LeavesFor(LeafEntries(bus), va)
           t == address_translate(bus, cpu, va, access)
           pte == leaf.pte
           allowed == { e \in mapped : WellPlaced(e, bus.ram[e.at])
                          /\ AllowedFor(cpu, RightsOf(cpu, access), bus.ram[e.at], access) }
           found == Found(va, leaf)
<1>0. TableInv /\ Sound(bus) /\ TablesReadable(bus) /\ va \in Nat
  BY MmuAssumption, BusAssumption DEF HostInv
<1>1. /\ mapped = IF leaf.found THEN {found} ELSE {}
      /\ leaf.found \in BOOLEAN
      /\ leaf.found => leaf.level \in 0 .. Levels - 1 /\ pte = bus.ram[leaf.at] /\ pte \in Nat
  BY <1>0, LeafFound
<1>2. /\ t.ok <=> Usable(cpu, access, leaf) /\ Aligned(leaf)
      /\ t.ok => t.pa = Address(va, leaf)
  <2>1. leaf = Leaf(bus, va) /\ t = address_translate(bus, cpu, va, access)
    OBVIOUS
  <2>2. leaf.found \in BOOLEAN /\ (leaf.found => leaf.pte \in Nat)
    BY <1>1
  <2> HIDE DEF leaf, t
  <2>3. FromLeaf(bus, cpu, va, access, leaf, t)
    BY <2>1, <2>2, TranslationFromLeaf
  <2> QED BY <2>3 DEF FromLeaf
<1>3. found.at = leaf.at /\ found.level = leaf.level
  BY DEF Found, Entry
<1>4. leaf.found => bus.ram[found.at] = pte /\ (WellPlaced(found, pte) <=> Aligned(leaf))
  BY <1>1, <1>3 DEF WellPlaced, Aligned
<1> HIDE DEF leaf, mapped, t, found
<1>5. t.ok <=> allowed # {}
  BY <1>1, <1>2, <1>4 DEF Usable
<1>6. ASSUME NEW e \in allowed, InReach(e, bus.ram[e.at])
      PROVE  t.pa = AddressIn(e, bus.ram[e.at], va)
  <2>1. e = found /\ leaf.found /\ t.ok
    BY <1>1, <1>5, <1>6
  <2>2. bus.ram[e.at] = pte
    BY <1>4, <2>1
  <2> QED BY <1>0, <1>1, <1>2, <1>3, <1>6, <2>1, <2>2, PageAddress DEF Address
<1> QED BY <1>5, <1>6 DEF t, mapped

\* Where the tables can be read, a walk writes the leaf it uses and no other word.
LEMMA MarksExact ==
    ASSUME HostInv, phase = "running" => TablesReadable(bus)
    PROVE  WalkMarksLeaf
<1> SUFFICES ASSUME phase = "running", NEW cpu \in Cpus, NEW va \in VAddrs, NEW access \in Accesses,
                    Translated(cpu, access)
             PROVE  LET leaves == LeafEntries(bus)
                        t == address_translate(bus, cpu, va, access)
                        needed == {PTE_A} \cup (IF access = PTE_W THEN {PTE_D} ELSE {})
                        written == { a \in DOMAIN bus.ram : t.s.ram[a] # bus.ram[a] }
                    IN  /\ \A a \in written :
                              /\ \E e \in LeavesFor(leaves, va) : e.at = a
                              /\ PpnOf(t.s.ram[a]) = PpnOf(bus.ram[a])
                              /\ BitsOf(t.s.ram[a]) = BitsOf(bus.ram[a]) \cup needed
                        /\ t.ok => \E e \in LeavesFor(leaves, va) : needed \subseteq BitsOf(t.s.ram[e.at])
  BY DEF WalkMarksLeaf
<1> DEFINE leaf == Leaf(bus, va)
           mapped == LeavesFor(LeafEntries(bus), va)
           t == address_translate(bus, cpu, va, access)
           pte == leaf.pte
           marked == Marked(pte, access)
           needed == {PTE_A} \cup (IF access = PTE_W THEN {PTE_D} ELSE {})
           written == { a \in DOMAIN bus.ram : t.s.ram[a] # bus.ram[a] }
           found == Found(va, leaf)
           left == write_bytes(bus, leaf.at, <<marked>>, 1).s
<1>0. TableInv /\ Sound(bus) /\ TablesReadable(bus) /\ va \in Nat
  BY MmuAssumption, BusAssumption DEF HostInv
<1>1. /\ mapped = IF leaf.found THEN {found} ELSE {}
      /\ leaf.found \in BOOLEAN
      /\ leaf.found => leaf.at \in Reachable /\ pte = bus.ram[leaf.at] /\ pte \in Nat
  BY <1>0, LeafFound
<1>2. /\ t.ok => Usable(cpu, access, leaf)
      /\ Usable(cpu, access, leaf) => t.s = IF marked = pte THEN bus ELSE left
      /\ ~ Usable(cpu, access, leaf) => t.s = bus
  <2>1. leaf = Leaf(bus, va) /\ t = address_translate(bus, cpu, va, access)
    OBVIOUS
  <2>2. leaf.found \in BOOLEAN /\ (leaf.found => leaf.pte \in Nat)
    BY <1>1
  <2> HIDE DEF leaf, t
  <2>3. FromLeaf(bus, cpu, va, access, leaf, t)
    BY <2>1, <2>2, TranslationFromLeaf
  <2> QED BY <2>3 DEF FromLeaf
<1>3. found.at = leaf.at
  BY DEF Found, Entry
<1> HIDE DEF leaf
<1>4. ASSUME leaf.found
      PROVE  /\ PpnOf(marked) = PpnOf(pte) /\ BitsOf(marked) = BitsOf(pte) \cup needed
             /\ left.ram[leaf.at] = marked
             /\ \A b \in DOMAIN bus.ram : b # leaf.at => left.ram[b] = bus.ram[b]
  <2>1. PpnOf(marked) = PpnOf(pte) /\ BitsOf(marked) = BitsOf(pte) \cup needed
    BY <1>1, <1>4, MarkedBits DEF Needed
  <2> HIDE DEF marked
  <2>2. /\ left.ram[leaf.at] = marked
        /\ \A b \in DOMAIN bus.ram : b # leaf.at => left.ram[b] = bus.ram[b]
    BY <1>0, <1>1, <1>4, WriteReachable
  <2> QED BY <2>1, <2>2
<1> HIDE DEF mapped, t, marked, found, left, needed
<1>5. ASSUME Usable(cpu, access, leaf)
      PROVE  leaf.found /\ t.s.ram[leaf.at] = marked /\ mapped = {found}
             /\ \A b \in DOMAIN bus.ram : b # leaf.at => t.s.ram[b] = bus.ram[b]
  <2>1. leaf.found /\ mapped = {found}
    BY <1>1, <1>5 DEF Usable
  <2>2. CASE marked = pte
    BY <1>1, <1>2, <1>5, <2>1, <2>2
  <2>3. CASE marked # pte
    BY <1>2, <1>4, <1>5, <2>1, <2>3
  <2> QED BY <2>1, <2>2, <2>3
<1>6. ASSUME NEW a \in written
      PROVE  /\ \E e \in mapped : e.at = a
             /\ PpnOf(t.s.ram[a]) = PpnOf(bus.ram[a])
             /\ BitsOf(t.s.ram[a]) = BitsOf(bus.ram[a]) \cup needed
  <2>1. a \in DOMAIN bus.ram /\ t.s.ram[a] # bus.ram[a]
    BY <1>6
  <2>2. Usable(cpu, access, leaf)
    BY <1>2, <2>1
  <2>3. a = leaf.at
    BY <1>5, <2>1, <2>2
  <2> QED BY <1>1, <1>3, <1>4, <1>5, <2>2, <2>3
<1>7. ASSUME t.ok
      PROVE  \E e \in mapped : needed \subseteq BitsOf(t.s.ram[e.at])
  BY <1>2, <1>3, <1>4, <1>5, <1>7
<1> QED BY <1>6, <1>7 DEF mapped, t, needed

\* As long as the tables lie in memory that can be read, and whatever they hold,
\* an address is translated if and only if a leaf maps it and allows the access,
\* and to the address it names.
THEOREM TranslationIsExact ==
    Spec => []((phase = "running" => TablesReadable(bus)) => TranslationAgrees)
<1>1. HostInv /\ [Next]_memVars => HostInv'
  BY StepHost
<1>2. HostInv => ((phase = "running" => TablesReadable(bus)) => TranslationAgrees)
  BY TranslationExact
<1> QED BY InitHost, <1>1, <1>2, PTL DEF Spec

\* In the same states the walk of an access writes nothing but the marks in the
\* leaf that maps the address.
THEOREM WalkOnlyMarks ==
    Spec => []((phase = "running" => TablesReadable(bus)) => WalkMarksLeaf)
<1>1. HostInv /\ [Next]_memVars => HostInv'
  BY StepHost
<1>2. HostInv => ((phase = "running" => TablesReadable(bus)) => WalkMarksLeaf)
  BY MarksExact
<1> QED BY InitHost, <1>1, <1>2, PTL DEF Spec

-----------------------------------------------------------------------------
(* What a physical store does to each word of memory.                      *)

\* The place of a word in an access from a, counted around the end of the space.
LEMMA PlaceOf ==
    ASSUME NEW a \in 0 .. Space - 1, NEW b \in 0 .. Space - 1, NEW k \in {0, 1}
    PROVE  (a + k) % Space = b <=> (b + Space - a) % Space = k
<1>1. BootItem.size >= 2 /\ BootItem.size \in 1 .. Space /\ Space \in Nat \ {0}
  BY BusAssumption, BoardAssumption DEF Item
<1> DEFINE x == a + k
           y == b + Space - a
<1>2. x \in Int /\ 0 <= x /\ x < 2 * Space /\ y \in Int /\ 0 <= y /\ y < 2 * Space
  BY <1>1
<1>3. x + y = b + Space + k /\ Space >= 2
  BY <1>1
<1> HIDE DEF x, y
<1>4. (x < Space => x % Space = x) /\ (Space <= x => x % Space = x - Space)
  BY <1>1, <1>2, DivSmall
<1>5. (y < Space => y % Space = y) /\ (Space <= y => y % Space = y - Space)
  BY <1>1, <1>2, DivSmall
<1>6. x % Space = b <=> y % Space = k
  BY <1>1, <1>2, <1>3, <1>4, <1>5
<1> QED BY <1>6 DEF x, y

\* The words of the memories are addresses.
LEMMA MemoryAddress ==
    ASSUME TableInv, NEW b \in MemoryWords
    PROVE  /\ b \in 0 .. Space - 1
           /\ \E i \in DOMAIN address_items :
                 /\ address_items[i].kind = "memory"
                 /\ b >= address_items[i].start /\ b <= LastOf(address_items[i])
<1>1. PICK i \in DOMAIN address_items :
          address_items[i].kind = "memory" /\ b \in address_items[i].start .. LastOf(address_items[i])
  BY DEF MemoryWords
<1>2. address_items[i].start \in Nat /\ address_items[i].size \in Nat /\ LastOf(address_items[i]) < Space
  <2>1. address_items[i] \in Item /\ LastOf(address_items[i]) < Space
    BY DEF TableInv, BusInv
  <2> QED BY <2>1, BusAssumption DEF Item
<1>3. b \in 0 .. Space - 1 /\ b >= address_items[i].start /\ b <= LastOf(address_items[i])
  BY <1>1, <1>2, BusAssumption DEF LastOf
<1> QED BY <1>1, <1>3

\* What answers in the place of a memory holds no word of a memory.
LEMMA DeviceWords ==
    ASSUME TableInv, phase = "running", NEW a \in 0 .. Space - 1, NEW n \in {1, 2}, Accepting(a, n) # {},
           First(Accepting(a, n)).kind # "memory", NEW k \in 0 .. n - 1
    PROVE  (a + k) % Space \notin MemoryWords
<1> DEFINE places == Accepting(a, n)
           item == First(places)
<1>1. places \subseteq DOMAIN address_items /\ DOMAIN address_items \subseteq Nat \ {0}
  BY DEF Accepting, TableInv, BusInv
<1>2. PICK i \in places : item = address_items[i] /\ \A j \in places : i <= j
  BY <1>1, FirstOf
<1>3. /\ check_in(address_items[i], a, n) /\ i \in DOMAIN address_items /\ address_items[i] \in Item
      /\ address_items[i].kind # "memory" /\ Space \in Nat \ {0}
  BY <1>1, <1>2, BusAssumption DEF Accepting, TableInv, BusInv
<1>4. a + n < Space
  <2> SUFFICES ASSUME ~ (a + n < Space) PROVE FALSE
    OBVIOUS
  <2>1. (a + n) % Space = a + n - Space
    BY EndOf
  <2>2. address_items[1] = BootItem /\ 1 \in DOMAIN address_items
    BY DEF TableInv, BusInv
  <2>3. BootItem.size >= 2 /\ BootItem.size \in Nat /\ BootItem.start = 0 /\ BootItem.kind = "memory"
    BY BusAssumption, BoardAssumption DEF Item
  <2>4. check_in(BootItem, a, n)
    BY <1>3, <2>1, <2>3 DEF check_in, LastOf
  <2>5. 1 \in places
    BY <2>2, <2>4 DEF Accepting
  <2>6. i = 1
    <3>1. i <= 1 /\ i \in Nat \ {0}
      BY <1>1, <1>2, <2>5
    <3> QED BY <3>1
  <2> QED BY <1>3, <2>2, <2>3, <2>6
<1>5. (a + k) % Space = a + k /\ (a + n) % Space = a + n
  <2> DEFINE x == a + k
  <2>1. x \in Int /\ 0 <= x /\ x < Space
    BY <1>3, <1>4
  <2> HIDE DEF x
  <2>2. x % Space = x
    BY <1>3, <2>1, DivSmall
  <2> QED BY <1>4, <2>2, EndOf DEF x
<1>6. a + k >= address_items[i].start /\ a + k <= LastOf(address_items[i])
  BY <1>3, <1>5 DEF check_in, LastOf, Item
<1> SUFFICES ASSUME a + k \in MemoryWords PROVE FALSE
  BY <1>5
<1>7. PICK j \in DOMAIN address_items : /\ address_items[j].kind = "memory"
                                        /\ a + k >= address_items[j].start /\ a + k <= LastOf(address_items[j])
  BY MemoryAddress
<1>8. ~ check_overlap(address_items[i], address_items[j])
  BY <1>3, <1>7 DEF TableInv, BusInv
<1>9. address_items[j] \in Item
  BY <1>7 DEF TableInv, BusInv
<1> QED BY <1>3, <1>6, <1>7, <1>8, <1>9 DEF check_overlap, LastOf, Item

\* The words of an access of n words from a.
Word(a, n, b) == \E k \in 0 .. n - 1 : (a + k) % Space = b

\* What is stored in the words of an access, and nothing besides.
Puts(old, new, a, value, n) ==
    /\ DOMAIN new = DOMAIN old
    /\ \A b \in DOMAIN old :
          IF Word(a, n, b) THEN \E k \in 0 .. n - 1 : (a + k) % Space = b /\ new[b] = value[k + 1]
          ELSE new[b] = old[b]

\* A store does that when it is answered, and nothing when it is refused.
LEMMA StorePuts ==
    ASSUME TableInv, phase = "running", NEW s, Sound(s),
           NEW a \in 0 .. Space - 1, NEW n \in {1, 2}, NEW value
    PROVE  LET r == write_bytes(s, a, value, n)
           IN  /\ r.ok \in BOOLEAN
               /\ r.ok => Puts(s.ram, r.s.ram, a, value, n)
               /\ ~ r.ok => r.s = s
<1> DEFINE item == First(Accepting(a, n))
           r == write_bytes(s, a, value, n)
<1>0. DOMAIN s.ram = MemoryWords
  BY DEF Sound
<1>1. CASE Accepting(a, n) = {}
  BY <1>1 DEF write_bytes, Refused
<1>2. CASE Accepting(a, n) # {}
  <2>1. r = write_item(s, item, a, value, n)
    BY <1>2 DEF write_bytes
  <2>2. item.kind \in {"memory", "htif", "debug"}
    BY <1>2, AnsweringItem DEF Item, Kinds
  <2>3. CASE item.kind = "memory"
    <3> DEFINE place(b) == ((b + Space - a) % Space) + 1
               ram == [b \in DOMAIN s.ram |-> IF place(b) <= n THEN value[place(b)] ELSE s.ram[b]]
    <3>1. r = memory_write(s, item, a, value, n)
      BY <2>1, <2>3 DEF write_item
    <3>2. CASE ~ check_valid(item, a, n)
      BY <3>1, <3>2 DEF memory_write, Refused
    <3>3. CASE check_valid(item, a, n)
      <4>1. r.ok /\ r.s = [s EXCEPT !.ram = ram]
        BY <3>1, <3>3 DEF memory_write, Answered
      <4>2. r.s.ram = ram
        BY <4>1 DEF Sound
      <4>3. ASSUME NEW b \in DOMAIN s.ram
            PROVE  IF Word(a, n, b) THEN \E k \in 0 .. n - 1 : (a + k) % Space = b /\ ram[b] = value[k + 1]
                   ELSE ram[b] = s.ram[b]
        <5> DEFINE p == (b + Space - a) % Space
        <5>1. b \in 0 .. Space - 1
          BY <1>0, MemoryAddress
        <5>2. \A k \in {0, 1} : (a + k) % Space = b <=> p = k
          BY <5>1, PlaceOf
        <5>3. p \in Nat
          <6> DEFINE x == b + Space - a
          <6>1. x \in Int /\ Space \in Nat \ {0}
            BY <5>1, BusAssumption
          <6> HIDE DEF x
          <6>2. x % Space \in 0 .. Space - 1
            BY <6>1, IntDivMod
          <6> QED BY <6>1, <6>2 DEF x
        <5>4. ram[b] = IF p + 1 <= n THEN value[p + 1] ELSE s.ram[b]
          OBVIOUS
        <5> HIDE DEF p, ram
        <5>5. 0 .. n - 1 \subseteq {0, 1}
          OBVIOUS
        <5>6. CASE p + 1 <= n
          <6>1. p \in 0 .. n - 1
            BY <5>3, <5>6
          <6>2. (a + p) % Space = b /\ ram[b] = value[p + 1]
            BY <5>2, <5>4, <5>5, <5>6, <6>1
          <6> QED BY <6>1, <6>2 DEF Word
        <5>7. CASE ~ (p + 1 <= n)
          <6>1. \A k \in 0 .. n - 1 : p # k
            BY <5>3, <5>7
          <6> QED BY <5>2, <5>4, <5>5, <5>7, <6>1 DEF Word
        <5> QED BY <5>6, <5>7
      <4>4. DOMAIN ram = DOMAIN s.ram
        OBVIOUS
      <4> HIDE DEF ram, r
      <4> QED BY <4>1, <4>2, <4>3, <4>4 DEF Puts, r
    <3> QED BY <3>2, <3>3
  <2>4. ASSUME item.kind # "memory", r.s.ram = s.ram
        PROVE  Puts(s.ram, r.s.ram, a, value, n)
    <3>1. \A k \in 0 .. n - 1 : (a + k) % Space \notin DOMAIN s.ram
      BY <1>0, <1>2, <2>4, DeviceWords
    <3>2. \A b \in DOMAIN s.ram : ~ Word(a, n, b)
      BY <3>1 DEF Word
    <3> QED BY <2>4, <3>2 DEF Puts
  <2>5. CASE item.kind = "htif"
    <3> DEFINE h == htif_write(s.htif, a - item.start, value, n)
    <3>1. r.ok /\ r.s = [s EXCEPT !.htif = h]
      BY <2>1, <2>5 DEF write_item, Answered
    <3> HIDE DEF h
    <3>2. r.s.ram = s.ram
      BY <3>1 DEF Sound
    <3> QED BY <2>4, <2>5, <3>1, <3>2
  <2>6. CASE item.kind = "debug"
    <3>1. r.s = s /\ r.ok \in BOOLEAN
      BY <2>1, <2>6 DEF write_item, debug_write, Answered, Refused
    <3> QED BY <2>4, <2>6, <3>1
  <2> QED BY <2>2, <2>3, <2>5, <2>6
<1> QED BY <1>1, <1>2

\* A word that does not lie at the beginning of a page does not end the emulator.
LEMMA WordBehind ==
    ASSUME TableInv, phase = "running", NEW s, Sound(s), s.htif.power = "on",
           NEW a \in 0 .. Space - 1, a % PageSize # 0, NEW value, value[1] \in Nat
    PROVE  write_bytes(s, a, value, 1).s.htif.power = "on"
<1> DEFINE item == First(Accepting(a, 1))
<1>1. CASE Accepting(a, 1) = {}
  BY <1>1 DEF write_bytes, Refused
<1>2. CASE Accepting(a, 1) # {}
  <2>1. item \in Item /\ (item.kind = "htif" => a - item.start \in {0, 1, 2, 3})
    BY <1>2, AnsweringItem
  <2>2. write_bytes(s, a, value, 1) = write_item(s, item, a, value, 1)
    BY <1>2 DEF write_bytes
  <2>3. item \in Board
    <3>1. Accepting(a, 1) \subseteq Nat /\ Accepting(a, 1) \subseteq DOMAIN address_items
      BY DEF Accepting, TableInv, BusInv
    <3>2. PICK i \in Accepting(a, 1) : item = address_items[i]
      BY <1>2, <3>1, FirstOf
    <3> QED BY <3>1, <3>2 DEF TableInv
  <2> HIDE DEF item
  <2>4. CASE item.kind = "memory"
    <3>1. write_bytes(s, a, value, 1) = memory_write(s, item, a, value, 1)
      BY <2>2, <2>4 DEF write_item
    <3>2. \A k \in 1 .. 1 : value[k] \in Nat
      OBVIOUS
    <3>3. 1 \in Nat
      OBVIOUS
    <3> QED BY <3>1, <3>2, <3>3, MemoryStored
  <2>5. CASE item.kind = "htif"
    <3> DEFINE offset == a - item.start
               h == htif_write(s.htif, offset, value, 1)
    <3>1. write_bytes(s, a, value, 1).s = [s EXCEPT !.htif = h]
      BY <2>2, <2>5 DEF write_item, Answered
    <3>2. item.start % PageSize = 0
      BY <2>3, <2>5, AlignAssumption DEF Board
    <3>3. offset \in {0, 1, 2, 3} /\ offset # 0
      <4>1. item.start \in Nat /\ a \in Nat
        BY <2>1, BusAssumption DEF Item
      <4>2. a # item.start
        BY <3>2
      <4> QED BY <2>1, <2>5, <4>1, <4>2
    <3>4. h = htif_write_sub(s.htif, offset, value[1])
      BY DEF htif_write
    <3> HIDE DEF h, offset
    <3>5. h.power = "on"
      <4>1. IsHost(s.htif)
        BY DEF Sound
      <4> QED BY <3>3, <3>4, <4>1, HalfStored
    <3>6. write_bytes(s, a, value, 1).s = [ram |-> s.ram, htif |-> h]
      BY <3>1 DEF Sound
    <3> QED BY <3>5, <3>6
  <2>6. CASE item.kind = "debug"
    <3>1. write_bytes(s, a, value, 1).s = s
      BY <2>2, <2>6 DEF write_item, debug_write, Answered, Refused
    <3> QED BY <3>1
  <2> QED BY <2>1, <2>4, <2>5, <2>6 DEF Item, Kinds
<1> QED BY <1>1, <1>2

-----------------------------------------------------------------------------
(* Walks through tables that differ in nothing but marks.                  *)

\* The words of the tables.
TableWords(s) == { e.at : e \in Entries(s) }

\* The words of the tables can be read.
LEMMA TableWordsReachable ==
    ASSUME NEW s
    PROVE  TableWords(s) \subseteq Reachable
<1> SUFFICES ASSUME NEW e \in Entries(s) PROVE e.at \in Reachable
  BY DEF TableWords
<1>1. PICK k \in 0 .. Levels - 1 : e \in EntriesAt(s, k)
  BY DEF Entries
<1>2. PICK t \in Tables(s)[k] : e \in EntriesOf(t, Levels - 1 - k)
  BY <1>1 DEF EntriesAt
<1> QED BY <1>2 DEF EntriesOf

\* Entries, and memories, that differ in nothing but marks of the walk.
SameEntry(p, q) ==
    PpnOf(p) = PpnOf(q) /\ \A b \in Bits \ {PTE_A, PTE_D} : Has(p, b) <=> Has(q, b)
SameTables(s, u) == \A a \in TableWords(s) : SameEntry(s.ram[a], u.ram[a])

\* What is read of such entries is the same.
LEMMA SameEntryReads ==
    ASSUME NEW p, NEW q, SameEntry(p, q)
    PROVE  /\ IsPointer(p) <=> IsPointer(q)
           /\ IsLeafEntry(p) <=> IsLeafEntry(q)
           /\ PpnOf(p) = PpnOf(q)
           /\ \A cpu, priv : AllowedFor(cpu, priv, p, PTE_W) <=> AllowedFor(cpu, priv, q, PTE_W)
<1>1. \A b \in {PTE_V, PTE_R, PTE_W, PTE_X, PTE_U} : Has(p, b) <=> Has(q, b)
  BY DEF SameEntry, Bits, PTE_V, PTE_R, PTE_W, PTE_X, PTE_U, PTE_A, PTE_D
<1>2. PTE_W # PTE_R
  BY DEF PTE_W, PTE_R
<1> QED BY <1>1, <1>2 DEF SameEntry, IsPointer, IsLeafEntry, IsLeaf, AllowedFor

\* A marked entry is the same entry.
LEMMA MarkedSame ==
    ASSUME NEW p \in Nat, NEW access
    PROVE  SameEntry(p, Marked(p, access))
<1> DEFINE q == Marked(p, access)
<1>1. PpnOf(q) = PpnOf(p) /\ BitsOf(q) = BitsOf(p) \cup Needed(access)
  BY MarkedBits
<1> HIDE DEF q
<1>2. ASSUME NEW b \in Bits \ {PTE_A, PTE_D} PROVE Has(p, b) <=> Has(q, b)
  <2>1. b \in BitsOf(p) <=> Has(p, b)
    BY DEF BitsOf, Bits
  <2>2. b \in BitsOf(q) <=> Has(q, b)
    BY DEF BitsOf, Bits
  <2>3. b \notin Needed(access)
    BY DEF Needed
  <2> QED BY <1>1, <2>1, <2>2, <2>3
<1> QED BY <1>1, <1>2 DEF SameEntry, q

\* Two walks that are at the same place.
SameWalk(s, u, w, v) ==
    /\ v.on = w.on /\ v.found = w.found
    /\ w.on => v.base = w.base
    /\ w.found => /\ v.level = w.level /\ v.at = w.at /\ w.at \in TableWords(s)
                  /\ v.pte = u.ram[w.at]

\* They stay together where the tables differ in nothing but marks.
LEMMA SameDown ==
    ASSUME TableInv, phase = "running", NEW s, Sound(s), TablesReadable(s), NEW u, Sound(u), SameTables(s, u),
           NEW va \in Nat, NEW k \in 0 .. Levels - 1, NEW w, Agrees(s, va, k, w), w.on,
           NEW v, SameWalk(s, u, w, v)
    PROVE  SameWalk(s, u, Down(s, va, w, Levels - (k + 1)), Down(u, va, v, Levels - (k + 1)))
<1> DEFINE i == Levels - (k + 1)
           at == w.base * PageSize + Vpn(va, i)
           entry == Entry(i, at, Prefix(va, i))
           p == s.ram[at]
           q == u.ram[at]
           w1 == Down(s, va, w, i)
           v1 == Down(u, va, v, i)
<1>0. /\ Levels \in Nat \ {0} /\ k < Levels /\ i = Levels - 1 - k /\ i \in 0 .. Levels - 1
  BY MmuAssumption
<1>1. InTable(s, va, k, w) /\ PageOk(w) /\ v.base = w.base
  BY <1>0 DEF Agrees, WalkOk, SameWalk
<1> HIDE DEF i
<1>2. /\ Table(w.base, Prefix(va, i + 1)) \in Tables(s)[k]
      /\ entry \in EntriesOf(Table(w.base, Prefix(va, i + 1)), i) /\ at \in Reachable
  BY <1>0, <1>1, LevelEntry
<1>3. at \in TableWords(s)
  <2>1. entry \in EntriesAt(s, k)
    BY <1>0, <1>2 DEF EntriesAt
  <2>2. entry \in Entries(s)
    BY <2>1 DEF Entries
  <2>3. entry.at = at
    BY DEF Entry
  <2> QED BY <2>2, <2>3 DEF TableWords
<1>4. SameEntry(p, q)
  BY <1>3 DEF SameTables
<1>5. /\ w1.on = IsPointer(p) /\ w1.found = IsLeafEntry(p) /\ w1.level = i /\ w1.at = at
      /\ w1.pte = p /\ w1.base = PpnOf(p)
  <2>1. read_bytes(s, at, 1).data # <<>> /\ read_bytes(s, at, 1).data[1] = p
    BY <1>2, ReadReachable
  <2> HIDE DEF at
  <2> QED BY <2>1 DEF Down, IsPointer, IsLeafEntry, at
<1>6. /\ v1.on = IsPointer(q) /\ v1.found = IsLeafEntry(q) /\ v1.level = i /\ v1.at = at
      /\ v1.pte = q /\ v1.base = PpnOf(q)
  <2>1. read_bytes(u, at, 1).data # <<>> /\ read_bytes(u, at, 1).data[1] = q
    BY <1>2, ReadReachable
  <2>2. at = v.base * PageSize + Vpn(va, i)
    BY <1>1
  <2> HIDE DEF at
  <2> QED BY <2>1, <2>2 DEF Down, IsPointer, IsLeafEntry
<1> HIDE DEF w1, v1, at, p, entry
<1>7. IsPointer(p) = IsPointer(q) /\ IsLeafEntry(p) = IsLeafEntry(q) /\ PpnOf(p) = PpnOf(q)
  <2>1. (IsPointer(p) <=> IsPointer(q)) /\ (IsLeafEntry(p) <=> IsLeafEntry(q)) /\ PpnOf(p) = PpnOf(q)
    BY <1>4, SameEntryReads
  <2>2. \A x : IsPointer(x) \in BOOLEAN /\ IsLeafEntry(x) \in BOOLEAN
    BY DEF IsPointer, IsLeafEntry
  <2> QED BY <2>1, <2>2
<1> HIDE DEF q
<1>8. SameWalk(s, u, w1, v1)
  BY <1>3, <1>5, <1>6, <1>7 DEF SameWalk, q
<1> QED BY <1>8 DEF w1, v1, i

\* So they end at the same leaf.
LEMMA SameLeaf ==
    ASSUME TableInv, phase = "running", NEW s, Sound(s), TablesReadable(s), NEW u, Sound(u), SameTables(s, u),
           NEW va \in Nat
    PROVE  SameWalk(s, u, Leaf(s, va), Leaf(u, va))
<1> DEFINE g == CHOOSE g : Walk(s, va, Levels, g)
           h == CHOOSE f : Walk(u, va, Levels, f)
<1>0. Levels \in Nat \ {0}
  BY MmuAssumption
<1>1. Walk(s, va, Levels, g) /\ Walk(u, va, Levels, h)
  BY WalkExists
<1>2. Leaf(s, va) = g[Levels] /\ Leaf(u, va) = h[Levels]
  BY DEF Leaf, Walk, Turn
<1> HIDE DEF g, h
<1>3. \A k \in 0 .. Levels :
          /\ g[k] = IF k = 0 THEN Start ELSE Turn(s, va, g[k - 1], Levels - k)
          /\ h[k] = IF k = 0 THEN Start ELSE Turn(u, va, h[k - 1], Levels - k)
  BY <1>1 DEF Walk
<1>4. \A k \in 0 .. Levels : Agrees(s, va, k, g[k])
  BY <1>1, WalkAgrees
<1> DEFINE T == { n \in Nat : n <= Levels => SameWalk(s, u, g[n], h[n]) }
<1>5. 0 \in T
  <2>1. g[0] = Start /\ h[0] = Start
    BY <1>0, <1>3
  <2> QED BY <2>1 DEF SameWalk, Start
<1>6. ASSUME NEW n \in Nat, n \in T PROVE n + 1 \in T
  <2> SUFFICES ASSUME n + 1 <= Levels PROVE SameWalk(s, u, g[n + 1], h[n + 1])
    OBVIOUS
  <2>1. SameWalk(s, u, g[n], h[n]) /\ n \in 0 .. Levels - 1 /\ n \in 0 .. Levels
    BY <1>0, <1>6
  <2>2. /\ g[n + 1] = Turn(s, va, g[n], Levels - (n + 1))
        /\ h[n + 1] = Turn(u, va, h[n], Levels - (n + 1))
    <3>1. n + 1 \in 0 .. Levels /\ ~ (n + 1 = 0) /\ n + 1 - 1 = n
      BY <1>0
    <3> QED BY <1>3, <3>1
  <2>3. g[n].on = h[n].on
    BY <2>1 DEF SameWalk
  <2>4. CASE g[n].on
    BY <1>4, <2>1, <2>2, <2>3, <2>4, SameDown DEF Turn
  <2>5. CASE ~ g[n].on
    BY <2>1, <2>2, <2>3, <2>5 DEF Turn
  <2> QED BY <2>4, <2>5
<1> HIDE DEF T
<1>7. Levels \in T
  BY <1>0, <1>5, <1>6, Induct
<1> QED BY <1>0, <1>2, <1>7 DEF T

\* What a translation leaves of the words outside the tables, and of the tables.
OnlyMarks(s, u, new) ==
    /\ DOMAIN new.ram = DOMAIN u.ram
    /\ \A b \in DOMAIN u.ram \ TableWords(s) : new.ram[b] = u.ram[b]
    /\ SameTables(s, new)

\* A store is translated as it would be without the marks, and leaves only marks.
LEMMA SameTranslation ==
    ASSUME TableInv, phase = "running", NEW s, Sound(s), TablesReadable(s), NEW u, Sound(u), SameTables(s, u),
           NEW cpu \in Cpus, NEW va \in 0 .. Space - 1
    PROVE  LET t == address_translate(s, cpu, va, PTE_W)
               r == address_translate(u, cpu, va, PTE_W)
           IN  /\ r.ok = t.ok /\ (t.ok => r.pa = t.pa)
               /\ OnlyMarks(s, u, r.s)
<1> DEFINE t == address_translate(s, cpu, va, PTE_W)
           r == address_translate(u, cpu, va, PTE_W)
           priv == EffectivePriv(cpu, PTE_W)
<1>0. va \in Nat
  BY BusAssumption
<1>1. OnlyMarks(s, u, u)
  BY DEF OnlyMarks
<1>2. CASE priv = PRIV_M
  BY <1>1, <1>2 DEF address_translate
<1>3. CASE priv # PRIV_M /\ cpu.mode = "bare"
  BY <1>1, <1>3 DEF address_translate
<1>4. CASE priv # PRIV_M /\ cpu.mode # "bare"
  <2> DEFINE w == Leaf(s, va)
             v == Leaf(u, va)
             marked == Marked(v.pte, PTE_W)
             left == write_bytes(u, v.at, <<marked>>, 1).s
  <2>1. Translated(cpu, PTE_W)
    <3>1. cpu.mode = "paged"
      BY <1>4, MmuAssumption
    <3>2. PTE_W # PTE_X
      BY DEF PTE_W, PTE_X
    <3> QED BY <1>4, <3>1, <3>2 DEF Translated, EffectivePriv
  <2>2. SameWalk(s, u, w, v)
    BY <1>0, SameLeaf
  <2>3. /\ w.found \in BOOLEAN
        /\ w.found => w.at \in Reachable /\ w.pte = s.ram[w.at] /\ w.pte \in Nat
    BY <1>0, LeafFound
  <2>4. /\ v.found = w.found
        /\ w.found => /\ v.level = w.level /\ v.at = w.at /\ w.at \in TableWords(s) /\ v.pte = u.ram[w.at]
                      /\ v.pte \in Nat /\ SameEntry(w.pte, v.pte)
    <3>1. w.found => u.ram[w.at] \in Nat
      BY <2>3, ReadReachable
    <3> QED BY <2>2, <2>3, <3>1 DEF SameWalk, SameTables
  <2>5. w = Leaf(s, va) /\ t = address_translate(s, cpu, va, PTE_W)
    OBVIOUS
  <2>6. v = Leaf(u, va) /\ r = address_translate(u, cpu, va, PTE_W)
    OBVIOUS
  <2> HIDE DEF w, v, t, r
  <2>7. FromLeaf(s, cpu, va, PTE_W, w, t)
    BY <2>1, <2>3, <2>5, TranslationFromLeaf
  <2>8. FromLeaf(u, cpu, va, PTE_W, v, r)
    BY <2>1, <2>3, <2>4, <2>6, TranslationFromLeaf
  <2>9. Usable(cpu, PTE_W, w) <=> Usable(cpu, PTE_W, v)
    BY <2>3, <2>4, SameEntryReads DEF Usable
  <2>10. Usable(cpu, PTE_W, w) => (Aligned(w) <=> Aligned(v)) /\ Address(va, w) = Address(va, v)
    BY <2>4, SameEntryReads DEF Usable, Aligned, Address, PageOf
  <2>11. t.ok \in BOOLEAN /\ r.ok \in BOOLEAN
    <3>1. \A x, c, a, f : UseLeaf(x, c, priv, va, a, f).ok \in BOOLEAN
      BY DEF UseLeaf, NoTranslation, MarkAndPlace
    <3>2. t = UseLeaf(s, cpu, priv, va, PTE_W, w) /\ r = UseLeaf(u, cpu, priv, va, PTE_W, v)
      BY <1>4, <2>5, <2>6 DEF address_translate, translate_action
    <3> QED BY <3>1, <3>2
  <2>12. r.ok = t.ok /\ (t.ok => r.pa = t.pa)
    BY <2>7, <2>8, <2>9, <2>10, <2>11 DEF FromLeaf
  <2>13. OnlyMarks(s, u, r.s)
    <3>1. CASE ~ Usable(cpu, PTE_W, v) \/ marked = v.pte
      <4>1. r.s = u
        BY <2>8, <3>1 DEF FromLeaf
      <4> QED BY <1>1, <4>1
    <3>2. CASE Usable(cpu, PTE_W, v) /\ marked # v.pte
      <4>1. r.s = left
        BY <2>8, <3>2 DEF FromLeaf
      <4>2. w.found /\ v.at \in Reachable /\ v.at \in TableWords(s)
        BY <2>3, <2>4, <3>2 DEF Usable
      <4>3. SameEntry(v.pte, marked)
        BY <2>4, <4>2, MarkedSame
      <4>4. SameEntry(s.ram[v.at], marked)
        BY <2>3, <2>4, <4>2, <4>3 DEF SameEntry
      <4> HIDE DEF marked
      <4>5. /\ left.ram[v.at] = marked
            /\ \A b \in DOMAIN u.ram : b # v.at => left.ram[b] = u.ram[b]
        BY <4>2, WriteReachable
      <4>6. DOMAIN left.ram = DOMAIN u.ram
        <5> DEFINE value == <<marked>>
        <5>1. v.at \in 0 .. Space - 1
          BY <4>2, ReachableItem
        <5> HIDE DEF value
        <5>2. write_bytes(u, v.at, value, 1).ok => DOMAIN write_bytes(u, v.at, value, 1).s.ram = DOMAIN u.ram
          BY <5>1, StorePuts DEF Puts
        <5>3. ~ write_bytes(u, v.at, value, 1).ok => write_bytes(u, v.at, value, 1).s = u
          BY <5>1, StorePuts
        <5> QED BY <5>2, <5>3 DEF value
      <4> HIDE DEF left
      <4>7. TableWords(s) \subseteq DOMAIN u.ram
        <5>1. DOMAIN u.ram = MemoryWords
          BY DEF Sound
        <5> QED BY <5>1, TableWordsReachable, ReachableItem
      <4>8. SameTables(s, left)
        BY <4>4, <4>5, <4>7 DEF SameTables
      <4> QED BY <4>1, <4>2, <4>5, <4>6, <4>8 DEF OnlyMarks
    <3> QED BY <3>1, <3>2
  <2> QED BY <2>12, <2>13 DEF t, r
<1> QED BY <1>2, <1>3, <1>4

\* The place of the last word of a page is kept by every translation that moves it.
LEMMA PlaceKept ==
    ASSUME TableInv, phase = "running", NEW s, Sound(s), NEW cpu \in Cpus,
           NEW va \in 0 .. Space - 1, NEW t, t = address_translate(s, cpu, va, PTE_W), t.ok
    PROVE  t.pa % PageSize = va % PageSize
<1> DEFINE priv == EffectivePriv(cpu, PTE_W)
           leaf == Leaf(s, va)
           pte == Marked(leaf.pte, PTE_W)
           place == va % PageSize
<1>0. va \in Nat /\ PageSize \in Nat \ {0}
  BY BusAssumption, MmuAssumption
<1>1. CASE priv = PRIV_M
  <2> DEFINE m == 2 ^ cpu.xlen
  <2>1. m \in Nat \ {0} /\ m % PageSize = 0
    <3>1. cpu.xlen \in 1 .. AddrBits
      BY MmuAssumption
    <3> QED BY <3>1, PageAssumption, AlignAssumption
  <2>2. t.pa = va % m
    BY <1>1 DEF address_translate
  <2> HIDE DEF m
  <2>3. (va % m) % PageSize = va % PageSize
    <3>1. va \in Int /\ m \in Nat \ {0} /\ PageSize \in Nat \ {0} /\ m % PageSize = 0
      BY <1>0, <2>1
    <3> QED BY ONLY <3>1, ModOfDivisor
  <2> QED BY <2>2, <2>3
<1>2. CASE priv # PRIV_M /\ cpu.mode = "bare"
  BY <1>2 DEF address_translate
<1>3. CASE priv # PRIV_M /\ cpu.mode # "bare"
  <2> DEFINE page == PageOf(va, leaf.level, pte)
  <2>1. t = UseLeaf(s, cpu, priv, va, PTE_W, leaf)
    BY <1>3 DEF address_translate, translate_action
  <2>2. WalkOk(leaf)
    BY <1>0, LeafOk
  <2> HIDE DEF leaf
  <2>3. leaf.found /\ t = MarkAndPlace(s, leaf, pte, va)
    <3> HIDE DEF pte
    <3>1. t # NoTranslation(s)
      BY DEF NoTranslation
    <3> QED BY <2>1, <3>1 DEF UseLeaf, pte
  <2>4. leaf.level \in 0 .. Levels - 1 /\ pte \in Nat
    BY <2>2, <2>3, MarkedBits DEF WalkOk, Place
  <2> HIDE DEF pte
  <2>5. t.pa = page * PageSize + place
    BY <2>3 DEF MarkAndPlace, NoTranslation
  <2>6. page \in Nat
    <3>1. page \in 0 .. 2 ^ PpnBits - 1 /\ 2 ^ PpnBits \in Nat
      BY <1>0, <2>4, PageFits, PageAssumption
    <3> QED BY <3>1
  <2>7. place \in 0 .. PageSize - 1
    BY <1>0, NatDivMod
  <2> HIDE DEF page, place
  <2>8. (page * PageSize + place) % PageSize = place
    BY <1>0, <2>6, <2>7, DivModJoin
  <2> QED BY <2>5, <2>8 DEF place
<1> QED BY <1>1, <1>2, <1>3

-----------------------------------------------------------------------------
(* A store lands where its words are translated to.                        *)

\* What StoreLands says of one store with the result r.
Lands(tables, old, r, target, value, va, next, n, room) ==
    LET done == IF r.ok THEN 0 .. n - 1 ELSE { k \in 0 .. n - 1 : r.tval # va /\ k < room }
    IN  /\ \A b \in DOMAIN old \ tables :
              IF \E k \in done : target[k] = b
              THEN \E k \in done : target[k] = b /\ r.s.ram[b] = value[k + 1]
              ELSE r.s.ram[b] = old[b]
        /\ ~ r.ok => r.tval \in {va, next} /\ (r.cause = "access" => target[0] = va)

\* A fault that leaves everything but marks as it was.
LEMMA NothingLands ==
    ASSUME NEW tables, NEW old, NEW r, NEW target, NEW value, NEW va, NEW next, NEW n, NEW room,
           r.ok = FALSE, r.tval = va, r.cause = "access" => target[0] = va,
           \A b \in DOMAIN old \ tables : r.s.ram[b] = old[b]
    PROVE  Lands(tables, old, r, target, value, va, next, n, room)
BY DEF Lands

\* A store in one piece.
LEMMA WholeLands ==
    ASSUME TableInv, phase = "running", NEW s, Sound(s), NEW t, TranslationOk(t), t.ok, OnlyMarks(s, s, t.s),
           NEW va \in 0 .. Space - 1, NEW n \in {1, 2}, NEW value \in Seq(Nat), Len(value) = n,
           NEW target, \A k \in 0 .. n - 1 : target[k] = (t.pa + k) % Space,
           \A k \in 0 .. n - 1 : target[k] \notin TableWords(s), NEW next, NEW room
    PROVE  Lands(TableWords(s), s.ram, Whole(t, va, PTE_W, value, n), target, value, va, next, n, room)
<1> DEFINE w == write_bytes(t.s, t.pa, value, n)
           r == Whole(t, va, PTE_W, value, n)
           cause == IF t.pa = va THEN "access" ELSE "page"
<1>0. t.pa \in 0 .. Space - 1 /\ Sound(t.s)
  BY DEF TranslationOk
<1>1. r = Reported(w, cause, va)
  BY DEF Whole, Physical
<1>2. /\ w.ok \in BOOLEAN
      /\ w.ok => Puts(t.s.ram, w.s.ram, t.pa, value, n)
      /\ ~ w.ok => w.s = t.s
  BY <1>0, StorePuts
<1>3. \A b \in DOMAIN s.ram \ TableWords(s) : b \in DOMAIN t.s.ram /\ t.s.ram[b] = s.ram[b]
  BY DEF OnlyMarks
<1> HIDE DEF w
<1>4. CASE ~ w.ok
  <2>1. r = Faults(w.s, cause, va)
    BY <1>1, <1>4 DEF Reported
  <2>2. r.ok = FALSE /\ r.tval = va /\ r.s = t.s /\ (r.cause = "access" => t.pa = va)
    BY <1>2, <1>4, <2>1 DEF Faults
  <2>3. t.pa = va => target[0] = va
    <3>1. va + 0 = va /\ va \in Int /\ 0 <= va /\ va < Space /\ Space \in Nat \ {0} /\ 0 \in 0 .. n - 1
      BY BusAssumption
    <3>2. va % Space = va
      BY <3>1, DivSmall
    <3> QED BY <3>1, <3>2
  <2> HIDE DEF r
  <2> QED BY <1>3, <2>2, <2>3, NothingLands DEF r
<1>5. CASE w.ok
  <2>1. r.ok = TRUE /\ r.s = w.s
    BY <1>1, <1>5 DEF Reported, Done
  <2> HIDE DEF r
  <2>2. ASSUME NEW b \in DOMAIN s.ram \ TableWords(s)
        PROVE  IF \E k \in 0 .. n - 1 : target[k] = b
               THEN \E k \in 0 .. n - 1 : target[k] = b /\ r.s.ram[b] = value[k + 1]
               ELSE r.s.ram[b] = s.ram[b]
    BY <1>2, <1>3, <1>5, <2>1 DEF Puts, Word
  <2> QED BY <2>1, <2>2 DEF Lands, r
<1> QED BY <1>2, <1>4, <1>5

\* One word that is stored.
LEMMA WordPut ==
    ASSUME TableInv, phase = "running", NEW s, Sound(s), NEW a \in 0 .. Space - 1, NEW value
    PROVE  LET w == write_bytes(s, a, value, 1)
           IN  /\ w.ok \in BOOLEAN /\ DOMAIN w.s.ram = DOMAIN s.ram
               /\ ~ w.ok => w.s = s
               /\ w.ok => \A b \in DOMAIN s.ram : w.s.ram[b] = IF b = a THEN value[1] ELSE s.ram[b]
<1> DEFINE w == write_bytes(s, a, value, 1)
<1>1. /\ w.ok \in BOOLEAN
      /\ w.ok => Puts(s.ram, w.s.ram, a, value, 1)
      /\ ~ w.ok => w.s = s
  BY StorePuts
<1>2. \A k \in 0 .. 1 - 1 : (a + k) % Space = a /\ k + 1 = 1
  <2>1. a + 0 = a /\ a \in Int /\ Space \in Nat \ {0} /\ 0 + 1 = 1
    BY BusAssumption
  <2>2. a % Space = a
    BY <2>1, DivSmall
  <2> QED BY <2>1, <2>2
<1>3. 0 \in 0 .. 1 - 1
  OBVIOUS
<1> HIDE DEF w
<1>4. ASSUME w.ok, NEW b \in DOMAIN s.ram PROVE w.s.ram[b] = IF b = a THEN value[1] ELSE s.ram[b]
  <2>1. Word(a, 1, b) <=> b = a
    BY <1>2, <1>3 DEF Word
  <2> QED BY <1>1, <1>2, <1>4, <2>1 DEF Puts
<1> QED BY <1>1, <1>4 DEF Puts, w

\* A store in two parts: the second is translated when the first has been made.
LEMMA PartsLand ==
    ASSUME TableInv, phase = "running", NEW s, Sound(s), TablesReadable(s),
           NEW t, TranslationOk(t), t.ok, OnlyMarks(s, s, t.s), t.pa % PageSize # 0,
           NEW cpu \in Cpus, NEW va \in 0 .. Space - 1, Room(va) = 1,
           NEW value \in Seq(Nat), Len(value) = 2, NEW next, next = (va + Room(va)) % Space,
           NEW target, target[0] = t.pa, target[0] \notin TableWords(s),
           LET second == address_translate(s, cpu, next, PTE_W) IN second.ok => target[1] = second.pa
    PROVE  Lands(TableWords(s), s.ram,
                 AfterFirst(write_bytes(t.s, t.pa, SubSeq(value, 1, 1), 1), cpu, va, PTE_W, value, 2),
                 target, value, va, next, 2, 1)
<1> DEFINE one == SubSeq(value, 1, 1)
           two == SubSeq(value, 1 + 1, 2)
           w == write_bytes(t.s, t.pa, one, 1)
           r == AfterFirst(w, cpu, va, PTE_W, value, 2)
           t2 == address_translate(w.s, cpu, next, PTE_W)
           w2 == write_bytes(t2.s, t2.pa, two, 1)
           tables == TableWords(s)
<1>0. t.pa \in 0 .. Space - 1 /\ Sound(t.s) /\ t.s.htif.power = "on"
  BY DEF TranslationOk
<1>1. value[1] \in Nat /\ value[2] \in Nat /\ one[1] = value[1] /\ two[1] = value[2]
  BY TwoWords
<1>2. next \in 0 .. Space - 1 /\ next # va
  <2>1. BootItem.size >= 2 /\ BootItem.size \in 1 .. Space /\ Space \in Nat \ {0}
    BY BusAssumption, BoardAssumption DEF Item
  <2>2. next = IF va + 1 < Space THEN va + 1 ELSE va + 1 - Space
    BY EndOf
  <2> QED BY <2>1, <2>2
<1> HIDE DEF one, two
<1>3. /\ w.ok \in BOOLEAN /\ DOMAIN w.s.ram = DOMAIN t.s.ram
      /\ ~ w.ok => w.s = t.s
      /\ w.ok => \A b \in DOMAIN t.s.ram : w.s.ram[b] = IF b = t.pa THEN one[1] ELSE t.s.ram[b]
  BY <1>0, WordPut
<1>4. Sound(w.s) /\ w.s.htif.power = "on"
  <2>1. \A k \in 1 .. 1 : one[k] \in Nat
    BY <1>1
  <2>2. Sound(w.s)
    BY <1>0, <2>1, WordsWritten
  <2>3. w.s.htif.power = "on"
    BY <1>0, <1>1, WordBehind
  <2> QED BY <2>2, <2>3
<1> HIDE DEF w
<1>5. /\ DOMAIN t.s.ram = DOMAIN s.ram
      /\ \A b \in DOMAIN s.ram \ tables : t.s.ram[b] = s.ram[b]
      /\ SameTables(s, t.s) /\ tables \subseteq DOMAIN s.ram
  <2>1. DOMAIN s.ram = MemoryWords
    BY DEF Sound
  <2> QED BY <2>1, TableWordsReachable, ReachableItem DEF OnlyMarks
<1>6. CASE ~ w.ok
  <2>1. r = Faults(w.s, "page", va)
    BY <1>6 DEF AfterFirst
  <2>2. r.ok = FALSE /\ r.tval = va /\ r.s = t.s /\ r.cause = "page"
    BY <1>3, <1>6, <2>1 DEF Faults
  <2> HIDE DEF r
  <2>3. \A b \in DOMAIN s.ram \ tables : r.s.ram[b] = s.ram[b]
    BY <1>5, <2>2
  <2>4. r.cause = "access" => target[0] = va
    BY <2>2
  <2> HIDE DEF tables
  <2>5. Lands(tables, s.ram, r, target, value, va, next, 2, 1)
    BY <2>2, <2>3, <2>4, NothingLands
  <2> QED BY <2>5 DEF r, w, one, tables
<1>7. CASE w.ok
  <2>1. SameTables(s, w.s)
    BY <1>3, <1>5, <1>7 DEF SameTables
  <2>2. /\ t2.ok = address_translate(s, cpu, next, PTE_W).ok
        /\ t2.ok => t2.pa = target[1]
        /\ OnlyMarks(s, w.s, t2.s)
    BY <1>2, <1>4, <2>1, SameTranslation
  <2>3. TranslationOk(t2)
    BY <1>2, <1>4, TranslateOk
  <2>4. r = Joined(w, SecondPart(t2, next, PTE_W, two, 1))
    <3>1. 2 - Room(va) = 1 /\ Room(va) + 1 = 1 + 1
      OBVIOUS
    <3> QED BY <1>4, <1>7, <3>1 DEF AfterFirst, two
  <2> HIDE DEF t2, r
  <2>5. /\ DOMAIN t2.s.ram = DOMAIN s.ram
        /\ \A b \in DOMAIN s.ram \ tables : t2.s.ram[b] = IF b = t.pa THEN value[1] ELSE s.ram[b]
    BY <1>1, <1>3, <1>5, <1>7, <2>2 DEF OnlyMarks
  <2>6. ASSUME r = Faults(t2.s, "page", next)
        PROVE  Lands(tables, s.ram, r, target, value, va, next, 2, 1)
    <3>1. r.ok = FALSE /\ r.tval = next /\ r.s = t2.s /\ r.cause = "page"
      BY <2>6 DEF Faults
    <3> DEFINE done == { k \in 0 .. 2 - 1 : r.tval # va /\ k < 1 }
    <3>2. done = {0}
      BY <1>2, <3>1
    <3> HIDE DEF done
    <3>3. \A b \in DOMAIN s.ram \ tables :
              IF \E k \in done : target[k] = b
              THEN \E k \in done : target[k] = b /\ r.s.ram[b] = value[k + 1]
              ELSE r.s.ram[b] = s.ram[b]
      <4>1. 0 + 1 = 1
        OBVIOUS
      <4> QED BY <2>5, <3>1, <3>2, <4>1
    <3> QED BY <3>1, <3>3 DEF Lands, done
  <2>7. CASE ~ t2.ok
    <3>1. SecondPart(t2, next, PTE_W, two, 1) = Faults(t2.s, "page", next)
      BY <2>7 DEF SecondPart
    <3>2. r = Faults(t2.s, "page", next)
      BY <2>4, <3>1 DEF Joined, Faults
    <3> QED BY <2>6, <3>2 DEF r, w, one
  <2>8. CASE t2.ok
    <3>1. t2.pa \in 0 .. Space - 1 /\ Sound(t2.s) /\ t2.pa = target[1]
      BY <2>2, <2>3, <2>8 DEF TranslationOk
    <3>2. /\ w2.ok \in BOOLEAN /\ (~ w2.ok => w2.s = t2.s)
          /\ w2.ok => \A b \in DOMAIN t2.s.ram : w2.s.ram[b] = IF b = t2.pa THEN two[1] ELSE t2.s.ram[b]
      <4> DEFINE u == t2.s
                 a == t2.pa
                 y == write_bytes(u, a, two, 1)
      <4>1. Sound(u) /\ a \in 0 .. Space - 1
        BY <3>1
      <4> HIDE DEF u, a, w2
      <4>2. /\ y.ok \in BOOLEAN /\ DOMAIN y.s.ram = DOMAIN u.ram
            /\ ~ y.ok => y.s = u
            /\ y.ok => \A b \in DOMAIN u.ram : y.s.ram[b] = IF b = a THEN two[1] ELSE u.ram[b]
        BY <4>1, WordPut
      <4>3. w2 = y
        BY DEF w2, u, a
      <4> HIDE DEF y
      <4> QED BY <4>2, <4>3 DEF u, a
    <3>3. SecondPart(t2, next, PTE_W, two, 1) = Reported(w2, "page", next)
      BY <2>8 DEF SecondPart, Physical
    <3> HIDE DEF w2
    <3>4. CASE ~ w2.ok
      <4>1. SecondPart(t2, next, PTE_W, two, 1) = Faults(t2.s, "page", next)
        BY <3>2, <3>3, <3>4 DEF Reported
      <4>2. r = Faults(t2.s, "page", next)
        BY <2>4, <4>1 DEF Joined, Faults
      <4> QED BY <2>6, <4>2 DEF r, w, one
    <3>5. CASE w2.ok
      <4>1. SecondPart(t2, next, PTE_W, two, 1) = Done(w2.s, w2.data)
        BY <3>3, <3>5 DEF Reported
      <4>2. r.ok = TRUE /\ r.s = w2.s
        BY <2>4, <4>1 DEF Joined, Done
      <4>3. \A b \in DOMAIN s.ram \ tables :
                r.s.ram[b] = IF b = target[1] THEN value[2] ELSE IF b = target[0] THEN value[1] ELSE s.ram[b]
        BY <1>1, <2>5, <3>1, <3>2, <3>5, <4>2
      <4>4. 0 .. 2 - 1 = {0, 1} /\ 0 + 1 = 1 /\ 1 + 1 = 2
        OBVIOUS
      <4>5. \A b \in DOMAIN s.ram \ tables :
                IF \E k \in 0 .. 2 - 1 : target[k] = b
                THEN \E k \in 0 .. 2 - 1 : target[k] = b /\ r.s.ram[b] = value[k + 1]
                ELSE r.s.ram[b] = s.ram[b]
        BY <4>3, <4>4
      <4> QED BY <4>2, <4>5 DEF Lands, r, w, one
    <3> QED BY <3>2, <3>4, <3>5
  <2> QED BY <2>7, <2>8
<1> QED BY <1>3, <1>6, <1>7

\* Where the tables can be read, a store lands as it should.
LEMMA StoreExact ==
    ASSUME HostInv, phase = "running" => TablesReadable(bus)
    PROVE  StoreLands
<1> SUFFICES ASSUME phase = "running", bus.htif.power = "on",
                    NEW cpu \in Cpus, NEW va \in VAddrs, NEW value \in Values,
                    \A k \in 0 .. Len(value) - 1 :
                        [j \in 0 .. Len(value) - 1 |-> Target(cpu, va, j)][k] \notin { e.at : e \in Entries(bus) }
             PROVE  Lands({ e.at : e \in Entries(bus) }, bus.ram,
                          vaddr(Quiet(bus), cpu, va, PTE_W, value, Len(value)),
                          [j \in 0 .. Len(value) - 1 |-> Target(cpu, va, j)], value, va,
                          (va + Room(va)) % Space, Len(value), Room(va))
  BY DEF StoreLands, Lands
<1> DEFINE n == Len(value)
           s == Quiet(bus)
           t == address_translate(s, cpu, va, PTE_W)
           next == (va + Room(va)) % Space
           target == [j \in 0 .. n - 1 |-> Target(cpu, va, j)]
           tables == TableWords(bus)
           r == vaddr(s, cpu, va, PTE_W, value, n)
<1>0. /\ TableInv /\ Sound(bus) /\ TablesReadable(bus)
      /\ va \in 0 .. Space - 1 /\ value \in Seq(Nat) /\ n \in {1, 2} /\ Space \in Nat \ {0}
  BY MmuAssumption, BusAssumption DEF HostInv
<1>1. s.ram = bus.ram /\ Sound(s) /\ s.htif.power = "on"
  <2>1. Sound(s) /\ s.htif.power = "on"
    BY <1>0, QuietSound
  <2>2. s.ram = bus.ram
    BY <1>0 DEF Quiet, Sound
  <2> QED BY <2>1, <2>2
<1> HIDE DEF s
<1>2. SameTables(bus, s)
  BY <1>1 DEF SameTables, SameEntry
<1>3. /\ address_translate(bus, cpu, va, PTE_W).ok = t.ok
      /\ t.ok => t.pa = address_translate(bus, cpu, va, PTE_W).pa
      /\ OnlyMarks(bus, s, t.s)
  BY <1>0, <1>1, <1>2, SameTranslation
<1>4. OnlyMarks(bus, bus, t.s) /\ TranslationOk(t)
  <2>1. TranslationOk(t)
    BY <1>0, <1>1, TranslateOk
  <2> QED BY <1>1, <1>3, <2>1 DEF OnlyMarks
<1>5. r = MakeAccess(t, cpu, va, PTE_W, value, n)
  BY DEF vaddr
<1>6. Room(va) \in Nat \ {0} /\ Room(va) = PageSize - (va % PageSize)
  <2>1. va \in Nat /\ PageSize \in Nat \ {0}
    BY <1>0, MmuAssumption
  <2>2. va % PageSize \in 0 .. PageSize - 1
    BY <2>1, NatDivMod
  <2> QED BY <2>1, <2>2 DEF Room
<1>7. \A k \in 0 .. n - 1 : target[k] = Target(cpu, va, k) /\ target[k] \notin tables
  BY DEF TableWords
<1>8. t.ok => t.pa % PageSize = va % PageSize
  BY <1>0, <1>1, PlaceKept
<1> HIDE DEF t, target, r, n
<1>9. CASE ~ t.ok
  <2>1. r = Faults(t.s, "page", va)
    BY <1>5, <1>9 DEF MakeAccess
  <2>2. r.ok = FALSE /\ r.tval = va /\ r.s = t.s /\ r.cause = "page"
    BY <2>1 DEF Faults
  <2>3. \A b \in DOMAIN bus.ram \ tables : r.s.ram[b] = bus.ram[b]
    BY <1>4, <2>2 DEF OnlyMarks
  <2> QED BY <2>2, <2>3, NothingLands DEF TableWords, r, n, target, s
<1>10. CASE t.ok /\ (t.pa = va \/ Room(va) >= n)
  <2>1. r = Whole(t, va, PTE_W, value, n)
    BY <1>5, <1>10 DEF MakeAccess
  <2>2. \A k \in 0 .. n - 1 : target[k] = (t.pa + k) % Space
    <3>1. \A k \in 0 .. n - 1 : k < Room(va) \/ t.pa = va
      BY <1>0, <1>6, <1>10
    <3> QED BY <1>3, <1>7, <1>10, <3>1 DEF Target
  <2>3. Lands(tables, bus.ram, Whole(t, va, PTE_W, value, n), target, value, va, next, n, Room(va))
    BY <1>0, <1>4, <1>7, <1>10, <2>2, WholeLands DEF n
  <2> QED BY <2>1, <2>3 DEF TableWords, r, n, target, s
<1>11. CASE t.ok /\ ~ (t.pa = va \/ Room(va) >= n)
  <2>1. n = 2 /\ Room(va) = 1
    BY <1>0, <1>6, <1>11
  <2>2. r = AfterFirst(write_bytes(t.s, t.pa, SubSeq(value, 1, 1), 1), cpu, va, PTE_W, value, 2)
    BY <1>5, <1>11, <2>1 DEF MakeAccess, Physical
  <2>3. t.pa \in 0 .. Space - 1
    BY <1>4, <1>11 DEF TranslationOk
  <2>4. target[0] = t.pa
    <3>1. 0 \in 0 .. n - 1 /\ 0 < Room(va) /\ t.pa + 0 = t.pa /\ t.pa \in Int /\ 0 <= t.pa /\ t.pa < Space
      BY <1>0, <2>1, <2>3
    <3>2. t.pa % Space = t.pa
      BY <1>0, <3>1, DivSmall
    <3> QED BY <1>3, <1>7, <1>11, <3>1, <3>2 DEF Target
  <2>5. ASSUME address_translate(bus, cpu, next, PTE_W).ok
        PROVE  target[1] = address_translate(bus, cpu, next, PTE_W).pa
    <3> DEFINE second == address_translate(bus, cpu, next, PTE_W).pa
    <3>1. 1 \in 0 .. n - 1 /\ ~ (1 < Room(va))
      BY <2>1
    <3>2. target[1] = second + 1 - Room(va)
      BY <1>3, <1>7, <1>11, <3>1 DEF Target
    <3>3. second \in Int
      <4>1. next \in 0 .. Space - 1
        <5> DEFINE x == va + Room(va)
        <5>1. x \in Nat
          BY <1>0, <1>6
        <5> HIDE DEF x
        <5>2. x % Space \in 0 .. Space - 1
          BY <1>0, <5>1, NatDivMod
        <5> QED BY <5>2 DEF x
      <4> HIDE DEF next
      <4>2. TranslationOk(address_translate(bus, cpu, next, PTE_W))
        BY <1>0, <4>1, TranslateOk
      <4> QED BY <1>0, <2>5, <4>2 DEF TranslationOk
    <3> HIDE DEF second
    <3>4. second + 1 - 1 = second
      BY <3>3
    <3> QED BY <2>1, <3>2, <3>4 DEF second
  <2>6. t.pa % PageSize # 0
    <3>1. t.pa % PageSize = va % PageSize
      BY <1>8, <1>11
    <3>2. va % PageSize \in 0 .. PageSize - 1 /\ PageSize \in Nat /\ PageSize > 1
      <4>1. va \in Nat /\ PageSize \in Nat \ {0}
        BY <1>0, MmuAssumption
      <4> QED BY <4>1, NatDivMod, AlignAssumption
    <3> QED BY <1>6, <2>1, <3>1, <3>2
  <2>7. target[0] \notin tables
    BY <1>7, <2>1
  <2>8. Lands(tables, bus.ram,
              AfterFirst(write_bytes(t.s, t.pa, SubSeq(value, 1, 1), 1), cpu, va, PTE_W, value, 2),
              target, value, va, next, 2, 1)
    BY <1>0, <1>4, <1>11, <2>1, <2>4, <2>5, <2>6, <2>7, PartsLand DEF n
  <2> QED BY <2>1, <2>2, <2>8 DEF TableWords, r, n, target, s
<1> QED BY <1>9, <1>10, <1>11

\* As long as the tables lie in memory that can be read, a store that is done is
\* where the translation of each word leads, and one that faults has written the
\* words before the page it names and no others.
THEOREM StoresLand ==
    Spec => []((phase = "running" => TablesReadable(bus)) => StoreLands)
<1>1. HostInv /\ [Next]_memVars => HostInv'
  BY StepHost
<1>2. HostInv => ((phase = "running" => TablesReadable(bus)) => StoreLands)
  BY StoreExact
<1> QED BY InitHost, <1>1, <1>2, PTL DEF Spec
=============================================================================
