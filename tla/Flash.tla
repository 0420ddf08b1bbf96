------------------------------- MODULE Flash -------------------------------
(***************************************************************************)
(* The configuration flash: lib/flash.c over the EPCS driver, its commands *)
(* and the SPI master, byte by byte, against a chip of which only the      *)
(* protocol is modelled.  The driver's calls are a list of things still to *)
(* do, which each of them lengthens or shortens.  A byte has two bits, and *)
(* an address is three bytes of one bit, or four in the large chip's mode. *)
(***************************************************************************)
EXTENDS Integers, SequencesExt

CONSTANTS PageSize,   (* the chip's page: 256                                *)
          BlockSize,  (* its erase block: 65536                              *)
          FewBlocks,  (* blocks of a chip with three-byte addresses          *)
          ManyBlocks, (* and of one that needs four                          *)
          ChunkSize,  (* what alt_epcs_flash_memcmp reads at once: 32        *)
          BufSize,    (* FLASH_Verify's buffer: 8192                         *)
          Spans,      (* offsets and lengths of the calls                    *)
          MaxCalls    (* bound: calls of lib/flash.c and the driver          *)

ASSUME FlashAssumption ==
    /\ {PageSize, BlockSize, FewBlocks, ManyBlocks, ChunkSize, BufSize} \subseteq Nat \ {0}
    /\ BlockSize % PageSize = 0 /\ FewBlocks * BlockSize <= 8 /\ ManyBlocks * BlockSize <= 16
    /\ Spans \subseteq Nat \X Nat /\ MaxCalls \in Nat

VARIABLES
    chip,   (* the device: its kind, selection, bytes heard, modes, contents *)
    spi,    (* alt_avalon_spi_command's locals while it runs                 *)
    todo,   (* what the call under way has still to do                       *)
    input,  (* the bytes last read                                           *)
    geo,    (* alt_flash_epcs_dev: blocks, four_bytes_mode, registered       *)
    handle, (* whether the caller has a FLASH_HANDLE                         *)
    rc,     (* the call's result so far                                      *)
    calls,  (* how many calls there have been                                *)
    promise (* history: the contents and the result the call should end with *)

flashVars == <<chip, spi, todo, input, geo, handle, rc, calls, promise>>

Erased == 3
Both(a, b) == (a % 2) * (b % 2) + 2 * ((a \div 2) * (b \div 2))
Least(a, b) == IF a < b THEN a ELSE b
Cells(kind) == 0 .. BlockSize * (IF kind = "few" THEN FewBlocks ELSE ManyBlocks) - 1
Block(b) == b * BlockSize .. (b + 1) * BlockSize - 1
NoCommand == [busy |-> FALSE, send |-> <<>>, zeros |-> 0, ignore |-> 0, credits |-> 0,
              reply |-> <<>>, merge |-> FALSE]

FlashInit ==
    /\ \E kind \in {"few", "many", "other"} :
          chip = [kind |-> kind, selected |-> FALSE, heard |-> <<>>, wel |-> FALSE,
                  wip |-> FALSE, four |-> FALSE, mem |-> [a \in Cells(kind) |-> Erased]]
    /\ spi = NoCommand
    /\ todo = <<[do |-> "query"]>>
    /\ input = <<>>
    /\ geo = [blocks |-> 0, four |-> FALSE, registered |-> FALSE]
    /\ handle = FALSE
    /\ rc = 0
    /\ calls = 0
    /\ promise = [mem |-> chip.mem, rc |-> 0, input |-> <<>>]

-----------------------------------------------------------------------------
(* The chip, as the driver relies on it. *)

AddressLen(c) == IF c.four THEN 4 ELSE 3
AddressIn(c) == FoldLeft(LAMBDA v, x : 2 * v + x, 0, SubSeq(c.heard, 2, 1 + AddressLen(c)))
Size(c) == Cardinality(DOMAIN c.mem)

(* What it answers to one more byte. *)
Reply(c, byte) ==
    LET n == Len(c.heard)
        op == IF n = 0 THEN "none" ELSE c.heard[1]
    IN  CASE op = "rdsr" -> IF c.wip THEN 1 ELSE 0
          [] op = "read" /\ ~ c.wip /\ n > AddressLen(c) ->
                c.mem[(AddressIn(c) + n - 1 - AddressLen(c)) % Size(c)]
          [] op = "res" /\ n = 4 -> IF c.kind = "few" THEN 2 ELSE 0
          [] op = "rdid" /\ n = 3 -> IF c.kind = "many" THEN 1 ELSE 0
          [] OTHER -> 0

(* Released, it carries out what it heard: a page is programmed in a ring,  *)
(* bits only fall, and whatever changes something needs write enable first. *)
Released(c) ==
    LET op == IF c.heard = <<>> THEN "none" ELSE c.heard[1]
        a == AddressIn(c) % Size(c)
        page == a - (a % PageSize)
        data == SubSeq(c.heard, 2 + AddressLen(c), Len(c.heard))
        hit(x) == {i \in DOMAIN data : page + ((a + i - 1) % PageSize) = x}
        idle == [c EXCEPT !.selected = FALSE, !.heard = <<>>]
    IN  CASE c.wip -> idle
          [] op = "wren" -> [idle EXCEPT !.wel = TRUE]
          [] op = "en4b" /\ c.wel -> [idle EXCEPT !.wel = FALSE, !.four = TRUE]
          [] op = "dis4b" /\ c.wel -> [idle EXCEPT !.wel = FALSE, !.four = FALSE]
          [] op = "se" /\ c.wel /\ Len(c.heard) = 1 + AddressLen(c) ->
                [idle EXCEPT !.wel = FALSE, !.wip = TRUE,
                             !.mem = [x \in DOMAIN @ |-> IF x \in Block(a \div BlockSize) THEN Erased ELSE @[x]]]
          [] op = "pp" /\ c.wel /\ data # <<>> ->
                [idle EXCEPT !.wel = FALSE, !.wip = TRUE,
                             !.mem = [x \in DOMAIN @ |-> IF hit(x) = {} THEN @[x]
                                      ELSE Both(@[x], data[CHOOSE i \in hit(x) : \A j \in hit(x) : j <= i])]]
          [] OTHER -> idle

-----------------------------------------------------------------------------
(* alt_avalon_spi_command: one byte out for every byte in. *)

Command(send, reads, merge) == [do |-> "spi", send |-> send, reads |-> reads, merge |-> merge]

SpiBegin ==
    /\ ~ spi.busy /\ todo # <<>> /\ Head(todo).do = "spi"
    /\ LET t == Head(todo)
       IN  spi' = [busy |-> TRUE, send |-> t.send, zeros |-> t.reads, ignore |-> Len(t.send),
                   credits |-> 1, reply |-> <<>>, merge |-> t.merge]
    /\ input' = IF Head(todo).reads > 0 THEN <<>> ELSE input
    /\ chip' = [chip EXCEPT !.selected = TRUE]
    /\ todo' = Tail(todo)
    /\ UNCHANGED <<geo, handle, rc, calls, promise>>

SpiSend ==
    /\ spi.busy /\ spi.credits > 0 /\ (spi.send # <<>> \/ spi.zeros > 0)
    /\ LET byte == IF spi.send # <<>> THEN Head(spi.send) ELSE 0
       IN  /\ spi' = [spi EXCEPT !.credits = @ - 1, !.reply = <<Reply(chip, byte)>>,
                                 !.send = IF @ # <<>> THEN Tail(@) ELSE @,
                                 !.zeros = IF spi.send # <<>> THEN @ ELSE @ - 1]
           /\ chip' = [chip EXCEPT !.heard = Append(@, byte)]
    /\ UNCHANGED <<todo, input, geo, handle, rc, calls, promise>>

(* Mutant: the slave stays selected after every command. *)
Deselected_Never(merge) == chip

(* Unless the next command is to be part of the same. *)
Deselected(merge) == IF merge THEN chip ELSE Released(chip)

SpiReceive ==
    /\ spi.busy /\ spi.reply # <<>>
    /\ LET ignored == spi.ignore > 0
           got == IF ignored THEN input ELSE Append(input, spi.reply[1])
           left == IF ignored THEN spi.ignore - 1 ELSE 0
           last == left = 0 /\ spi.send = <<>> /\ spi.zeros = 0
       IN  /\ input' = got
           /\ IF last
              THEN /\ spi' = NoCommand
                   /\ chip' = Deselected(spi.merge)
              ELSE /\ spi' = [spi EXCEPT !.reply = <<>>, !.ignore = left, !.credits = @ + 1]
                   /\ UNCHANGED chip
    /\ UNCHANGED <<todo, geo, handle, rc, calls, promise>>

ChipDone ==
    /\ chip.wip /\ chip' = [chip EXCEPT !.wip = FALSE]
    /\ UNCHANGED <<spi, todo, input, geo, handle, rc, calls, promise>>

-----------------------------------------------------------------------------
(* epcs_commands.c. *)

Await == [do |-> "await"]
WriteEnable == <<Command(<<"wren">>, 0, FALSE)>>
Enter4 == WriteEnable \o <<Command(<<"en4b">>, 0, FALSE)>>
Exit4 == WriteEnable \o <<Command(<<"dis4b">>, 0, FALSE)>>
Framed(core) == IF geo.four THEN Enter4 \o core \o Exit4 ELSE core
AddressBytes(o) == IF geo.four THEN <<(o \div 8) % 2, (o \div 4) % 2, (o \div 2) % 2, o % 2>>
                   ELSE <<(o \div 4) % 2, (o \div 2) % 2, o % 2>>

epcs_sector_erase(o) ==
    Framed(WriteEnable \o <<Command(<<"se">> \o AddressBytes(o), 0, FALSE), Await>>)

epcs_read_electronic_signature == Command(<<"res", 0, 0, 0>>, 1, FALSE)
epcs_read_device_id == Command(<<"rdid">>, 3, FALSE)

epcs_read_buffer(o, n) == Framed(<<Await, Command(<<"read">> \o AddressBytes(o), n, FALSE)>>)

epcs_write_buffer(o, data) ==
    Framed(WriteEnable \o <<Command(<<"pp">> \o AddressBytes(o), 0, TRUE), Command(data, 0, FALSE), Await>>)

-----------------------------------------------------------------------------
(* The driver.  Each operation either gives way to others or ends the call  *)
(* with an error, upon which nothing that is left of it is done.            *)

EndOfChip == geo.blocks * BlockSize - 1
alt_epcs_test_address(at) == at <= EndOfChip
Then(ops) == todo' = ops \o Tail(todo) /\ UNCHANGED rc
Fail == todo' = <<>> /\ rc' = -1
Op(name) == ~ spi.busy /\ todo # <<>> /\ Head(todo).do = name
Arg == Head(todo)
Slice(s, from, n) == SubSeq(s, from + 1, from + n)

(* epcs_await_wip_released: the status is read until the bit falls. *)
epcs_await_wip_released ==
    /\ \/ Op("await") /\ Then(<<Command(<<"rdsr">>, 1, FALSE), [do |-> "wip"]>>)
       \/ Op("wip") /\ Then(IF input = <<1>> THEN <<Await>> ELSE <<>>)
    /\ UNCHANGED <<chip, spi, input, geo, handle, calls, promise>>

(* alt_epcs_flash_query: the signature, and the identity if that says       *)
(* nothing; alt_epcs_flash_init registers a chip it knows.                  *)
alt_epcs_flash_init ==
    /\ \/ /\ Op("query")
          /\ Then(<<epcs_read_electronic_signature, [do |-> "signature"]>>)
          /\ UNCHANGED geo
       \/ /\ Op("signature")
          /\ IF input = <<2>>
             THEN geo' = [blocks |-> FewBlocks, four |-> FALSE, registered |-> TRUE] /\ Then(<<>>)
             ELSE Then(<<epcs_read_device_id, [do |-> "identity"]>>) /\ UNCHANGED geo
       \/ /\ Op("identity")
          /\ IF input[3] = 1
             THEN geo' = [blocks |-> ManyBlocks, four |-> TRUE, registered |-> TRUE] /\ Then(<<>>)
             ELSE Fail /\ UNCHANGED geo
    /\ UNCHANGED <<chip, spi, input, handle, calls, promise>>

alt_epcs_flash_erase_block ==
    /\ Op("erase")
    /\ IF alt_epcs_test_address(Arg.at) THEN Then(epcs_sector_erase(Arg.at)) ELSE Fail
    /\ UNCHANGED <<chip, spi, input, geo, handle, calls, promise>>

alt_epcs_flash_read ==
    /\ Op("read")
    /\ IF alt_epcs_test_address(Arg.at) THEN Then(epcs_read_buffer(Arg.at, Arg.n)) ELSE Fail
    /\ UNCHANGED <<chip, spi, input, geo, handle, calls, promise>>

(* Only as far as the end of the page in each round. *)
ToPageEnd(at) == PageSize - (at % PageSize)

alt_epcs_flash_write_block ==
    /\ Op("program")
    /\ LET n == Least(Len(Arg.data), ToPageEnd(Arg.at))
       IN  IF Arg.first /\ ~ alt_epcs_test_address(Arg.at) THEN Fail
           ELSE IF Arg.data = <<>> THEN Then(<<>>)
           ELSE Then(epcs_write_buffer(Arg.at, Slice(Arg.data, 0, n))
                       \o <<[Arg EXCEPT !.at = Arg.at + n, !.first = FALSE,
                                        !.data = SubSeq(Arg.data, n + 1, Len(Arg.data))]>>)
    /\ UNCHANGED <<chip, spi, input, geo, handle, calls, promise>>

(* alt_flash.h's view of it; there is no data cache to flush. *)
alt_erase_flash_block(at) == [do |-> "erase", at |-> at]
alt_read_flash(at, n) == [do |-> "read", at |-> at, n |-> n]
alt_write_flash(at, data) == [do |-> "write", at |-> at, data |-> data]
alt_write_flash_block(at, data) == [do |-> "program", at |-> at, data |-> data, first |-> TRUE]

(* alt_epcs_flash_memcmp: chunk by chunk, up to the first difference. *)
alt_epcs_flash_memcmp ==
    /\ \/ /\ Op("compare")
          /\ LET n == Least(Len(Arg.data), ChunkSize)
             IN  IF n = 0 THEN Then(<<>>)
                 ELSE Then(<<alt_read_flash(Arg.at, n), [Arg EXCEPT !.do = "compared"]>>)
       \/ /\ Op("compared")
          /\ LET n == Len(input)
             IN  IF input = Slice(Arg.data, 0, n)
                 THEN Then(<<[Arg EXCEPT !.do = "compare", !.at = @ + n,
                                         !.data = SubSeq(@, n + 1, Len(@))]>>)
                 ELSE Then(<<alt_erase_flash_block(Arg.block * BlockSize), alt_write_flash_block(Arg.start, Arg.all)>>)
    /\ UNCHANGED <<chip, spi, input, geo, handle, calls, promise>>

(* A block that does not hold the data already is erased, whatever else is  *)
(* in it, and then programmed.                                              *)
alt_epcs_flash_write ==
    /\ Op("write")
    /\ IF Arg.at > EndOfChip \/ Arg.data = <<>> THEN Then(<<>>)
       ELSE LET block == Arg.at \div BlockSize
                n == Least((block + 1) * BlockSize - Arg.at, Len(Arg.data))
                data == Slice(Arg.data, 0, n)
            IN  Then(<<[do |-> "compare", at |-> Arg.at, data |-> data, block |-> block,
                        start |-> Arg.at, all |-> data],
                       [Arg EXCEPT !.at = (block + 1) * BlockSize, !.data = SubSeq(@, n + 1, Len(@))]>>)
    /\ UNCHANGED <<chip, spi, input, geo, handle, calls, promise>>

-----------------------------------------------------------------------------
(* lib/flash.c. *)

(* No open or close function is called: the driver has none. *)
alt_flash_open_dev == geo.registered
alt_epcs_flash_get_info == geo.blocks > 0
Flash_InfoDump == alt_flash_open_dev /\ alt_epcs_flash_get_info

Flash_Open ==
    /\ ~ handle /\ todo = <<>> /\ ~ spi.busy
    /\ alt_flash_open_dev /\ alt_epcs_flash_get_info \* otherwise no handle
    /\ handle' = TRUE
    /\ UNCHANGED <<chip, spi, todo, input, geo, rc, calls, promise>>

Flash_Close ==
    /\ handle /\ todo = <<>> /\ ~ spi.busy
    /\ handle' = FALSE
    /\ UNCHANGED <<chip, spi, todo, input, geo, rc, calls, promise>>

Flash_GetBlockCount == geo.blocks
Flash_GetBlockInfo(i) == [found |-> i < geo.blocks, offset |-> i * BlockSize]
Flash_Size == IF geo.registered THEN geo.blocks * BlockSize ELSE 0

(* The pieces that Flash_Write cuts a buffer into, block after block.  A     *)
(* first piece that starts beyond the block at hand is not cut at all: the   *)
(* room left in that block is negative, which the comparison takes as large. *)
PieceIn(b, at, length, done) ==
    LET left == length - done
        room == IF done = 0 THEN (b + 1) * BlockSize - at ELSE BlockSize
    IN  IF at + done >= b * BlockSize /\ done < length
        THEN IF done = 0 /\ room < 0 THEN left ELSE Least(left, room)
        ELSE 0
Flash_Write(at, data) ==
    LET pieces == FoldLeftDomain(LAMBDA acc, i :
                      LET n == PieceIn(i - 1, at, Len(data), acc.done)
                      IN  [done |-> acc.done + n,
                           ops |-> IF at + acc.done >= (i - 1) * BlockSize /\ acc.done < Len(data)
                                   THEN Append(acc.ops, alt_write_flash_block(at + acc.done, Slice(data, acc.done, n)))
                                   ELSE acc.ops],
                      [done |-> 0, ops |-> <<>>], [i \in 1 .. Flash_GetBlockCount |-> i])
    IN  pieces.ops

Counting(from, n) == [k \in 1 .. n |-> (from + k - 1) % 4]

(* FLASH_Verify takes every block, or only the first and the last. *)
Taken(quick, count) ==
    SelectSeq([i \in 1 .. count |-> i - 1], LAMBDA i : ~ quick \/ i = 0 \/ i = count - 1)
Erasures(quick) ==
    LET blocks == Taken(quick, Flash_GetBlockCount)
    IN  [i \in DOMAIN blocks |-> alt_erase_flash_block(Flash_GetBlockInfo(blocks[i]).offset)]
Buffers(quick) ==
    LET blocks == Taken(quick, Flash_GetBlockCount)
        each == (BlockSize + BufSize - 1) \div BufSize
    IN  [j \in 1 .. Len(blocks) * each |->
            LET i == (j - 1) \div each
                from == ((j - 1) % each) * BufSize
            IN  [at |-> Flash_GetBlockInfo(blocks[i + 1]).offset + from, count |-> i * BlockSize + from,
                 n |-> Least(BufSize, BlockSize - from)]]
FLASH_Verify(quick, start) ==
    LET parts == Buffers(quick)
    IN  Erasures(quick)
          \o FlattenSeq([j \in DOMAIN parts |->
                 Flash_Write(parts[j].at, Counting(start + parts[j].count, parts[j].n))])
          \o FlattenSeq([j \in DOMAIN parts |->
                 <<alt_read_flash(parts[j].at, parts[j].n),
                   [do |-> "verify", data |-> Counting(start + parts[j].count, parts[j].n)]>>])

Verify ==
    /\ Op("verify")
    /\ IF input = Arg.data THEN Then(<<>>) ELSE Fail
    /\ UNCHANGED <<chip, spi, input, geo, handle, calls, promise>>

-----------------------------------------------------------------------------
(* What the calls promise, cell by cell. *)

Over(mem, at, data, Value(_, _)) ==
    [x \in DOMAIN mem |-> IF x \in at .. at + Len(data) - 1 THEN Value(mem[x], data[x - at + 1]) ELSE mem[x]]
New(old, v) == v
(* The blocks whose part of the data differs from what they hold. *)
Rewritten(mem, at, data) ==
    {x \in DOMAIN mem : \E y \in Block(x \div BlockSize) \cap at .. at + Len(data) - 1 :
                              mem[y] # data[y - at + 1]}
Wiped(mem, cells) == [x \in DOMAIN mem |-> IF x \in cells THEN Erased ELSE mem[x]]
Verified(mem, quick, start) ==
    FoldLeft(LAMBDA m, p : Over(m, p.at, Counting(start + p.count, p.n), New), mem, Buffers(quick))

BeginFlash(ops, mem, result, reads) ==
    /\ todo = <<>> /\ ~ spi.busy /\ calls < MaxCalls
    /\ todo' = ops
    /\ rc' = 0
    /\ calls' = calls + 1
    /\ promise' = [mem |-> mem, rc |-> result, input |-> reads]
    /\ UNCHANGED <<chip, spi, input, geo, handle>>

CallFlash ==
    LET mem == chip.mem
    IN  \/ /\ handle
           /\ \E span \in Spans, start \in {0, 1} :
                 LET at == span[1]
                     data == Counting(start, span[2])
                     inside == at <= EndOfChip
                 IN  /\ at + span[2] <= EndOfChip + 1 \/ ~ inside
                     /\ \/ BeginFlash(Flash_Write(at, data), Over(mem, at, data, Both),
                                 IF inside THEN 0 ELSE -1, <<>>)
                        \/ /\ start = 0
                           /\ BeginFlash(<<alt_read_flash(at, span[2])>>, mem,
                                    IF inside THEN 0 ELSE -1,
                                    IF inside THEN [k \in 1 .. span[2] |-> mem[at + k - 1]] ELSE <<>>)
                        \/ /\ inside
                           /\ BeginFlash(<<alt_write_flash(at, data)>>,
                                    Over(Wiped(mem, Rewritten(mem, at, data)), at, data, New), 0, <<>>)
       \/ /\ handle
          /\ \E i \in {0, geo.blocks - 1, geo.blocks} :
                IF Flash_GetBlockInfo(i).found
                THEN BeginFlash(<<alt_erase_flash_block(Flash_GetBlockInfo(i).offset)>>,
                           Wiped(mem, Block(i)), 0, <<>>)
                ELSE BeginFlash(<<[do |-> "refuse"]>>, mem, -1, <<>>)
       \/ /\ alt_flash_open_dev \* it opens a handle of its own and closes it
          /\ \E quick \in BOOLEAN : BeginFlash(FLASH_Verify(quick, 1), Verified(mem, quick, 1), 0, <<>>)

Refuse == Op("refuse") /\ Fail /\ UNCHANGED <<chip, spi, input, geo, handle, calls, promise>>

FlashNext ==
    \/ SpiBegin
    \/ SpiSend
    \/ SpiReceive
    \/ ChipDone
    \/ epcs_await_wip_released
    \/ alt_epcs_flash_init
    \/ alt_epcs_flash_erase_block
    \/ alt_epcs_flash_read
    \/ alt_epcs_flash_write_block
    \/ alt_epcs_flash_memcmp
    \/ alt_epcs_flash_write
    \/ Verify
    \/ Refuse
    \/ Flash_Open
    \/ Flash_Close
    \/ CallFlash

-----------------------------------------------------------------------------
(* A call of lib/flash.c or the driver that has returned left in the chip    *)
(* exactly what it promises: a programmed byte is in its cell and in no      *)
(* other, although pages are rings and bits only fall; a block is erased     *)
(* exactly if it held something else; and the chip stands released, idle and *)
(* in three-byte mode (flash.c 155-219, altera_avalon_epcs_flash_controller.c *)
(* 238-310, 372-440).                                                        *)
FlashHolds ==
    (todo = <<>> /\ ~ spi.busy) =>
        /\ chip.mem = promise.mem
        /\ ~ chip.selected /\ ~ chip.wip /\ ~ chip.four /\ ~ chip.wel
        /\ calls > 0 => rc = promise.rc /\ (promise.input # <<>> => input = promise.input)
        /\ calls = 0 => geo.registered = (chip.kind # "other")
        /\ calls = 0 => Flash_InfoDump = (chip.kind # "other")
        /\ handle => Flash_Size = Cardinality(DOMAIN chip.mem)
=============================================================================
