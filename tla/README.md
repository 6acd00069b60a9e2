# A verification development for the Vector-06C FPGA replica

The repository replicates the Vector-06C home computer in an FPGA: Verilog and
VHDL for the machine, and, for its floppy drive, a second computer, a 6502
with firmware in C that serves disk images from an SD card. These TLA+ modules
model the floppy drive from the controller's registers down to the card, the
menu and the keyboard beside it, the C library the firmware is linked with, and
the interval timer on the processor's bus. TLC checks them on small instances.
TLAPS proves, for every instance, that the floppy drive delivers and stores what
is asked of it, that the file layer reads and writes an image's own bytes, that
the card driver implements a store of blocks, that the menu shows the card's
images and opens the one that is highlighted, that the key matrix is what is held
down, and the invariants of the controller, the heap, the calendar and the timer.

## The system

| Component | Source | State | Operations | Talks to |
|---|---|---|---|---|
| WD1793 front end | `src/floppy/wd1793.v` | track, sector, data and command registers, pending flag, head position, byte counter, buffer address, request port, 15 states | register writes, one clock | host by I/O ports; firmware by request and status port; buffer RAM |
| Floppy board | `src/floppy/floppy.v` | sector buffer, status port, 6502 enable | one clock | arbitrates the buffer between controller, 6502 and DMA |
| Disk server | `firmware/floppysrc/slave.c`, `main.c` | request being served, result, drive bit, mounted image | poll, serve READ, WRITE, READADDR, NOP, ACK, FAIL; menu; remount | controller, image, card |
| Disk image | `fddimage.c` | position | seek, read, write, address field | FAT file layer |
| FAT file layer | `tff.c`, `philes.c` | file pointer, cluster, one sector buffer, error flag | open, lseek, read, write in place, directory | card driver |
| Card driver | `mmc.c` | card type, status | initialise, command, read and write blocks, poll | SPI, DMA |
| DMA engine, SPI shifter | `src/floppy/dma_rw.v`, `spi.v` | block counter, address, shift register | start, byte, end | card, buffer |
| OSD menu | `menu.c`, `osd.c`, `philes.c` | menu state, highlight, page, directory object, the screen | key events, a turn of the list, inactivity | disk server, file layer |
| C library | `cc65libsrc` | free list; `struct tm`; `FILE`; the scan in progress | malloc, realloc, free, posix_memalign; mktime and its callers, strftime; fopen, fgetc, fseek, ...; fscanf | programs linked with it |
| 8253 timer | `src/i8253/8253.v` | three counters: mode, load state, latch, count | CPU reads and writes, clock | CPU by the bus, beeper |
| Keyboard | `src/keyboard/*.v` | bits received, decoder state, matrix | PS/2 byte, matrix scan, LED command | PS/2 device, 8255, OSD |
| RAM disk, SRAM map | `src/ramdisk/kvaz.v`, `sram_map.v` | control register | address translation | CPU, SRAM |
| Reset and keys | `src/specialkeys.v`, `oneshot.v`, `clockster.v` | latches | key events, clock | everything |
| Top level | `src/vector06cc.v` | wait states, port map | CPU cycle | everything |
| Video, OSD text, DE1 board, T80, 8255, YM2149, PLLs | | | | |

The hard behaviour is in the floppy drive. Three actors work on one sector
buffer and two one-byte ports: the host's program, the controller's state
machine, which moves on every clock, and the firmware, which polls. The
controller stops the 6502 whenever it uses the buffer. Between two accesses of
the firmware the host may write any register, interrupt the command, reset
itself; the user may change the image, pull the card, press reset. What makes
it correct:

- what the host reads is the sector it addressed, what it writes lands there;
- the four-phase handshake (work, completion, ACK, clear) pairs each request
  with its own answer;
- counters and addresses of a transfer agree, so it neither stops short nor
  runs off the buffer;
- the registers the firmware reads cannot change under a request;
- every command ends, with data or with an error bit.

## Modules

| Module | Models | Extends or instantiates |
|---|---|---|
| `WD1793` | the controller alone | |
| `WD1793_proofs` | its theorems | `WD1793`, TLAPS |
| `FddImage` | `fddimage.c` as operators | |
| `Slave` | `thrall()` and `slave()` | `FddImage` |
| `Floppy` | the board, controller and firmware together, with a host | `WD1793`, `Slave`, `FddImage` |
| `Floppy_proofs` | its theorems | `Floppy`, TLAPS |
| `FatFile` | `tff.c` and `philes.c` with the image loop of `thrall()`, over a card that comes and goes | |
| `FatFile_proofs` | its theorems | `FatFile`, TLAPS |
| `BlockStore` | what `diskio.h` promises of a card: the abstract specification | |
| `Card` | `mmc.c` and the card at the other end of the SPI bus | refines `BlockStore` |
| `Card_proofs` | its theorems, that refinement among them | `Card`, TLAPS |
| `Directory` | volumes, directory entries and names of `tff.c` and `philes.c`, as operators | |
| `Menu` | `menu.c`, `osd.c`, the pager over directories | `Directory` |
| `Menu_proofs` | its theorems | `Menu`, TLAPS |
| `Scan2Matrix` | the scan code tables | |
| `Keyboard` | PS/2 receiver, transmitter, decoder, OSD switch, and the keyboard on the wire | `Scan2Matrix` |
| `Keyboard_proofs` | its theorems | `Keyboard`, TLAPS |
| `Heap` | malloc, free, realloc, posix_memalign | |
| `Calendar` | mktime, localtime, gmtime, strftime, asctime | |
| `Clib_proofs` | the theorems of `Heap` and of `Calendar` | `Heap`, `Calendar`, TLAPS |
| `Reader` | what a stream promises: the abstract specification | |
| `Stdio` | a `FILE` over a file of the system | refines `Reader` |
| `Scanf` | `_scanf.c` over that stream | `Stdio` |
| `Clib` | one program that uses the library | `Heap`, `Calendar`, `Scanf` |
| `Bus` | `clockster.v`, and the processor clock, wait states, status word and registered address of `vector06cc.v` | |
| `Timer` | `8253.v` on that bus | `Bus` |
| `Timer_proofs` | its theorems | `Timer`, TLAPS |
| `Ports` | the two devices behind the I/O ports | `WD1793`, `Timer` |
| `MCPorts`, `MCFloppy`, `MCFatFile`, `MCCard`, `MCMenu`, `MCKeyboard`, `MCClib` | constants for TLC | |

### WD1793

One action is one enabled clock of `_wdmain`. The Verilog block executes the
host's register write first and the `case (state)` after it, all with
nonblocking assignments, so that where both assign a register the state
machine wins. The module keeps that order: `BusTrack`, `BusState`, `BusData`,
... give what the host's write alone leaves in a register, and a state's action
uses them for the registers it does not assign itself. That is how a `$D0`
that falls into the clock in which the state moves on is lost, in the model as
in the code. `Tick` is the block; `Reset` the reset branch; `Dead` the
`STATE_DEAD` branch, which ignores the clock enable and the host.

Data are abstracted: a register holds `0..MaxByte`, the buffer `SECTOR_SIZE`
bytes; a command is its name, a request a record, the status port the set of
its bits. `dir` is what `idata[6:5]` says while a step is dispatched.

Operators named `X_word` are wrong versions of `X`, each a slip one could make
in that line; they are used by no specification, and every property is tested
against one of them.

### Slave and FddImage

An action of `Slave` is the code between two accesses to a port, the buffer or
the card. `pc` names the place. Two local variables of `slave()` are not
initialised, and cc65 keeps them on its stack: `result` may end the loop before
it begins, and `t1`, the drive bit, may hold anything. The menu is a step in
which the image may change and the loop restarts. A card access fails when the
card is out, and may have moved the first half of the sector.

### Floppy

`BoardClock` is one clock of the whole board, with the host's bus cycle of
that clock; `FirmwareStep` is a step of `Slave`, enabled when the 6502 has run
for `CPU_GAP` clocks since the last one and the controller does not hold it.
The controller reacts in the clock in which something happens, the firmware as
much later as it likes. The host is not part of the repository: it polls the
status register, sets up sector, side and drive, issues a command, and moves a
byte for every DRQ, as slowly as it likes. `patience` is how it waits: until
the controller is in READY (it looks at the drive's state or simply waits long
enough), until BUSY is down, or not at all. Its bus cycles are apart by more
clocks than the controller needs for a byte (an 8080 `OUT` takes ten).

Faults are card removals, KEY0 (resets controller, 6502 and host; the status
port keeps its value) and F11 (resets the host program only).

What is on the disks at first and what the host writes are constants
(`Original`, `Written`), so that the theorems are about any bytes. `SectorAt`
is what an image holds at a position, nothing beyond its end.

`NoStaleAnswer` excepts the first instructions after KEY0 (`pc = "main"`): the
status port keeps its value then, and until the firmware clears it the
controller can see the COMPLETE of a request from before the reset.

### FatFile

`Slave` takes the image for an array of sectors that a call reads or writes;
`FatFile` is what lies under that call. An action is one turn of a loop of
`tff.c` with the card accesses made in it: `Follow` one link of `f_lseek`,
`Transfer` one round of `f_read_or_wr`, `OpenDir`, `NextFile` and `f_open` one
walk of the directories. `k` in an action is how many of its accesses the card
answers. The C globals are variables of the same names: `fs` is `FATFS`, `win`
is `fs__win`, `file1` the one open `FIL`.

What a call is for is `OkIsDone`: if it reports FR_OK, a read has handed over
the image's bytes and a write has put its own there. The odd bytes at the end
of an image whose length is no multiple of 512 are excepted for writes: there
`f_read_or_wr` copies from `fs__win` to the buffer, as for a read, and reports
success; `WritesInPlace` shows that nothing else is hurt.

`Contents` gives a card's sectors byte by byte, so that a FAT12 link that
crosses a sector, and a window with the wrong sector in it, are real. Whether
the code finds the right bytes is judged by `Chain` and `Size`, which no action
looks at. How a card is formatted is assumed: the boot sector's numbers make
sense (`VolumeAssumption`), the root names the images' directory and that the
first cluster and size of each (`DirectoryAssumption`), and the FAT links the
clusters of each file, enough for its size and shared with no other, outside
the FATs and directories (`ChainAssumption`).

Directories are one sector and names are numbers; between requests
the locals are cleared. `Browse` and `Select` are the menu. The functions that
`_FS_READONLY` compiles out are left out.

### Card and BlockStore

An action of `Card` is the driver's code between two bytes on the SPI port:
`send_cmd`, `wait_ready`, `rcvr_datablock` and `xmit_datablock` are places in
`pc`, `sub` the arguments of the frame being sent and where the driver goes
from there. `Tick` counts the driver's two timers down. The card is the other
actor: per kind (MMC, SD version 1 and 2, SDHC) it says what a command is
answered with, and it answers, sends, programs and becomes ready when it likes.
It may be pulled, exchanged, or die with its line high or low, between any two
bytes.

A byte on the line carries its origin, which command it answers, and the driver
cannot see it: `OwnAnswer` says it never takes a byte that answers something
else. That depends on one assumption, in the guards of the card's actions: a
card that works is done before the driver looks for the last time (the 10 ms
timer runs free, so a timeout of 100 ms is one of 90 to 100). A card that is
slower leaves its block on the line, and the next command reads it as its
answer; the wrong version of `WaitToken` that does not restart the timer shows it.

`BlockStore` is the contract the file layer counts on, without bytes, tokens or
timers: a call reads or writes blocks of the card in the socket, or fails.
`Card!StoreSpec` checks that `mmc.c` implements it. It is as weak as the code:
a card that dies inside a block gives RES_OK and `$FF`, because the CRC is
discarded (`well` of a call); a write is reported before the card has
programmed its last block, so that one block may still be lost (`fresh`).

### Directory and Menu

`Directory` holds what the menu asks of a card, as operators: where
`auto_mount` finds the areas of a volume, how a directory object moves from
entry to entry, into the next sector and along the FAT, and the conversions
between the eleven bytes of an entry and the text of a name. `Menu` uses them
one turn of a loop at a time: the reading of an entry, the skipping of the
pages before the one shown, and the slots of the screen one by one. The user presses
keys also between the two reads of `JOYSTICK` in `menu_dispatch`, and takes
cards in and out also while a list is drawn. What FIRE opens is read back from
the screen, through the inversion bit of the highlighted slot, as the code
does it.

The properties hold with the code's limits written into them. After a failed
`f_opendir` in `draw_fsel` (menu.c:314), `hasnextpage` keeps its value; the
user can page beyond the end, and the loop that skips (322) then sets
`pagestart` to 0 without going back to the first entry: the page is empty.
`PageShown` is about lists whose card stayed put (`intact`), so of this it
says nothing; `OpenedIsListed` and `ListCloses` hold after it too. LEFT in column 0
leaves `menu_x` at 255, and in the first line the highlight is on a cell of the
title: FIRE opens the file that its text names, if VECTOR06 has one. A
name with a byte above 127 loses bit 7 on the screen and cannot be opened; FIRE
on an empty slot reads the first image again; `pagestart` wraps in directories
of more than 253 images. Without a card, `menu_busy(2)` sets the menu back in
every pass, and FIRE does nothing.

A card is its sectors (`Disk`) and the links of its FAT (`Link`). `Home` says in
which clusters VECTOR06 lies, for the reference: `HomeEntry` gives its entries in
the order of its clusters, `Images` those that are images, `Items` each image
with its number. The firmware never looks at these; it walks from entry to entry
and from link to link. `CardsAssumption` says what a well kept card is, and TLC
checks it of each of its cards: all sectors of the root and of VECTOR06 are
there, the clusters of VECTOR06 are linked as `Home` says, the root has at most one
entry of that name, image names are short names in ASCII that occur once, and
no file has the name that the title spells. `MenuAssumption` asks for a page of
at least two lines (with one, `down` on a list not drawn yet would turn a page
that nobody has looked up) and for a byte that counts in sixteens, as the
display does.

### The C library

`Clib` is a program linked with the library. The heap, the calendar and the
streams share no variable, so each behaviour uses one of them.

`Heap`: memory is a set of extents; an action is one call, with the search of
the free list, the split, the merges with both neighbours and with the top of
the heap. Addresses and sizes are words of 16 bits, and the arithmetic on them
wraps as in the code. Two kinds of calls succeed and hand out too little: one
that takes a size which wraps (`malloc` of `$FFFC` and more, `realloc` where
`newhptr` or the second header wraps, `posix_memalign` where the alignment
does), and a `realloc` at the top of the heap of a `posix_memalign` block with a gap
below its pointer (realloc.c:79-88), where the gap is counted as room for the
program: a block of 7 bytes with one byte at its end, resized to one byte, is cut to 6 and
the byte lies above the top. Such a call is a step like any other and sets the history variable
`misled`; there the behaviour ends, as the program's next writes may hit any
header. `HeapSound` is about the heap until then. Without that condition `HeapSound`
fails in two calls, for either reason.

`Calendar`: `mktime` is a loop of three phases (the carries, one turn per month
of surplus days, the count), with the 16-bit arithmetic the compiler makes of
it, and `gmtime` and `localtime` hand their work to it. `TimeIsRight` judges it
by the Gregorian calendar counted the long way. `Regular` names the fields for which it
is right. Others come back wrong, though the comment above the code
says that it brings the fields into range: a negative second, a day or month
below its first (a negative month reads `MonthLength[-1]`); and the count is
good up to 2099. `CalendarAssumption` therefore keeps negative months out.
`strftime` is modelled by the lengths it writes, one turn of its loop to a step (`NoSpace`,
`EndOfFormat`, `Item`), and `FormatFits` is about the buffer. `BufferSizes` ends 40 bytes
below 64 KByte: in a larger buffer, which no machine with a stack and a program has room
for, the 16-bit `count` would wrap at the last conversion and pass the test of
strftime.c:208. A format does not end in a lone `%`, behind which strftime.c:86 would
read on. `asctime` of no time reads through NULL.

`Stdio`, `Reader`, `Scanf`: a `FILE` has a flag byte, one pushed-back character
and a descriptor whose position is its own; `Reader` is what a program expects
of it, a text and the rest still to read. `StreamSpec` checks that the first
implements the second over open, close, reading and writing of characters and
lines, seeks, pushing back and scans, with a character the system cannot read.
`ScanMeansFormat` gives a format a meaning of its own (the longest pieces of the
text its conversions can take) and compares what `fscanf` returns, stores and
leaves. Deviations that the two take as they are: a sign and `0x` do not
count for the width, `%x` takes no `0x`, a character pushed back after `fscanf`
replaces the one `fscanf` pushed back itself, `fputs` sets no error flag, and
`freopen` that fails leaves the stream open over a closed descriptor, against
the comment at freopen.c:31. `gets` is modelled with a file that fits.

### Bus and Timer

A step is one edge of the 24 MHz clock. A count of 32 edges, the frame of the
wait-state generator, places everything: the processor's clock every eighth edge,
the timer's every sixteenth, the video's half of the memory cycles, and the
slot of four in which a waiting memory cycle is let go. The processor (T80) is
modelled by machine cycles and T-states; a program is a sequence of `IN`, `OUT`
and other instructions, of any length of the latter, and may be cut off by a
reset at any edge. The timer has no reset.

The always block of a counter unit assigns some registers in several places, and
the last one wins; `UnitEdge` applies the places in that order. The writes are
taken on the processor's clock, the count and the read side on the timer's: that
each access meets exactly one tick is a property of the bus (`AccessMeetsTick`),
and nothing in `8253.v` checks it. `latch` and `plan` are kept beside the chip:
what a program that has latched or loaded a counter may rely on.

`OutOnTime` compares the output with the counts' data-sheet meaning, which
is what the comments of the code aim at ("to be ready by the next clk/tce",
8253.v:274). What it leaves out is what the code does otherwise:

- the output acts on the count before the tick, so with the smallest counts
  (`Hasty`) it acts while they are still being loaded, and a square wave of 3
  stays low; a stopped counter that rests on 1 or 2 moves the output of mode 0
  or 3 before any count is written (`Restless`);
- a wave that is reloaded while it runs takes the low byte of its new count
  with the high byte of the old one if it comes round between the two writes;
- mode 0 is not reset to low by a new count, only by a control word;
- a load of one byte keeps the other byte, which the data sheet makes zero, and
  a latched count of such a unit still takes two reads.

With the switches for the warp clock up there are no wait states, and a strobe
may fall between two ticks; these clocks are left out, as are interrupt and halt
cycles.

`Ports` puts the timer and the disk controller behind one port map. They share
no register; a program in this model uses one of them.

### Keyboard

`Clock` is a cycle of the 24 MHz clock: one state of `vectorkeys.v`, with the
lamp registers, the receiver's output register and the OSD switch of
`specialkeys.v` beside it. It matters which clock: that the OSD has changed
shows for one clock only. The wire is a thousand times slower and moves while
the decoder waits: a byte takes a millisecond, so none is completed in the two or
three clocks the decoder spends in states 21 and 22. A frame is its eleven real bits, sent in pieces that end at
`Cuts`; when `ps2tx` starts in the middle of one, the receiver keeps its bits
and takes the answer FA for the rest, as the code does. `garbled` records that.

F11 resets the decoder that decoded it, which sends F4 again. The keyboard
behind the wire answers every command, repeats a byte it was interrupted in, and
sends its keys in order. Clock filters and synchronisers are abstracted, and so
is a retrace that begins between the two clocks in which a lamp register takes a
change. `Keys` are the keys of the keyboard with the cells they should close in
each layout. Three facts are assumed of the constants: no key has the code of a
prefix, the 2500 clocks for which `ps2tx` delays (104 us) are too short for a
byte to pass unseen, and the cells of a key are those that the decoder's tables
have for its code (`KeysAssumption`, `WireAssumption`, `CellsAssumption`). TLC
checks the last one of the keys in `MCKeyboard`, whose cells are written down from
the keyboard's layout.

## Runs

| Run | Asks | Bounds |
|---|---|---|
| `Ports` | Are the controller's transfer counters, request port and BUSY consistent, whatever host and firmware do? Does the timer see each access once, return a latched count whole, and turn its outputs on the right tick? | 2-byte sectors, 1-byte address field, all of READ, WRITE, READADDR, TRACK, `$D0`, any status at any time; bytes of four values, so counts of 16; two routines of up to five accesses out of twelve, one reset |
| `FloppyTransfer` | Do bytes arrive and land where they should, with a card removal or KEY0 anywhere? | RESTORE and two transfers, both sides, one fault |
| `FloppyHost` | Does a polling host never overrun the controller; what becomes of one that does? Is each answer the answer to its own request? | RESTORE and two transfers, F11 once |
| `FloppyLive` | Does every command end, and a `$D0` during WRITE? | RESTORE and one command of each kind, two images, one card removal |
| `FloppyAbortRead` | `$D0` during READ: violated | one READ |
| `FloppyWrongDrive` | WRITE with two drives: violated | two transfers, drives 0 and 1 |
| `FloppyStep` | Direction of STEP-IN and STEP-OUT: violated | two steps |
| `FatFile` | Do reads and writes hit the image's bytes, does FR_OK mean they did, and is the image served again after any fault? | a fragmented FAT12 card and a FAT16 card with four-sector clusters, 4-byte sectors, two-sector requests, two requests, one failing access, one exchange |
| `Card` | Does the driver keep the block store's promise, take only its own answers, and return? | four kinds of card, blocks of two bytes, one or two blocks, three calls, one mishap, timeouts of two ticks |
| `Menu` | Does the page show the directory's images, is the highlight what FIRE opens, does the list close? | a root and a subdirectory over three clusters, a second card with a partition, a third with none; pages of four, five keys, one exchange, one failing access |
| `Keyboard` | Does the matrix follow the keys, does the decoder always listen again, does the lamp show the OSD? | letter, arrow, layout switch, ScrollLock, F11; four events, one of them possibly the RUS lamp; commands after 9 or 11 bits |
| `Clib` | Is the heap one row of blocks, is a time right, does text stay in its buffer, is a stream read once and in order, does a scan mean its format? | 48 bytes of heap, three blocks, two sizes that fit and three that wrap in `malloc`, in `realloc` or with an alignment; 350 broken down times; files of three characters; 475 texts scanned with 25 formats |

Why the bounds are enough: a sector of two bytes has a first and a last byte,
and the transition between them goes through every state of a transfer; the
address wraps after them. Nothing depends on a third. `MaxCommands` of two
after RESTORE lets a command meet what its predecessor left (counters, status,
drive bit, buffer); a third could only meet the same. `CPU_GAP = 3` is the
smallest gap in which the controller goes from seeing COMPLETE to stopping the
6502; the real one is tens of clocks. `READ_TIME` and `WATCHDOG_TIME` only
delay. `hbytes` keeps one byte more than a sector.

For the timer a count of 16 has a low and a high byte that both borrow and
wrap. Two routines are a load and a latched read, two loads, or a load cut short
and what comes after it; they begin any number of instructions apart, so at any
count. A reset falls on each edge once.

In `FatFile` a request is two sectors, so it can lie within a cluster, begin at
the end of one, cross into a distant one, and run off the file in mid-sector or
at a cluster's end; sectors of four bytes give a FAT12 link on each side of and
across a sector boundary. `Positions` holds the first block, ones on both sides
of cluster boundaries, and one beyond the end. A second request meets whatever
window and file object the first, or its failure, left. `ID_MOD = 2` lets the
mount count wrap, which takes 65,536 mounts on the real thing.

In `Card` a block of two bytes has a first and a last one; a transfer of two
blocks has the gap between them, which is where the token, the busy line and
the stop command fall. The data contain `$FF` and `$FE`, which are also the
idle line and the token. Two ticks let a timeout run out between two looks or
just before one; three calls are an initialisation, a transfer, and one that
meets what it left.

In `Menu` a page of four is filled, partly filled and exceeded by the six
images of the first card, whose directory has deleted entries, labels,
directories and names without extension between them, and lies in clusters that
do not follow each other. Five keys open the menu, the list, the next page, and
choose; an inactivity of two passes ends a list at any of them.

In `Clib` blocks of 6 to 14 bytes are cut from free ones above and below and on
both sides, and merged with one neighbour, with both and with the top. The times
contain each end of each month length, leap and other years on both sides of
the centuries, each carry and the largest `int`. The texts for `fscanf` are all
those of up to three characters out of digits, an octal non-digit, `x`, minus and
space, so every conversion meets each way of ending. The one of four begins with a minus.

In `Keyboard` four events are what it takes to press a key, open the OSD, close
it and let go. A cut after nine bits leaves the receiver with most of a byte and
lets the keyboard finish it unseen; a cut elsewhere differs only in which bits
of the FA complete it. Lamps change at most once, since an exchange leaves
nothing behind but the lamps.

### What the violated runs show

`FloppyAbortRead`: `$D0` while bytes are handed over goes through ABORT and
ENDCOMMAND to ENDCOMMAND2 with `buff_rd` still up. The 6502 stands still, its
status stays COMPLETE, ENDCOMMAND2 waits for it to become 0. Only KEY0 helps.

`FloppyWrongDrive`: the WRITE request has no drive bit and `slave.c` looks at
the bit of the last READ. A WRITE to drive 1 after a READ from drive 0, or with
`t1` still uninitialised, is stored on drive 0. (The other way round the write
is dropped, and as `s_wrfault` only comes from the CRC bit no error shows.)

`FloppyStep`: `wStepDir` looks at `idata`, which one clock after the `OUT` is
the 8080's status word (`T8080se.vhd` 123-130) with bit 6 clear. So a step goes
in the direction *stored by the step before*.

Other deviations were met on the way; the properties that show them are
checked in this project for actors that do not provoke them, and those of the
file layer, the menu and the library are named with their modules. BUSY goes down while
the firmware is still writing, and it reads the sector register only then, so a
host that polls BUSY and selects the next sector moves the write (`WriteLands`
with `Patience = {"poll"}`). And a `$D0` between the firmware's fetch of a
request and its BUSY status leaves an answer the next command takes for its own
(`NoStaleAnswer` with `AbortOf <- Transfers`). In `vectorkeys.v` states 9 and 17
clear a key's bit only while the OSD is down, so a key that is held when
ScrollLock opens the OSD and let go before it closes stays pressed for the
program; `MatrixMatches` excepts such a key (`missed`) until it moves again. The
same goes for a letter held across a change of layout. Of both `MatrixMatches` says
only that no other cell is touched.

## Fairness

`FairSpec` assumes what the hardware and the programs guarantee: the clock
ticks; the 6502, when it runs, runs on; a host that waits for a command polls
and answers DRQ; a card that was pulled is put back. Strong fairness is assumed
for entering the request loop: `slave()` tests `result` before it is set, and a
stack that always holds FR_RW_ERROR there would keep the drive not ready for
good. `FatFairSpec` asks that the firmware's loop runs, and that a card is put
back; `CardFairSpec` that the driver runs, that its timers count, and that a card that
works answers; `MenuFairSpec` only that the firmware runs, for no key and no
card need ever come; `KbFairSpec` that the clock ticks and the keyboard, which has its own,
sends and answers.

## Proofs

`WD1793_proofs` proves for every value of the constants that satisfies
`SizeAssumption` (a sector has a byte, the address field fits) and
`HostAssumption` (the host's commands are commands):

- `TypeCorrect`, `TransfersAreCounted`, `RequestsMatch`, `BusyIsHeld`: the
  controller's invariants in run `Ports`;
- `Handshake`: the action property `FourPhase`;
- `ReadAddressIsStable`: the action property `ReadAddressStable`.

The inductive invariant is the conjunction of the four invariants. `TypeOK`
alone is not inductive, since `READ_1` and `WRITE_2` count down and the counter
must not be zero there; `TransferCounted` says it is not, but needs
`RequestMatchesState`, because how long a transfer is follows from the request
(a READ's or a READADDR's); `BusyHeld` is what locks the registers in
`ReadAddressStable`. There is one lemma for each state of the clock, for reset,
death and the firmware's write, with a step for each part of the invariant.

The environment of these theorems is the most general: any bus cycle in any
clock, any status the firmware can write at any time.

`Clib_proofs` is about two parts of the library. `HeapIsSound` is the invariant of run `Clib`, for every heap
below 64 KByte, all sizes and alignments that a 16-bit word holds, any number of blocks
and any order of calls, up to the first call that the code accepts and should not
(`misled`: a size that wraps, or a block with a gap resized at the top). `HeapSound` is
inductive, and the lemmas of the calls say where each condition is needed: `RawSize` that
a size with its header does not wrap, `ResizeKeeps` that the block is `Whole`. The proof looks at a call as what it does to
the row of blocks: `Give` puts a block back, `Take` takes one out, and the lemmas
say of each that it keeps the row free of gaps, overlaps and free neighbours.

`TimesAreRight` is about the calendar: `mktime` returns the second its
caller's fields count up to, and leaves the fields of that second, for every
broken down time that is `Regular`. Of `CalendarAssumption` it uses only that fields are
integers. The invariant, `CalendarInv`, says what `TimeIsRight` says of the end
for each phase before it: after the carries hours, minutes and seconds are those of the
result, and the day is the right one if it is counted from the start of the
month that `tm_mon` and `tm_year` name, however many days that month has
not got. Each turn of the loop moves from one such name of the day to another
(`NextMonth`, `NextYear`); that years are those of 16 bits and of the count's leap rule
follows from the day, which comes before 2100 (`ThisCentury`, `CountsDays`).

`TextFitsBuffer` is about `strftime`, for every format, every size of buffer in
`BufferSizes`, and every time `mktime` returns, `Regular` or not. `FormatFits`
speaks of the end; `TextInv` says what holds on the way: `count` is the length of the items
taken so far, and while it is below the size of the buffer, all of them were
copied. That is what makes the result of a later turn right: a conversion that is counted and
not copied leaves `count` at or above the size, so the next turn ends with 0. The length
of a text is stated as the number of pairs of an item and a position in it
(`Characters`), which needs no recursion, and `MoreCharacters` is what one item adds. The names of
days and months, and so the lengths, exist only for fields in range: `FieldsInv`
says that a time is returned only with such fields.

`Timer_proofs` proves, for every set of routines, any number of them and of
resets, and any width of a byte (`ProgramAssumption`: a byte has an even number
of values, routines are sequences of at least one instruction, and an `OUT`
writes a byte, or a control word to the control port):

- `AccessIsAligned`: the invariant `AccessMeetsTick`. The invariant `InStep` says
  that the frame counter tells the state of every other clock register, and in
  which quarter of the frame each T-state of an I/O cycle falls: memory cycles
  leave T2 at the end of the last quarter, so the I/O cycle after two of them
  always has the same place. One lemma for each way of the processor clock.
- `LatchedIsRead`: the invariant `LatchReads`. `LatchKept` says at which byte the
  read side of a unit stands while a promise is open, with a state of its own for
  the clocks between a byte being taken and the tick that counts it. It rests on
  `InStep`: that tick is the only one a read meets.
- `OutputsAreOnTime`: the invariant `OutOnTime`, which is far from inductive. It
  says nothing of the clocks before the first tick nor of the count, and the
  output follows the count. `PlanKept` follows a unit from its control word on:
  set back, and at rest on a count its mode does not act on (`Loading`,
  `Rests`); one byte there; both there and waiting for the tick that takes them
  over, which comes by the tenth clock of the next frame (`Between_ticks`); from
  then on output and count are where the tick says (`InWave`). That a control
  word's eight clocks and a byte's one meet one tick each is again `InStep`. One
  lemma for each mode says that a tick takes the wave one step on, round its end
  and past zero included; mode 3, which counts by two, needs the number of
  counts to be even. `PlanKept` was checked by TLC with bytes of four values
  before it was proved.

`Floppy_proofs` is about the composed board, for any geometry, any images and
bytes, any number of commands and faults, and a firmware as slow as it likes:

| Theorem | States | For hosts that |
|---|---|---|
| `BoardTyped` | all variables keep their types | do anything |
| `PollingHostIsSafe` | `NeverDead`: who polls does not overrun the controller | do anything |
| `AnswersAreFresh` | `NoStaleAnswer` | give no `$D0` (`AbortOf = {}`) |
| `BufferIsGuarded` | `BufferGuarded` | give no `$D0` and poll |
| `ReadDeliversWhatIsSelected` | `ReadDelivers` | give no `$D0` and wait for READY (`Patience \subseteq {"finish"}`) |
| `WriteLandsWhereAddressed` | `WriteLands` | the same, and use drive A only |

The hypotheses are the limits the violated runs and their neighbours show: a
`$D0` may leave an answer behind, a host that only polls BUSY may move a write,
a second drive gets the first one's (`FloppyWrongDrive`). `READADDR_LEN <= 6` is
what the firmware supplies of an address field; the controller's constant is 6.
`GapAssumption`, that the 6502 runs at least three clocks between two
accesses, is needed: with less the firmware would be back in the buffer before
the controller stops it.

The invariant grows with what is claimed. `Typed` contains the controller's
invariant, whose lemmas are cited for each of its clocks. `HandInv` is the
handshake seen from both sides: what the status port shows where the firmware is
(`StatusByPlace`); a firmware that works does so on the request that is up, and
the controller waits for it (`WorkIsWanted`); an answer is seen in the clock
after it is given, and withdrawn before the firmware looks again
(`AnswerInPlace`); while bytes are handed over the 6502 stands still after two
clocks at most (`HeldStill`). These four need each other, since where the
firmware can be in the next step follows from where the controller is, and the
other way round. `PlaceInv` adds where the host is. On it rest `ReadInv` (the
request is for what the host wants, the buffer holds it from the answer to the
last byte, the host has as many bytes as the address counts) and `WriteInv`. The
menu may change the image under a request, which is then answered with an error:
`Changing` is the place where what is wanted and what is mounted differ.

`Menu_proofs` is about any cards that `CardsAssumption` admits, with directories of
any length in clusters of any size, any order of keys, any number of exchanges and
failing accesses, and any page of two to six lines. `HighlightIsWhatFireTakes`
states `HighlightIsSelection`. A list is drawn over the one before it and the
drawing may break off at any slot, so the property is not inductive;
`OneHighlight` is what holds all the while: of the slots of the page none but the
selection's is inverted. `TaskInPlace` says which of the loops may be at work.

`ListIsThePage`, `ChoiceIsOpened` and `ServedIsListed` state `PageShown`,
`ChosenIsOpened` and `OpenedIsListed`. None is inductive, since each speaks of the
end of a long walk. The invariant, `MenuInv`, says what has been seen on the way:

- `Placed` where the firmware is: a card is mounted wherever one is read, no list is up
  while one is looked for, and a list not drawn yet is on its first line;
- `Traced` and `ReadOn` that the directory object is at some entry of the
  root, or of VECTOR06, in its sector and cluster, that the entries before it are
  used, and that none has the name looked for. `RootNext` and `HomeNext` say that
  `next_dir_entry` takes it to the next entry, across sectors and clusters, and
  to no other; a directory that ends before its last entry ends by a failed read;
- `DrawnSoFar` that the slots drawn are right and how many images have been
  passed: as many as are skipped, or those of the page so far. `Started` that a
  page begins at an image: pages are turned by 11, back and forth in a byte, and
  need `Paged`, that the offer of a next page was true, which needs `DrawnSoFar`.
  Where the byte wraps, the directory has more than 255 images, and any start is one
  of them;
- `SlotsHold` and `NameHeld` that a slot has a blank, a piece of the title or an
  image's text, and so has the name to be opened;
- `OpenedIsThere` that the file served is the first of its name in VECTOR06, and
  `ChoiceHeld` that a choice is kept until it is opened: a search that fails
  without a failed read has passed every entry of VECTOR06, the chosen one too.

Names go to the screen and back (`TextIs`): `make_dirfile` of the text up to the
first space of the twelve cells is the name, for names of one to eight
characters and up to three of extension. Counting is by the number of images
before an entry (`Numbered`): they are numbered without gaps, so an item of the
list is the image that many others come before.

`Card_proofs` is about `mmc.c` and any cards: any kind, block length, number of
calls, and any number of mishaps. Its assumptions are `CardAssumption`, `DataAssumption`
(blocks are numbered and consist of bytes; a call is for at least one block) and
the card's punctuality, which is in the guards of its actions. `CardInv` says

- what is on the line at each place of the driver (`Line`): the answer to the
  command just sent, then the gap, the token, the block and its checksum, the
  next block if one follows; and nothing once a command is done. What is
  *not* there is the hard part: a card that streams blocks has one begun when
  the driver stops it, and an answer may still be in the card's hands when the
  driver gives up. `Settled` bounds what a busy, sleeping or slow card may do;
- what the driver knows of the card (`Known`, `SameCard`): the steps of
  `disk_initialize` that succeeded tell its kind, as long as it is the same card;
- what has been moved (`Moved`): the blocks read so far are the card's, the
  blocks accepted are on it, and the block being sent is addressed where it
  should be. A call that no card heard gets no further than its first
  command (`Unheard`).

From it follow `ResponsesAreOwn` (`OwnAnswer`), `AddressedAsItCounts`
(`TypeMatchesCard`) and `DriverIsBlockStore` (`StoreSpec`): each step of driver
and card is a step of `BlockStore` or changes nothing in it. `LineIsInStep` is
the invariant itself.

`Keyboard_proofs` is about the keyboard with any keys, cuts, numbers of events, lamp
changes and resets. `OsdKeysHeld` speaks of the moment when nothing is under way;
what holds before is about the bytes between the keyboard's queue and the
decoder. `Stream` is all of them in order: what the decoder has taken of a code,
the byte in the receiver, the bytes not yet sent. `GoingUp` says that a key of
the OSD which is not held either is not seen and is not in the stream, or has its
break code there as the last that is said of it. Most clocks leave `Stream` as it
is and only move a byte from one owner to the next; the few that consume a code
or an answer are covered by one lemma on streams each (`SafeDrop`, `SafeBreak`,
`SafeExtended`), and a key that moves by `SafeBack`. All this holds as long as no command
falls into a byte: `Lost`. That needs `InPlace` (the receiver has the bits that
the keyboard has sent; those it sends unseen it repeats), `Handshake` (when there is a
byte in the receiver and when `ps2tx` works) and `Answered` (what comes after a
command is its answer, so that the decoder never takes FA for a key or a key for
FA). `FrameIs` proves that a byte survives its frame: start bit, parity and stop
bit put on by one side and taken off by the other. The invariant, `KbInv`, was
checked by TLC with two keys of the same code and cuts after the first bit too.

`MatrixIsWhatIsHeld` states `MatrixMatches`, which again speaks of the moment when
nothing is under way. `Settling` is what holds before: with the bytes of `Stream`
still to come, every cell of a held key is closed, or was missed, or the key's
make code is in the stream; every closed cell belongs to a key that is held, or
whose break code is in the stream, or was missed; and what the stream says of a
key last is true of it. The last is needed since a key repeats and moves
while its earlier codes are still in the receiver: only if the codes in the
stream are those of keys, and a make code that no break code follows is that of a
held key, does a code that the decoder takes close and open the right cells.
A key that is typed adds to the end of the stream, a code decoded takes from
its head, and a reset, the OSD and a change of layout empty cells or leave them
to `missed`.

`FatFile_proofs` is about any cards formatted as the three assumptions say: FAT12
and FAT16, clusters of any number of sectors up to 128, sectors of any even
number of bytes, files of any length, and any number of requests, failing
accesses and exchanges of the card. `OkIsAlwaysDone` says what a request is for,
`WritesAreInPlace` what it may never do. `PositionAlwaysMatches` and
`WindowIsCoherent` are the two things they rest on, and neither is inductive:

- `f_read_or_wr` writes whole sectors past `fs__win`, so the window is coherent
  only as long as it holds none of them. `ServeInv` says so of all sectors that
  are the open file's alone (`WholeSectors`). The odd sector at a file's end may
  be in the window, but is read through it and never written. Links of the FAT
  and directories are read through it too, and are no file's data, so they are
  always as formatted (`MetaKept`), which is why `NextCluster` is what
  `get_cluster` returns.
- the window holds what a *card* holds, and so do the numbers of the volume:
  `MountInv` says whose they are, or that nothing is mounted. Between a card's
  exchange and the next mount the drive is not ready, and no access is made.
- `SeekInv` says that `f_lseek` is at the head of the cluster it has counted to,
  `Positioned` the same of the sector for `f_read_or_wr`, where the pointer is at
  a sector's end and the sector is the one before it (`NextIsSector` takes it to the next, in the
  same cluster or in the one linked).
- `CountInv` and `DataInv` are how far a call has come: of a read, the first `br`
  bytes of the buffer are the file's; of a write, the first `br` of the card are
  the caller's. That a run of sectors written leaves those before it alone is
  `OneSector`: no two sectors of files are the same, since clusters are not shared.

`ID_MOD` is any number: a file object outlives its mount, and when the mount
count wraps it is taken for one of the new mount. The image loop opens the file
again after every mount, so that is never asked.

Only model-checked, and why:

- liveness (`EveryCommandEnds`, `AbortEnds`, `CallReturns` and the like): out of
  the prover's reach;
- `StreamSpec`, `ScanMeansFormat`: what a call of several characters does is shown by
  induction over the data, and their modules declare recursive operators.

## Plan

1. (done) `WD1793`, `Slave`, `FddImage`, `Floppy`, the controller's invariants.
2. (done) The handshake, the buffer, reading and writing proved for `Floppy`; to
   come: an abstract sector store that it implements.
3. (done) `FatFile`, and its safety proved; to come: that it implements the array
   of sectors `Slave` takes it for.
4. (done) `Card` over `BlockStore`, and the refinement proved; to come: `dma_rw.v` and `spi.v`, which move a
   block's bytes below it.
5. (done) `Directory` and `Menu`, and their four invariants proved.
6. (done) `Keyboard`, its types, what the OSD sees and the matrix proved.
7. (done) `Heap`, `Calendar`, `Stdio`, `Scanf`; to come: `_printf.s` and `qsort.c`.
8. (done) `Bus`, `Timer`, and its three invariants proved; to come: the
   processor's interrupt cycles.
9. The RAM disk's address translation, the one-shots and the F12 reset.

## Not modelled

Video, OSD text mode, clocks and PLLs, the DE1 kit's board support and the
vendored cores (T80, 6502, 8255, YM2149) are left out: pixel and analogue
timing has no protocol to check, and the cores are other projects. The RAM disk,
the DMA engine and the one-shots are in the plan.

Of the firmware, code that its configuration compiles out is left out:
`disk_ioctl` (`_USE_IOCTL` 0), the functions of the file layer that create,
rename, truncate and remove (`_FS_READONLY`, `_FS_MINIMIZE`), FAT32, long and
double-byte names. The wording of the menu, its drawing and the about page's
scrolling have no property. Of the C library, the firmware itself calls only
string functions in assembler; what is modelled is what the rest of the C sources in
the tree do. `printf`, sorting, searching and the string functions are left out,
and the runtime. The calls of the system under a stream (`open`, `read`,
`write`, `lseek`) are not in the library for this machine: they are modelled
from how the library uses them.
